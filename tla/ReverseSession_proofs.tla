-------------------------- MODULE ReverseSession_proofs --------------------------
(***************************************************************************)
(* Proofs about ReverseSession: what the two sides agree on, for any       *)
(* command lines, servers, flow ids and limits; the sender's pace and the  *)
(* receiver's books, for any rate, ring and number of packets; the table   *)
(* of the reverse path, for any number of hops and routes.                 *)
(***************************************************************************)
EXTENDS ReverseSession, AccumulatorOps_proofs, SequenceTheorems, TLAPS

-----------------------------------------------------------------------------
(* Arithmetic: rates that fit are not wrapped, and an interval within its   *)
(* limits is within them in milliseconds.                                   *)

LEMMA ProductFits ==
  ASSUME NEW n \in Nat, NEW u \in Nat \ {0}, NEW m \in Nat, n <= m \div u
  PROVE  n * u \in 0 .. m
OBVIOUS

LEMMA ProductPositive ==
  ASSUME NEW n \in Nat \ {0}, NEW u \in Nat \ {0}
  PROVE  n * u \in Nat \ {0}
OBVIOUS

LEMMA SmallStays ==
  ASSUME NEW a \in Nat, NEW m \in Nat, a <= m
  PROVE  a % (2 * (m + 1)) = a
OBVIOUS

LEMMA QuotientRange ==
  ASSUME NEW a \in Nat, NEW u \in Nat \ {0}, NEW lo \in Nat, NEW hi \in Nat,
         a \in lo * u .. hi * u
  PROVE  a \div u \in lo .. hi
OBVIOUS

LEMMA QuotientPositive ==
  ASSUME NEW a \in Nat, NEW u \in Nat \ {0}, a >= u
  PROVE  a \div u >= 1
OBVIOUS

\* parseRate: a rate that passes is sent as it was given.
LEMMA RateSurvives ==
  ASSUME NEW r \in [n : Int, unit : Nat \ {0}], RateFits(r)
  PROVE  Rate(r) \in Nat \ {0}
<1>1. r.n \in Nat \ {0} /\ r.unit \in Nat \ {0} /\ MaxInt \in Nat
      /\ r.n <= MaxInt \div r.unit
  BY NegotiationAssumption DEF RateFits
<1>2. PICK p \in Nat \ {0} : p = r.n * r.unit
  BY <1>1, ProductPositive
<1>3. p <= MaxInt
  BY <1>1, <1>2, ProductFits
<1>4. p % (2 * (MaxInt + 1)) = p
  BY <1>1, <1>3, SmallStays
<1>5. AsInt(p) = p
  BY <1>1, <1>3, <1>4 DEF AsInt
<1> QED BY <1>2, <1>5 DEF Rate

\* What an accepted command line may still be refused for.
Refusable(f) ==
  {"collision", "duration cap", "rate cap", "probe rate cap"}
    \cup (IF f.duration < TicksPerMS THEN {"duration"} ELSE {})

\* validateHello against parseTraceArgs.
LEMMA FlagsSurvive ==
  ASSUME NEW f \in Flags, FlagsAccepted(f), NEW id, NEW rev, NEW srv
  PROVE  Refusals(HelloOf(f, id, rev), srv) \subseteq Refusable(f)
<1> DEFINE h == HelloOf(f, id, rev)
<1>1. h.packetSize \in MinPacket .. MaxPacket
  BY DEF HelloOf, FlagsAccepted
<1>2. h.rate \in Nat \ {0}
  <2>1. f.rate \in [n : Int, unit : Nat \ {0}] /\ RateFits(f.rate)
    BY DEF Flags, FlagsAccepted
  <2>2. h.rate = Rate(f.rate)
    BY DEF HelloOf
  <2> QED BY <2>1, <2>2, RateSurvives
<1>3. h.probeRate \in Nat
  <2>1. f.probeRate \in [n : Int, unit : Nat \ {0}] /\ RateFits(f.probeRate)
    BY DEF Flags, FlagsAccepted
  <2>2. h.probeRate = IF f.corroborate = "off" THEN 0 ELSE Rate(f.probeRate)
    BY DEF HelloOf
  <2> QED BY <2>1, <2>2, RateSurvives
<1>4. h.intervalMS \in MinIntervalMS .. MaxIntervalMS
  <2>1. h.intervalMS = f.interval \div TicksPerMS
    BY DEF HelloOf
  <2>2. f.interval \in MinIntervalMS * TicksPerMS .. MaxIntervalMS * TicksPerMS
    BY DEF FlagsAccepted
  <2>3. /\ MinIntervalMS \in Nat /\ MaxIntervalMS \in Nat /\ TicksPerMS \in Nat \ {0}
        /\ f.interval \in Int
    BY NegotiationAssumption DEF Flags
  <2>4. MinIntervalMS * TicksPerMS \in Nat
    BY <2>3
  <2>5. f.interval \in Nat
    BY <2>2, <2>3, <2>4
  <2> QED BY <2>1, <2>2, <2>3, <2>5, QuotientRange
<1>5. h.hopProbe = "on" => h.port >= 1
  BY DEF HelloOf, FlagsAccepted, Flags
<1>6. f.duration >= TicksPerMS => h.durationMS >= 1
  <2>1. h.durationMS = f.duration \div TicksPerMS
    BY DEF HelloOf
  <2>2. f.duration \in Nat /\ TicksPerMS \in Nat \ {0}
    BY NegotiationAssumption DEF Flags, FlagsAccepted
  <2> QED BY <2>1, <2>2, QuotientPositive
<1>7. f.duration \in Int /\ TicksPerMS \in Int /\ h.port \in Int /\ h.durationMS \in Int
  BY NegotiationAssumption DEF Flags, HelloOf
<1> HIDE DEF h
<1>8. /\ "packet size" \notin Refusals(h, srv) /\ "rate" \notin Refusals(h, srv)
      /\ "interval" \notin Refusals(h, srv) /\ "probe rate" \notin Refusals(h, srv)
      /\ "port" \notin Refusals(h, srv)
  BY <1>1, <1>2, <1>3, <1>4, <1>5, <1>7 DEF Refusals
<1>9. "duration" \in Refusals(h, srv) => f.duration < TicksPerMS
  BY <1>6, <1>7 DEF Refusals
<1>10. Refusals(h, srv) \subseteq
         {"packet size", "duration", "duration cap", "rate", "rate cap",
          "interval", "probe rate", "probe rate cap", "port"}
  BY DEF Refusals
<1>11. Refusals(h, srv) \subseteq Refusable(f)
  BY <1>8, <1>9, <1>10 DEF Refusable
<1> QED BY <1>11 DEF h

-----------------------------------------------------------------------------
(* The conversation, from the Hello to the outcome.                        *)

\* The value for "not yet" is none of the records.
LEMMA NoneIsNoRecord == \A f, h, ready : Outcome(f, h, ready) # None
<1> SUFFICES ASSUME NEW f, NEW h, NEW ready PROVE Outcome(f, h, ready) # None
  OBVIOUS
<1>1. "dial" \in DOMAIN Outcome(f, h, ready)
  BY DEF Outcome
<1>2. DOMAIN None = {}
  BY DEF None
<1> QED BY <1>1, <1>2

(***************************************************************************)
(* Every stage follows from the one before it: the Hello from the flags    *)
(* and two different flow ids, the Ready from the Hello, the outcome from  *)
(* both; and the path's status is the outcome's until a NAT is seen, which *)
(* takes a path that is walked.                                            *)
(***************************************************************************)
AgreeInv ==
  /\ flags \in FlagSets /\ FlagsAccepted(flags)
  /\ hello # None => \E id, rev \in FlowIDs : id # rev /\ hello = HelloOf(flags, id, rev)
  /\ refused # {} => hello # None
  /\ refused \in {{}, {"collision"}, Refusals(hello, server)}
  /\ decided # None => hello # None /\ decided = Decisions(hello, server)
  /\ outcome # None => decided # None /\ outcome = Outcome(flags, hello, decided)
  /\ reverseStatus # "" => outcome # None
  /\ reverseStatus \in {"ok", "terminated_at_nat"} => decided.trace

LEMMA InitAgree == Init => AgreeInv
BY DEF Init, AgreeInv, PathInit

\* Hops and packets do not touch what was agreed, but for the NAT.
LEMMA PathAgree ==
  ASSUME AgreeInv, PathNext
  PROVE  AgreeInv'
<1>1. UNCHANGED agreeVars
  BY DEF PathNext
<1>2. CASE ServerPathNext
  <2>1. reverseStatus' = reverseStatus
    BY <1>2 DEF ServerPathNext, Answered, Swept, TakeSnapshot, SendHop, ForwarderExit
  <2> QED BY <1>1, <2>1 DEF AgreeInv, agreeVars
<1>3. CASE outcome # None /\ IngestHop
  <2>1. PICK u : reverseStatus' = Escalated(reverseStatus, u)
    BY <1>3 DEF IngestHop
  <2>2. \/ reverseStatus' = reverseStatus
        \/ reverseStatus = "ok" /\ reverseStatus' = "terminated_at_nat"
    BY <2>1 DEF Escalated
  <2> QED BY <1>1, <1>3, <2>2 DEF AgreeInv, agreeVars
<1> QED BY <1>2, <1>3 DEF PathNext

LEMMA NextAgree == AgreeInv /\ [Next]_vars => AgreeInv'
<1> SUFFICES ASSUME AgreeInv, [Next]_vars PROVE AgreeInv'
  OBVIOUS
<1>1. CASE SendHello
  <2>1. /\ decided = None /\ outcome = None /\ refused = {} /\ reverseStatus = ""
    BY <1>1 DEF AgreeInv, SendHello
  <2>2. UNCHANGED <<flags, server, decided, refused, outcome, reverseStatus>>
    BY <1>1 DEF SendHello, pathVars
  <2>3. \E id, rev \in FlowIDs : id # rev /\ hello' = HelloOf(flags, id, rev)
    BY <1>1 DEF SendHello
  <2> QED BY <2>1, <2>2, <2>3 DEF AgreeInv
<1>2. CASE Answer
  <2>1. UNCHANGED <<flags, server, hello, outcome, reverseStatus>>
    BY <1>2 DEF Answer, pathVars
  <2>2. outcome = None /\ hello # None /\ reverseStatus = ""
    BY <1>2 DEF AgreeInv, Answer
  <2>3. /\ refused' = Refusals(hello, server)
        /\ decided' = None \/ decided' = Decisions(hello, server)
    BY <1>2 DEF Answer
  <2> QED BY <2>1, <2>2, <2>3 DEF AgreeInv
<1>3. CASE Collision
  <2>1. UNCHANGED <<flags, server, hello, decided, outcome, reverseStatus>>
    BY <1>3 DEF Collision, pathVars
  <2>2. hello # None /\ refused' = {"collision"}
    BY <1>3 DEF Collision
  <2> QED BY <2>1, <2>2 DEF AgreeInv
<1>4. CASE ReadReady
  <2>1. UNCHANGED <<flags, server, hello, decided, refused>>
    BY <1>4 DEF ReadReady
  <2>2. /\ decided # None /\ outcome' = Outcome(flags, hello, decided)
        /\ reverseStatus' = outcome'.status
    BY <1>4 DEF ReadReady
  <2>3. reverseStatus' \in {"ok", "terminated_at_nat"} => decided.trace
    BY <2>2 DEF Outcome, PathStatus
  <2>4. outcome' # None
    BY <2>2, NoneIsNoRecord
  <2> QED BY <2>1, <2>2, <2>3, <2>4 DEF AgreeInv
<1>5. CASE PathNext
  BY <1>5, PathAgree
<1>6. CASE StreamNext
  <2>1. UNCHANGED <<agreeVars, reverseStatus>>
    BY <1>6 DEF StreamNext, pathVars
  <2> QED BY <2>1 DEF AgreeInv, agreeVars
<1>7. CASE UNCHANGED vars
  <2>1. UNCHANGED <<agreeVars, reverseStatus>>
    BY <1>7 DEF vars, pathVars
  <2> QED BY <2>1 DEF AgreeInv, agreeVars
<1> QED BY <1>1, <1>2, <1>3, <1>4, <1>5, <1>6, <1>7 DEF Next

LEMMA AgreeIsInvariant == Spec => []AgreeInv
<1> QED BY InitAgree, NextAgree, PTL DEF Spec

\* The probe's rate is in the Hello unless corroboration is off, which the server
\* never overrules; a probe that is dialled was negotiated.
LEMMA ProbesAgree ==
  ASSUME AgreeInv, outcome # None
  PROVE  /\ ProbeLetIn(decided, server) => outcome.dial
         /\ outcome.dial => /\ hello.probeRate = Rate(flags.probeRate)
                            /\ ProbeLetIn(decided, server) \/ ~server.ipv4
<1>1. /\ decided = Decisions(hello, server) /\ outcome = Outcome(flags, hello, decided)
      /\ hello # None
  BY DEF AgreeInv
<1>2. PICK id, rev \in FlowIDs : hello = HelloOf(flags, id, rev)
  BY <1>1 DEF AgreeInv
<1>3. hello.corroborate = flags.corroborate
  BY <1>2 DEF HelloOf
<1>4. decided.corroborate = (flags.corroborate # "off")
  BY <1>1, <1>3 DEF Decisions, Corroborates
<1>5. Rate(flags.probeRate) > 0
  <2>1. flags.probeRate \in [n : Int, unit : Nat \ {0}] /\ RateFits(flags.probeRate)
    BY SessionAssumption DEF AgreeInv, Flags, FlagsAccepted
  <2> QED BY <2>1, RateSurvives
<1>6. outcome.dial = decided.corroborate
  <2>1. outcome.dial = (decided.corroborate /\ Rate(flags.probeRate) > 0)
    BY <1>1 DEF Outcome
  <2>2. decided.corroborate \in BOOLEAN
    BY <1>4
  <2> QED BY <1>5, <2>1, <2>2
<1>7. flags.corroborate # "off" => hello.probeRate = Rate(flags.probeRate)
  BY <1>2 DEF HelloOf
<1> QED BY <1>4, <1>6, <1>7 DEF ProbeLetIn

\* The server walks back with TCP only to the port of a Hello that asked for it.
LEMMA HopProbesAgree ==
  ASSUME AgreeInv, outcome # None, decided.hopProbe
  PROVE  flags.hopProbe = "on" /\ hello.port = flags.port
<1>1. decided = Decisions(hello, server) /\ hello # None
  BY DEF AgreeInv
<1>2. PICK id, rev \in FlowIDs : hello = HelloOf(flags, id, rev)
  BY <1>1 DEF AgreeInv
<1>3. hello.hopProbe = "on"
  BY <1>1 DEF Decisions, ProbesBack
<1> QED BY <1>2, <1>3 DEF HelloOf

\* The reverse flow id of the Hello is never the forward one, nor zero unless the
\* stream is off, so the server's Ready and the client's reading of it are one.
LEMMA AgreedMeansBoth == AgreeInv => BothSidesAgree
<1> SUFFICES ASSUME AgreeInv, outcome # None
             PROVE  /\ outcome.stream = decided.stream
                    /\ outcome.stream => decided.reverseFlowID = hello.reverseFlowID
                    /\ outcome.status = "ok" <=> decided.trace
                    /\ reverseStatus = "terminated_at_nat" => decided.trace
  BY ProbesAgree, HopProbesAgree DEF BothSidesAgree
<1>1. /\ outcome = Outcome(flags, hello, decided) /\ decided = Decisions(hello, server)
      /\ reverseStatus = "terminated_at_nat" => decided.trace
      /\ hello.trace = flags.trace
  <2>1. hello # None /\ outcome = Outcome(flags, hello, decided)
        /\ decided = Decisions(hello, server)
        /\ (reverseStatus = "terminated_at_nat" => decided.trace)
    BY DEF AgreeInv
  <2>2. PICK id, rev \in FlowIDs : hello = HelloOf(flags, id, rev)
    BY <2>1 DEF AgreeInv
  <2> QED BY <2>1, <2>2 DEF HelloOf
<1>2. /\ outcome.stream <=> /\ decided.stream
                            /\ decided.reverseFlowID = hello.reverseFlowID
                            /\ hello.reverseFlowID # 0
      /\ outcome.status = PathStatus(hello.trace, decided.trace)
      /\ outcome.stream \in BOOLEAN
  BY <1>1 DEF Outcome
<1>3. /\ decided.stream => hello.reverseFlowID # 0
      /\ decided.stream => decided.reverseFlowID = hello.reverseFlowID
      /\ decided.trace => hello.trace # "off"
      /\ decided.trace \in BOOLEAN /\ decided.stream \in BOOLEAN
  BY <1>1 DEF Decisions, StreamsBack, WalksBack
<1>4. outcome.status = "ok" <=> decided.trace
  BY <1>2, <1>3 DEF PathStatus
<1> QED BY <1>1, <1>2, <1>3, <1>4

\* trace.go:504-551, 729-738, serve.go:313-366, 912-937: for any flags and server
\* that go ahead, no side waits for a stream or a path the other does not serve,
\* and no probe is turned away but one from a client without an IPv4 address.
THEOREM SidesAgree == Spec => []BothSidesAgree
<1> QED BY AgreeIsInvariant, AgreedMeansBoth, PTL

LEMMA AcceptedMeansServed == AgreeInv => AcceptedFlagsServed
<1> SUFFICES ASSUME AgreeInv PROVE AcceptedFlagsServed
  OBVIOUS
<1>1. flags \in Flags /\ FlagsAccepted(flags)
  BY SessionAssumption DEF AgreeInv
<1>2. refused \subseteq Refusable(flags)
  <2>1. CASE refused \in {{}, {"collision"}}
    BY <2>1 DEF Refusable
  <2>2. CASE refused # {} /\ refused = Refusals(hello, server)
    <3>1. PICK id, rev \in FlowIDs : hello = HelloOf(flags, id, rev)
      BY <2>2 DEF AgreeInv
    <3> QED BY <1>1, <2>2, <3>1, FlagsSurvive
  <2> QED BY <2>1, <2>2 DEF AgreeInv
<1>3. ASSUME decided # None, decided.hopProbe PROVE hello.port \in 1 .. MaxPort
  <2>1. decided = Decisions(hello, server)
    BY <1>3 DEF AgreeInv
  <2>2. PICK id, rev \in FlowIDs : hello = HelloOf(flags, id, rev)
    BY <1>3 DEF AgreeInv
  <2>3. hello.hopProbe = "on"
    BY <1>3, <2>1 DEF Decisions, ProbesBack
  <2>4. hello.port = flags.port
    BY <2>2, <2>3 DEF HelloOf
  <2> QED BY <1>1, <2>4 DEF FlagsAccepted
<1> QED BY <1>2, <1>3 DEF AcceptedFlagsServed, Refusable

\* trace.go:105-234, serve.go:820-884: for any limits, a command line that passes
\* parseTraceArgs fails at the server only for the server's own caps, a taken flow
\* id or a duration below the wire's unit.
THEOREM FlagsServed == Spec => []AcceptedFlagsServed
<1> QED BY AgreeIsInvariant, AcceptedMeansServed, PTL

-----------------------------------------------------------------------------
(* The sender's pace.                                                      *)

Senders == [pc : {"off", "top", "pacing", "gone"}, seq : Nat, t0 : Nat]

LEMMA IntervalPositive == Interval \in Nat \ {0}
<1>1. PICK b \in Nat : b = Bits * TicksPerSecond
  BY StreamAssumption, ProductPositive DEF Bits
<1>2. b \div StreamBPS \in Int
  BY <1>1, StreamAssumption
<1> QED BY <1>1, <1>2 DEF Interval, PacketTicks

\* The write of a packet comes after its slot has begun, and every slot but the
\* last two ends within the duration.
SlotsKept ==
  /\ sender.seq > 0 => clock - sender.t0 >= (sender.seq - 1) * Interval
  /\ Duration > 0 /\ sender.seq > 1 => (sender.seq - 2) * Interval < Duration

(***************************************************************************)
(* Between the check of the duration and the write the packet before is    *)
(* known to have left within the duration; that is what bounds the next.   *)
(***************************************************************************)
PaceInv ==
  /\ clock \in Nat
  /\ sender \in Senders
  /\ sender.pc = "off" => sender.seq = 0
  /\ Duration > 0 /\ sender.pc = "pacing" /\ sender.seq > 0 =>
       (sender.seq - 1) * Interval < Duration
  /\ SlotsKept

LEMMA StepUp ==
  ASSUME NEW n \in Nat
  PROVE  /\ n * Interval \in Nat
         /\ (n + 1 - 1) * Interval = n * Interval
         /\ (n + 1 - 2) * Interval = (n - 1) * Interval
BY IntervalPositive

LEMMA SenderSteps ==
  ASSUME NEW s \in Senders, NEW n \in Nat
  PROVE  /\ LET t == [s EXCEPT !.pc = "top", !.seq = n]
            IN  t \in Senders /\ t.pc = "top" /\ t.seq = n /\ t.t0 = s.t0
         /\ LET t == [s EXCEPT !.pc = "top", !.t0 = n]
            IN  t \in Senders /\ t.pc = "top" /\ t.seq = s.seq /\ t.t0 = n
BY DEF Senders

LEMMA InitPace == Init => PaceInv
BY DEF Init, StreamInit, PaceInv, SlotsKept, Senders

LEMMA PaceKept ==
  ASSUME PaceInv, UNCHANGED <<clock, sender>>
  PROVE  PaceInv'
BY DEF PaceInv, SlotsKept

\* The clock alone moves: nothing gets earlier.
LEMMA TickPace ==
  ASSUME PaceInv, StreamTick
  PROVE  PaceInv'
<1>1. clock' = clock + 1 /\ sender' = sender
  BY DEF StreamTick, serverVars
<1>2. clock \in Nat /\ sender.t0 \in Nat /\ sender.seq \in Nat
  BY DEF PaceInv, Senders
<1>3. CASE sender.seq > 0
  <2>1. PICK n \in Nat : sender.seq = n + 1
    BY <1>2, <1>3
  <2>2. PICK p \in Nat : p = (sender.seq - 1) * Interval
    BY <2>1, StepUp
  <2>3. clock' - sender'.t0 >= (sender'.seq - 1) * Interval
    BY <1>1, <1>2, <1>3, <2>2 DEF PaceInv, SlotsKept
  <2> QED BY <1>1, <1>2, <2>3 DEF PaceInv, SlotsKept
<1>4. CASE ~(sender.seq > 0)
  BY <1>1, <1>2, <1>4 DEF PaceInv, SlotsKept
<1> QED BY <1>3, <1>4

LEMMA WritePace ==
  ASSUME PaceInv, SenderWrite
  PROVE  PaceInv'
<1>1. PICK n \in Nat : sender.seq = n
  BY DEF PaceInv, Senders
<1>2. /\ sender.pc = "pacing" /\ clock' = clock /\ clock \in Nat
      /\ clock - sender.t0 >= n * Interval
      /\ sender' = [sender EXCEPT !.pc = "top", !.seq = @ + 1]
      /\ sender \in Senders
  BY <1>1 DEF SenderWrite, Due, PaceInv
<1>3. /\ sender'.pc = "top" /\ sender'.seq = n + 1 /\ sender'.t0 = sender.t0
      /\ sender' \in Senders
  <2>1. sender' = [sender EXCEPT !.pc = "top", !.seq = n + 1] /\ n + 1 \in Nat
    BY <1>1, <1>2
  <2>2. sender \in Senders
    BY <1>2
  <2> QED BY <2>1, <2>2, SenderSteps
<1>4. clock' - sender'.t0 >= (sender'.seq - 1) * Interval
  <2>1. sender'.seq - 1 = n
    BY <1>3
  <2> QED BY <1>2, <1>3, <2>1
<1>5. Duration > 0 /\ sender'.seq > 1 => (sender'.seq - 2) * Interval < Duration
  <2>1. Duration > 0 /\ n > 0 => (n - 1) * Interval < Duration
    BY <1>1, <1>2 DEF PaceInv
  <2> QED BY <1>3, <2>1, StepUp
<1> QED BY <1>2, <1>3, <1>4, <1>5 DEF PaceInv, SlotsKept

LEMMA CheckPace ==
  ASSUME PaceInv, SenderCheck
  PROVE  PaceInv'
<1>1. PICK n \in Nat : sender.seq = n
  BY DEF PaceInv, Senders
<1>2. /\ clock' = clock /\ clock \in Nat /\ sender.t0 \in Nat
      /\ sender'.seq = n /\ sender'.t0 = sender.t0
      /\ sender'.pc \in {"pacing", "gone"}
      /\ sender' \in Senders
  BY <1>1 DEF SenderCheck, PaceInv, Senders
<1>3. Duration > 0 /\ sender'.pc = "pacing" => clock - sender.t0 < Duration
  <2>1. sender'.pc = "pacing" => ~DurationOver(clock - sender.t0)
    BY DEF SenderCheck, PaceInv
  <2> QED BY <1>2, <2>1, StreamAssumption DEF DurationOver
<1>4. n > 0 => clock - sender.t0 >= (n - 1) * Interval
  BY <1>1 DEF PaceInv, SlotsKept
<1>5. Duration > 0 /\ sender'.pc = "pacing" /\ n > 0 => (n - 1) * Interval < Duration
  <2>1. CASE n > 0
    <3>1. PICK m \in Nat : n = m + 1
      BY <2>1
    <3>2. PICK p \in Nat : p = (n - 1) * Interval
      BY <3>1, StepUp
    <3> QED BY <1>2, <1>3, <1>4, <2>1, <3>2, StreamAssumption
  <2> QED BY <2>1
<1> QED BY <1>1, <1>2, <1>5 DEF PaceInv, SlotsKept

LEMMA NextPace == PaceInv /\ [Next]_vars => PaceInv'
<1> SUFFICES ASSUME PaceInv, [Next]_vars PROVE PaceInv'
  OBVIOUS
<1>1. CASE UNCHANGED streamVars
  BY <1>1, PaceKept DEF streamVars
<1>2. CASE SenderStart
  <2>1. /\ sender.pc = "off" /\ clock' = clock /\ clock \in Nat /\ sender \in Senders
        /\ sender' = [sender EXCEPT !.pc = "top", !.t0 = clock] /\ sender.seq = 0
    BY <1>2 DEF SenderStart, PaceInv
  <2>2. sender' \in Senders /\ sender'.pc = "top" /\ sender'.seq = 0
    BY <2>1, SenderSteps
  <2> QED BY <2>1, <2>2 DEF PaceInv, SlotsKept
<1>3. CASE SenderCheck
  BY <1>3, CheckPace
<1>4. CASE SenderWrite
  BY <1>4, WritePace
<1>5. CASE SenderStop
  BY <1>5 DEF SenderStop, PaceInv, SlotsKept, Senders
<1>6. CASE SessionEnds \/ SendFinal
  BY <1>6, PaceKept DEF SessionEnds, SendFinal
<1>7. CASE StreamTick
  BY <1>7, TickPace
<1>8. CASE ClientStreamNext
  <2>1. UNCHANGED <<clock, sender>>
    BY <1>8 DEF ClientStreamNext, ReceiverStart, DrainPut, DrainExit, StatObserve,
       StatExit, RunTick, RunDone, RunClose, RunReturn, IngestReverseStream,
       BuildReport, ClientEnds, DrainRead, serverVars
  <2> QED BY <2>1, PaceKept
<1> QED
  BY <1>1, <1>2, <1>3, <1>4, <1>5, <1>6, <1>7, <1>8
  DEF Next, SendHello, Answer, Collision, ReadReady, PathNext, StreamNext,
      ServerStreamNext, vars

LEMMA PaceIsInvariant == Spec => []PaceInv
<1> QED BY InitPace, NextPace, PTL DEF Spec

\* The bits of a packet take less than one tick more than its interval.
LEMMA IntervalBounds ==
  ASSUME NEW b \in Nat, b = Bits * TicksPerSecond
  PROVE  b <= (Interval + 1) * StreamBPS
<1>1. StreamBPS \in Nat \ {0}
  BY StreamAssumption
<1>2. PICK q \in Int : q = b \div StreamBPS
  BY <1>1
<1>3. b <= (q + 1) * StreamBPS
  BY <1>1, <1>2
<1>4. Interval \in Nat /\ q <= Interval
  BY <1>2, IntervalPositive DEF Interval, PacketTicks
<1>5. (q + 1) * StreamBPS <= (Interval + 1) * StreamBPS
  BY <1>1, <1>4
<1> QED BY <1>1, <1>3, <1>4, <1>5

LEMMA Scaled ==
  ASSUME NEW m \in Nat, NEW b \in Nat, NEW i \in Nat, NEW r \in Nat, NEW e \in Int,
         b <= (i + 1) * r, e >= m * i
  PROVE  m * b <= (e + m) * r
<1>1. m * b <= m * ((i + 1) * r)
  OBVIOUS
<1>2. m * ((i + 1) * r) = (m * i + m) * r
  OBVIOUS
<1>3. (m * i + m) * r <= (e + m) * r
  OBVIOUS
<1> QED BY <1>1, <1>2, <1>3

LEMMA SlotsMeanPace == PaceInv => PaceHolds
<1> SUFFICES ASSUME PaceInv, sender.seq - 1 > 0 PROVE
      /\ (sender.seq - 1) * Bits * TicksPerSecond
           <= (clock - sender.t0 + (sender.seq - 1)) * StreamBPS
      /\ Duration > 0 => (sender.seq - 1 - 1) * Interval < Duration
  BY DEF PaceHolds
<1>1. PICK m \in Nat : m = sender.seq - 1
  BY DEF PaceInv, Senders
<1>2. PICK e \in Int : e = clock - sender.t0
  BY DEF PaceInv, Senders
<1>3. e >= m * Interval
  BY <1>1, <1>2 DEF PaceInv, SlotsKept, Senders
<1>4. PICK b \in Nat : b = Bits * TicksPerSecond
  BY StreamAssumption, ProductPositive DEF Bits
<1>5. Interval \in Nat /\ StreamBPS \in Nat /\ Bits \in Nat /\ TicksPerSecond \in Nat
  BY IntervalPositive, StreamAssumption DEF Bits
<1>6. m * b <= (e + m) * StreamBPS
  BY <1>3, <1>4, <1>5, IntervalBounds, Scaled
<1>7. m * Bits * TicksPerSecond = m * b
  BY <1>4, <1>5
<1>8. Duration > 0 => (sender.seq - 2) * Interval < Duration
  BY <1>1 DEF PaceInv, SlotsKept, Senders
<1>9. sender.seq - 1 - 1 = sender.seq - 2
  BY DEF PaceInv, Senders
<1> QED BY <1>1, <1>2, <1>6, <1>7, <1>8, <1>9

\* sender.go:110-157: for any rate, packet size and resolution of the clock, and
\* however late the sender's goroutine runs, it is never ahead of its rate by more
\* than what the rounding of the interval gives away, and no packet's slot lies a
\* whole interval past the duration.
THEOREM PaceKeeps == Spec => []PaceHolds
<1> QED BY SlotsMeanPace, PaceIsInvariant, PTL
-----------------------------------------------------------------------------
(* The packets of the reverse stream: the receiver loses count of none, and *)
(* the report adds up.  For any rate, ring, channel and network; the stream *)
(* has to stay within what the accumulator accepts, and for the report also *)
(* within its map of duplicates.                                            *)

\* The packets the duration has room for, with the one a late check lets out.
MaxPackets == Duration \div Interval + 2

\* The stream ends, no two of its packets are further apart than the accumulator
\* tolerates, and it takes their numbers.
NoneRefused ==
  Duration > 0 /\ MaxPackets <= MaxAcceptableGap /\ MaxPackets <= MaxInt64

\* The map of duplicates remembers them all.
MapHasRoom == MaxPackets <= MaxSeenEntries

-----------------------------------------------------------------------------
(* Sequences.                                                              *)

LEMMA AppendEffect ==
  ASSUME NEW q \in Seq(Nat), NEW s \in Nat
  PROVE  /\ Append(q, s) \in Seq(Nat)
         /\ Len(q) \in Nat
         /\ Len(Append(q, s)) = Len(q) + 1
         /\ ToSet(Append(q, s)) = ToSet(q) \cup {s}
<1>1. /\ Append(q, s) \in Seq(Nat) /\ Len(q) \in Nat
      /\ Len(Append(q, s)) = Len(q) + 1
  OBVIOUS
<1>2. DOMAIN q = 1 .. Len(q) /\ DOMAIN Append(q, s) = 1 .. Len(q) + 1
  BY <1>1
<1>3. /\ \A i \in 1 .. Len(q) : Append(q, s)[i] = q[i]
      /\ Append(q, s)[Len(q) + 1] = s
  OBVIOUS
<1>4. \A x \in ToSet(q) : x \in ToSet(Append(q, s))
  BY <1>1, <1>2, <1>3 DEF ToSet
<1>5. s \in ToSet(Append(q, s))
  BY <1>1, <1>2, <1>3 DEF ToSet
<1>6. \A x \in ToSet(Append(q, s)) : x = s \/ x \in ToSet(q)
  BY <1>1, <1>2, <1>3 DEF ToSet
<1> QED BY <1>1, <1>4, <1>5, <1>6

LEMMA HeadTailEffect ==
  ASSUME NEW q \in Seq(Nat), q # <<>>
  PROVE  /\ Head(q) \in Nat /\ Tail(q) \in Seq(Nat)
         /\ Len(Tail(q)) = Len(q) - 1 /\ Len(q) \in Nat \ {0}
         /\ Head(q) \in ToSet(q)
         /\ ToSet(Tail(q)) \subseteq ToSet(q)
<1>1. /\ Head(q) \in Nat /\ Tail(q) \in Seq(Nat) /\ Len(q) \in Nat \ {0}
      /\ Len(Tail(q)) = Len(q) - 1
  OBVIOUS
<1>2. Head(q) = q[1] /\ DOMAIN q = 1 .. Len(q) /\ DOMAIN Tail(q) = 1 .. Len(q) - 1
  BY <1>1
<1>3. \A i \in 1 .. Len(q) - 1 : Tail(q)[i] = q[i + 1]
  OBVIOUS
<1>4. Head(q) \in ToSet(q)
  BY <1>1, <1>2 DEF ToSet
<1>5. ToSet(Tail(q)) \subseteq ToSet(q)
  BY <1>1, <1>2, <1>3 DEF ToSet
<1> QED BY <1>1, <1>4, <1>5

-----------------------------------------------------------------------------
(* The accumulator, while nothing is refused.                              *)

(***************************************************************************)
(* The map of duplicates holds exactly what was counted as received, and   *)
(* every number below the horizon is received or lost.                     *)
(***************************************************************************)
Exact(a) ==
  /\ IsFiniteSet(a.seen) /\ Cardinality(a.seen) = a.recv
  /\ a.seen \subseteq 0 .. a.expectedSeq - 1
  /\ a.recv + a.lost = a.expectedSeq

\* What holds of any stream, and of one the map has room for.
Ledger(a) == a \in AccumulatorType /\ (MapHasRoom => Exact(a))

LEMMA NewLedger == Ledger(NewAccumulator)
BY FS_EmptySet, NewAccumulatorType DEF Ledger, Exact, NewAccumulator

LEMMA DropLedger ==
  ASSUME NEW a, Ledger(a)
  PROVE  LET f == LocalDropAdded(a, 1)
         IN  /\ Ledger(f) /\ f.seen = a.seen /\ f.expectedSeq = a.expectedSeq
             /\ f.recv = a.recv /\ f.duplicates = a.duplicates
             /\ f.localDrops = a.localDrops + 1
<1> DEFINE f == LocalDropAdded(a, 1)
<1>1. f \in AccumulatorType /\ f.recv = a.recv /\ f.duplicates = a.duplicates
      /\ f.localDrops = a.localDrops + 1
  BY LocalDropEffect DEF Ledger
<1>2. f.seen = a.seen /\ f.expectedSeq = a.expectedSeq /\ f.lost = a.lost
  BY DEF LocalDropAdded, Ledger, AccumulatorType
<1>3. Exact(a) => Exact(f)
  <2> HIDE DEF f
  <2> QED BY <1>1, <1>2 DEF Exact
<1> QED BY <1>1, <1>2, <1>3 DEF Ledger

\* A map that is not full takes the number in.
LEMMA RememberAll ==
  ASSUME NEW a \in AccumulatorType, Exact(a), NEW n \in Nat, a.expectedSeq <= n,
         n <= MaxSeenEntries, NEW s \in 0 .. n - 1, s \notin a.seen
  PROVE  /\ Remember(a.seen, s) = a.seen \cup {s}
         /\ IsFiniteSet(a.seen \cup {s})
         /\ Cardinality(a.seen \cup {s}) = a.recv + 1
         /\ s < a.expectedSeq => a.recv < a.expectedSeq
<1>1. /\ a.recv \in Nat /\ a.expectedSeq \in Nat /\ IsFiniteSet(a.seen)
      /\ Cardinality(a.seen) = a.recv
  BY CountersAreNumbers DEF Exact
<1>2. /\ IsFiniteSet(a.seen \cup {s})
      /\ Cardinality(a.seen \cup {s}) = a.recv + 1
  BY <1>1, FS_AddElement
<1>3. a.seen \cup {s} \subseteq 0 .. n - 1
  <2>1. \A x \in a.seen : x \in 0 .. a.expectedSeq - 1
    BY DEF Exact
  <2>2. \A x \in 0 .. a.expectedSeq - 1 : x \in 0 .. n - 1
    BY <1>1
  <2> QED BY <2>1, <2>2
<1>4. Cardinality(a.seen \cup {s}) <= n
  BY <1>3, HorizonSplit
<1>5. a.recv + 1 <= n
  BY <1>2, <1>4
<1>6. Remember(a.seen, s) = a.seen \cup {s}
  BY <1>1, <1>5, AccumulatorAssumption DEF Remember
<1>7. s < a.expectedSeq => a.recv < a.expectedSeq
  <2> SUFFICES ASSUME s < a.expectedSeq PROVE a.recv + 1 <= a.expectedSeq
    BY <1>1
  <2>1. a.seen \cup {s} \subseteq 0 .. a.expectedSeq - 1
    <3>1. a.seen \subseteq 0 .. a.expectedSeq - 1
      BY DEF Exact
    <3>2. s \in 0 .. a.expectedSeq - 1
      BY <1>1
    <3> QED BY <3>1, <3>2
  <2>2. Cardinality(a.seen \cup {s}) <= a.expectedSeq
    BY <1>1, <2>1, HorizonSplit
  <2> QED BY <1>2, <2>2
<1> QED BY <1>2, <1>6, <1>7

LEMMA ObserveExact ==
  ASSUME MapHasRoom, NEW n \in 0 .. MaxPackets, NEW a \in AccumulatorType,
         Exact(a), a.expectedSeq <= n, NEW s \in 0 .. n - 1, ~Refused(a, s)
  PROVE  Exact(Observed(a, s))
<1> DEFINE f == Observed(a, s)
<1>1. /\ a.recv \in Nat /\ a.lost \in Nat /\ a.expectedSeq \in Nat /\ a.duplicates \in Nat
      /\ s \in Nat /\ n \in Nat
  BY CountersAreNumbers
<1>2. n <= MaxSeenEntries
  <2>1. MaxPackets \in Int
    BY StreamAssumption, IntervalPositive DEF MaxPackets
  <2> QED BY <1>1, <2>1, AccumulatorAssumption DEF MapHasRoom
<1>4. CASE s \in a.seen
  <2>1. f = [a EXCEPT !.duplicates = @ + 1]
    BY <1>4 DEF Observed
  <2>2. f.recv = a.recv /\ f.lost = a.lost /\ f.expectedSeq = a.expectedSeq /\ f.seen = a.seen
    BY <1>1, <2>1 DEF AccumulatorType
  <2> QED BY <1>1, <2>2 DEF Exact
<1>5. CASE s \notin a.seen
  <2>1. /\ Remember(a.seen, s) = a.seen \cup {s} /\ IsFiniteSet(a.seen \cup {s})
        /\ Cardinality(a.seen \cup {s}) = a.recv + 1
        /\ s < a.expectedSeq => a.recv < a.expectedSeq
    BY <1>1, <1>2, <1>5, RememberAll
  <2>2. CASE s >= a.expectedSeq
    <3>1. f = ForwardArrival(a, s)
      BY <1>5, <2>2 DEF Observed
    <3>2. /\ f.recv = a.recv + 1 /\ f.lost = a.lost + (s - a.expectedSeq)
          /\ f.expectedSeq = s + 1 /\ f.seen = a.seen \cup {s}
      BY <1>1, <2>1, <3>1, ForwardArrivalEffect
    <3>3. f.seen \subseteq 0 .. f.expectedSeq - 1
      BY <1>1, <2>2, <3>2 DEF Exact
    <3>4. f.recv + f.lost = f.expectedSeq
      BY <1>1, <3>2 DEF Exact
    <3> QED BY <1>1, <2>1, <3>2, <3>3, <3>4 DEF Exact
  <2>3. CASE ~(s >= a.expectedSeq)
    <3>1. f = LateArrival(a, s)
      BY <1>5, <2>3 DEF Observed
    <3>2. /\ f.recv = a.recv + 1 /\ f.lost = IF a.lost > 0 THEN a.lost - 1 ELSE a.lost
          /\ f.expectedSeq = a.expectedSeq /\ f.seen = a.seen \cup {s}
      BY <1>1, <2>1, <3>1, LateArrivalEffect
    <3>3. a.lost > 0
      BY <1>1, <2>1, <2>3 DEF Exact
    <3>4. f.seen \subseteq 0 .. f.expectedSeq - 1
      BY <1>1, <2>3, <3>2 DEF Exact
    <3>5. f.recv + f.lost = f.expectedSeq
      BY <1>1, <3>2, <3>3 DEF Exact
    <3> QED BY <1>1, <2>1, <3>2, <3>4, <3>5 DEF Exact
  <2> QED BY <2>2, <2>3
<1> QED BY <1>4, <1>5

\* The number is counted once, wherever it goes.
LEMMA ObserveLedger ==
  ASSUME NoneRefused, NEW n \in 0 .. MaxPackets,
         NEW a, Ledger(a), a.expectedSeq <= n, NEW s \in 0 .. n - 1
  PROVE  LET f == Observed(a, s)
         IN  /\ Ledger(f) /\ f.seen \subseteq a.seen \cup {s}
             /\ f.expectedSeq <= n
             /\ f.recv + f.duplicates = a.recv + a.duplicates + 1
             /\ f.localDrops = a.localDrops
<1> DEFINE f == Observed(a, s)
<1>1. /\ a.expectedSeq \in Nat /\ a \in AccumulatorType /\ s \in Nat /\ n \in Nat
  BY CountersAreNumbers DEF Ledger
<1>2. ~Refused(a, s)
  <2>1. MaxPackets \in Int
    BY StreamAssumption, IntervalPositive DEF MaxPackets
  <2> QED BY <1>1, <2>1, AccumulatorAssumption DEF NoneRefused, Refused
<1>3. /\ f \in AccumulatorType
      /\ f.recv + f.duplicates = a.recv + a.duplicates + 1
      /\ f.localDrops = a.localDrops
  BY <1>1, <1>2, ObservedEffect
<1>4. f.seen \subseteq a.seen \cup {s} /\ f.expectedSeq <= n
  <2>1. CASE s \in a.seen
    <3>1. f = [a EXCEPT !.duplicates = @ + 1]
      BY <1>2, <2>1 DEF Observed
    <3>2. f.expectedSeq = a.expectedSeq /\ f.seen = a.seen
      BY <1>1, <3>1 DEF AccumulatorType
    <3> QED BY <3>2
  <2>2. CASE s \notin a.seen /\ s >= a.expectedSeq
    <3>1. f = ForwardArrival(a, s)
      BY <1>2, <2>2 DEF Observed
    <3>2. f.expectedSeq = s + 1 /\ f.seen = Remember(a.seen, s)
      BY <1>1, <3>1, ForwardArrivalEffect
    <3> QED BY <1>1, <3>2 DEF Remember
  <2>3. CASE s \notin a.seen /\ ~(s >= a.expectedSeq)
    <3>1. f = LateArrival(a, s)
      BY <1>2, <2>3 DEF Observed
    <3>2. f.expectedSeq = a.expectedSeq /\ f.seen = Remember(a.seen, s)
      BY <1>1, <3>1, LateArrivalEffect
    <3> QED BY <3>2 DEF Remember
  <2> QED BY <2>1, <2>2, <2>3
<1>5. MapHasRoom => Exact(f)
  <2>1. ASSUME MapHasRoom PROVE Exact(Observed(a, s))
    BY <1>1, <1>2, <2>1, ObserveExact DEF Ledger
  <2> QED BY <2>1
<1> QED BY <1>3, <1>4, <1>5 DEF Ledger

-----------------------------------------------------------------------------
(* The invariant.                                                          *)

Sent == 0 .. sender.seq - 1

Arrived == ToSet(arrived)

InHand == IF drainer.pc = "holding" THEN 1 ELSE 0

\* Run joins the drainer before it closes the channel and stat after; stat leaves
\* only an empty channel behind.
ShapeInv ==
  /\ drainer \in [pc : {"off", "reading", "holding", "gone"}, seq : Nat]
  /\ ring \in [ch : Seq(Nat), closed : BOOLEAN]
  /\ run = "off" => drainer.pc = "off"
  /\ run \in {"closing", "returned"} => drainer.pc = "gone"
  /\ ring.closed => run \in {"closing", "returned"}
  /\ stat = "gone" => ring.ch = <<>> /\ ring.closed
  /\ run = "returned" => stat = "gone"
  /\ sentOnClosed = FALSE

\* Every packet is counted, in the ring or in the drainer's hands.
CountInv ==
  Len(arrived) = acc.recv + acc.duplicates + acc.localDrops + Len(ring.ch) + InHand

\* What is on its way was sent, what the receiver has had arrived.
OriginInv ==
  /\ arrived \in Seq(Nat)
  /\ streamWire \subseteq Sent /\ Arrived \subseteq Sent
  /\ ToSet(ring.ch) \subseteq Arrived
  /\ drainer.pc = "holding" => drainer.seq \in Arrived
  /\ Ledger(acc) /\ acc.seen \subseteq Arrived /\ acc.expectedSeq <= sender.seq

\* With room in the map, a snapshot claims no packet that did not arrive and
\* loses none not sent.
SoundViews ==
  {v \in [recv : Nat, lost : Nat] : MapHasRoom =>
     v.recv <= Cardinality(Arrived) /\ v.recv + v.lost <= sender.seq}

SoundReport(r) ==
  /\ r.sent \in Nat /\ r.recv \in Nat /\ r.lost \in Nat
  /\ MapHasRoom => r.recv + r.lost = r.sent /\ r.recv <= Cardinality(Arrived)

ViewInv ==
  /\ reverseSnaps \in Seq(SoundViews) /\ lastReverse \in SoundViews
  /\ finalSent # Nobody => finalSent = sender.seq /\ sender.pc \in {"off", "gone"}
  /\ report = <<>> \/ \E r : report = <<r>> /\ SoundReport(r)

StreamInv == ShapeInv /\ CountInv /\ OriginInv /\ ViewInv

-----------------------------------------------------------------------------
(* What holds of any step.                                                 *)

LEMMA QuotientBounds ==
  ASSUME NEW m \in Nat, NEW u \in Nat \ {0}, NEW a \in Nat, m * u < a
  PROVE  m <= a \div u
OBVIOUS

\* sender.go: the duration bounds the number of packets.
LEMMA FewPackets == PaceInv /\ Duration > 0 => sender.seq \in 0 .. MaxPackets
<1> SUFFICES ASSUME PaceInv, Duration > 0 PROVE sender.seq \in 0 .. MaxPackets
  OBVIOUS
<1>1. sender.seq \in Nat /\ Duration \in Nat /\ Interval \in Nat \ {0}
  BY StreamAssumption, IntervalPositive DEF PaceInv, Senders
<1>2. PICK d \in Nat : d = Duration \div Interval
  BY <1>1
<1>3. CASE sender.seq <= 1
  BY <1>1, <1>2, <1>3 DEF MaxPackets
<1>4. CASE sender.seq > 1
  <2>1. PICK m \in Nat : sender.seq = m + 2
    BY <1>1, <1>4
  <2>2. sender.seq - 2 = m
    BY <2>1
  <2>3. m * Interval < Duration
    BY <1>4, <2>2 DEF PaceInv, SlotsKept
  <2>4. m <= d
    BY <1>1, <1>2, <2>3, QuotientBounds
  <2> QED BY <1>2, <2>1, <2>4 DEF MaxPackets
<1> QED BY <1>1, <1>3, <1>4

\* Views stay sound while more is sent and more arrives.
LEMMA ViewsStaySound ==
  ASSUME PaceInv, PaceInv', OriginInv, OriginInv',
         sender.seq <= sender'.seq, Arrived \subseteq Arrived'
  PROVE  /\ SoundViews \subseteq SoundViews'
         /\ \A r : SoundReport(r) => SoundReport(r)'
<1>1. sender.seq \in Nat /\ sender'.seq \in Nat
  BY DEF PaceInv, Senders
<1>2. /\ IsFiniteSet(Arrived) /\ Cardinality(Arrived) \in Nat
      /\ IsFiniteSet(Arrived') /\ Cardinality(Arrived') \in Nat
  <2>1. Arrived \subseteq 0 .. sender.seq - 1 /\ Arrived' \subseteq 0 .. sender'.seq - 1
    BY DEF OriginInv, Sent
  <2> HIDE DEF Arrived
  <2> QED BY <1>1, <2>1, HorizonSplit
<1>3. Cardinality(Arrived) <= Cardinality(Arrived')
  BY <1>2, FS_Subset
<1>4. ASSUME NEW v \in SoundViews PROVE v \in SoundViews'
  BY <1>2, <1>3, <1>1, <1>4 DEF SoundViews
<1>5. ASSUME NEW r, SoundReport(r) PROVE SoundReport(r)'
  BY <1>2, <1>3, <1>5 DEF SoundReport
<1> QED BY <1>4, <1>5

LEMMA ViewsKept ==
  ASSUME PaceInv, PaceInv', OriginInv, OriginInv', ViewInv,
         sender.seq <= sender'.seq, Arrived \subseteq Arrived',
         finalSent # Nobody => sender' = sender,
         UNCHANGED <<finalSent, reverseSnaps, lastReverse, report>>
  PROVE  ViewInv'
<1>1. /\ SoundViews \subseteq SoundViews'
      /\ \A r : SoundReport(r) => SoundReport(r)'
  BY ViewsStaySound
<1>2. reverseSnaps' \in Seq(SoundViews') /\ lastReverse' \in SoundViews'
  <2>1. reverseSnaps \in Seq(SoundViews) /\ lastReverse \in SoundViews
    BY DEF ViewInv
  <2> QED BY <1>1, <2>1, SeqMonotonic
<1>3. report' = <<>> \/ \E r : report' = <<r>> /\ SoundReport(r)'
  BY <1>1 DEF ViewInv
<1>4. finalSent' # Nobody => finalSent' = sender'.seq /\ sender'.pc \in {"off", "gone"}
  BY DEF ViewInv
<1> QED BY <1>2, <1>3, <1>4 DEF ViewInv

-----------------------------------------------------------------------------
(* The steps.                                                              *)

LEMMA InitStream == Init => StreamInv
<1> SUFFICES ASSUME StreamInit PROVE StreamInv
  BY DEF Init
<1>1. ShapeInv
  BY DEF StreamInit, ShapeInv
<1>2. CountInv
  BY DEF StreamInit, CountInv, InHand, NewAccumulator
<1>3. OriginInv
  <2>1. acc = NewAccumulator /\ Ledger(acc) /\ acc.seen = {} /\ acc.expectedSeq = 0
    BY NewLedger DEF StreamInit, NewAccumulator
  <2>2. /\ arrived = <<>> /\ ring.ch = <<>> /\ streamWire = {} /\ sender.seq = 0
        /\ drainer.pc = "off"
    BY DEF StreamInit
  <2>3. Arrived = {} /\ ToSet(ring.ch) = {}
    BY <2>2 DEF Arrived, ToSet
  <2> QED BY <2>1, <2>2, <2>3 DEF OriginInv
<1>4. ViewInv
  <2>1. arrived = <<>> /\ sender.seq = 0
    BY DEF StreamInit
  <2>2. Arrived = {}
    BY <2>1 DEF Arrived, ToSet
  <2>3. NoView \in SoundViews
    BY <2>1, <2>2, FS_EmptySet DEF SoundViews, NoView
  <2>4. reverseSnaps = <<>> /\ lastReverse = NoView /\ report = <<>> /\ finalSent = Nobody
    BY DEF StreamInit
  <2> QED BY <2>3, <2>4 DEF ViewInv
<1> QED BY <1>1, <1>2, <1>3, <1>4 DEF StreamInv

\* A step that touches neither packets, receiver nor views.
LEMMA StreamKept ==
  ASSUME StreamInv, UNCHANGED <<receiverVars, streamWire, reverseSnaps, lastReverse, report>>,
         sender'.seq = sender.seq,
         UNCHANGED finalSent, finalSent # Nobody => sender'.pc \in {"off", "gone"}
  PROVE  StreamInv'
<1> USE DEF receiverVars
<1>1. ShapeInv' /\ CountInv'
  BY DEF StreamInv, ShapeInv, CountInv, InHand
<1>2. Arrived' = Arrived /\ Sent' = Sent
  BY DEF Arrived, Sent
<1>3. OriginInv'
  BY <1>2 DEF StreamInv, OriginInv, Ledger
<1>4. SoundViews' = SoundViews /\ \A r : SoundReport(r) => SoundReport(r)'
  BY <1>2 DEF SoundViews, SoundReport
<1>5. ViewInv'
  BY <1>4 DEF StreamInv, ViewInv
<1> QED BY <1>1, <1>3, <1>5 DEF StreamInv

\* The server's steps.
LEMMA ServerStep ==
  ASSUME PaceInv, PaceInv', StreamInv, ServerStreamNext
  PROVE  StreamInv'
<1>1. CASE SenderStart
  BY <1>1, StreamKept DEF SenderStart, clientVars, PaceInv, Senders
<1>2. CASE SenderCheck \/ SenderStop
  <2>1. finalSent = Nobody
    BY <1>2 DEF SenderCheck, SenderStop, StreamInv, ViewInv
  <2> QED BY <1>2, <2>1, StreamKept DEF SenderCheck, SenderStop, clientVars, PaceInv, Senders
<1>3. CASE SenderWrite
  <2>1. PICK n \in Nat : sender.seq = n
    BY DEF PaceInv, Senders
  <2>2. /\ sender.pc = "pacing" /\ sender'.seq = n + 1
        /\ streamWire' = streamWire \cup {n}
        /\ UNCHANGED <<finalSent, drainer, ring, stat, run, acc, arrived, sentOnClosed,
                       reverseSnaps, lastReverse, report>>
    BY <1>3, <2>1 DEF SenderWrite, receiverVars, clientVars, PaceInv, Senders
  <2>3. ShapeInv' /\ CountInv'
    BY <2>2 DEF StreamInv, ShapeInv, CountInv, InHand
  <2>4. Arrived' = Arrived /\ Sent \subseteq Sent' /\ n \in Sent'
    BY <2>1, <2>2 DEF Arrived, Sent
  <2>5. OriginInv'
    <3>1. acc.expectedSeq \in Nat /\ acc.expectedSeq <= n
      BY <2>1, CountersAreNumbers DEF StreamInv, OriginInv, Ledger
    <3>2. acc'.expectedSeq <= sender'.seq
      BY <2>2, <3>1
    <3>3. Ledger(acc)' /\ acc'.seen \subseteq Arrived'
      BY <2>2, <2>4 DEF StreamInv, OriginInv, Ledger
    <3>4. streamWire' \subseteq Sent' /\ Arrived' \subseteq Sent'
      BY <2>2, <2>4 DEF StreamInv, OriginInv
    <3> QED BY <2>2, <2>4, <3>2, <3>3, <3>4 DEF StreamInv, OriginInv
  <2>6. finalSent = Nobody
    BY <2>2 DEF StreamInv, ViewInv
  <2>7. ViewInv'
    <3>1. sender.seq <= sender'.seq
      BY <2>1, <2>2
    <3> QED BY <2>2, <2>4, <2>5, <2>6, <3>1, ViewsKept DEF StreamInv
  <2> QED BY <2>3, <2>5, <2>7 DEF StreamInv
<1>4. CASE SessionEnds
  BY <1>4, StreamKept DEF SessionEnds, clientVars, StreamInv, ViewInv
<1>5. CASE SendFinal
  <2>1. /\ sender.pc \in {"off", "gone"} /\ finalSent' = sender.seq
        /\ UNCHANGED <<sender, streamWire, receiverVars, reverseSnaps, lastReverse, report>>
    BY <1>5 DEF SendFinal, SenderJoined, clientVars, PaceInv
  <2>2. ShapeInv' /\ CountInv' /\ OriginInv'
    BY <2>1 DEF StreamInv, ShapeInv, CountInv, InHand, OriginInv, Arrived, Sent, Ledger,
       receiverVars
  <2>3. SoundViews' = SoundViews /\ \A r : SoundReport(r) => SoundReport(r)'
    BY <2>1 DEF SoundViews, SoundReport, Arrived, receiverVars
  <2>4. ViewInv'
    BY <2>1, <2>3 DEF StreamInv, ViewInv
  <2> QED BY <2>2, <2>4 DEF StreamInv
<1> QED BY <1>1, <1>2, <1>3, <1>4, <1>5 DEF ServerStreamNext

\* The receiver's steps leave the sender and the views alone.
LEMMA ReceiverKeepsViews ==
  ASSUME PaceInv, PaceInv', StreamInv, OriginInv', Arrived \subseteq Arrived',
         UNCHANGED <<sender, finalSent, reverseSnaps, lastReverse, report>>
  PROVE  ViewInv'
<1>1. sender.seq <= sender'.seq
  BY DEF PaceInv, Senders
<1> QED BY <1>1, ViewsKept DEF StreamInv

LEMMA ReadStep ==
  ASSUME PaceInv, PaceInv', StreamInv, NEW s \in streamWire, DrainRead(s)
  PROVE  StreamInv'
<1>1. /\ drainer.pc = "reading" /\ drainer' = [pc |-> "holding", seq |-> s]
      /\ arrived' = Append(arrived, s) /\ s \in Nat
      /\ UNCHANGED <<sender, finalSent, streamWire, ring, stat, run, acc, sentOnClosed,
                     reverseSnaps, lastReverse, report>>
  BY DEF DrainRead, serverVars, clientVars, StreamInv, OriginInv, Sent
<1>2. /\ arrived' \in Seq(Nat) /\ Len(arrived') = Len(arrived) + 1
      /\ Arrived' = Arrived \cup {s} /\ Len(arrived) \in Nat
  BY <1>1, AppendEffect DEF StreamInv, OriginInv, Arrived
<1>3. ShapeInv'
  BY <1>1 DEF StreamInv, ShapeInv
<1>4. CountInv'
  <2>1. /\ acc.recv \in Nat /\ acc.duplicates \in Nat /\ acc.localDrops \in Nat
        /\ Len(ring.ch) \in Nat
    BY CountersAreNumbers DEF StreamInv, ShapeInv, OriginInv, Ledger
  <2>2. InHand = 0 /\ InHand' = 1
    BY <1>1 DEF InHand
  <2> QED BY <1>1, <1>2, <2>1, <2>2 DEF StreamInv, CountInv
<1>5. OriginInv'
  <2>1. Sent' = Sent
    BY <1>1 DEF Sent
  <2> QED BY <1>1, <1>2, <2>1 DEF StreamInv, OriginInv, Ledger
<1>6. ViewInv'
  BY <1>1, <1>2, <1>5, ReceiverKeepsViews
<1> QED BY <1>3, <1>4, <1>5, <1>6 DEF StreamInv

LEMMA PutStep ==
  ASSUME PaceInv, PaceInv', StreamInv, DrainPut
  PROVE  StreamInv'
<1>1. /\ drainer.pc = "holding" /\ drainer' = [drainer EXCEPT !.pc = "reading"]
      /\ UNCHANGED <<sender, finalSent, streamWire, stat, run, arrived,
                     reverseSnaps, lastReverse, report>>
      /\ sentOnClosed' = (sentOnClosed \/ ring.closed)
  BY DEF DrainPut, serverVars, clientVars
<1>2. ~ring.closed /\ stat # "gone" /\ run \notin {"off", "closing", "returned"}
  BY <1>1 DEF StreamInv, ShapeInv
<1>3. Arrived' = Arrived /\ Sent' = Sent
  BY <1>1 DEF Arrived, Sent
<1>4. /\ acc.recv \in Nat /\ acc.duplicates \in Nat /\ acc.localDrops \in Nat
      /\ Len(ring.ch) \in Nat /\ ring.ch \in Seq(Nat) /\ drainer.seq \in Nat
      /\ ring \in [ch : Seq(Nat), closed : BOOLEAN]
      /\ drainer \in [pc : {"off", "reading", "holding", "gone"}, seq : Nat]
  BY CountersAreNumbers DEF StreamInv, ShapeInv, OriginInv, Ledger
<1>5. InHand = 1 /\ InHand' = 0 /\ drainer'.pc = "reading"
      /\ drainer' \in [pc : {"off", "reading", "holding", "gone"}, seq : Nat]
  BY <1>1, <1>4 DEF InHand
<1>6. CASE ring' = [ring EXCEPT !.ch = Append(@, drainer.seq)] /\ acc' = acc
  <2>1. PICK q \in Seq(Nat) : q = Append(ring.ch, drainer.seq)
    BY <1>4, AppendEffect
  <2>2. Len(q) = Len(ring.ch) + 1 /\ ToSet(q) = ToSet(ring.ch) \cup {drainer.seq}
    BY <1>4, <2>1, AppendEffect
  <2>3. ring'.ch = q /\ ring'.closed = ring.closed
        /\ ring' \in [ch : Seq(Nat), closed : BOOLEAN]
    BY <1>4, <1>6, <2>1
  <2>4. ShapeInv'
    BY <1>1, <1>2, <1>5, <2>3 DEF StreamInv, ShapeInv
  <2>5. CountInv'
    BY <1>1, <1>4, <1>5, <1>6, <2>2, <2>3 DEF StreamInv, CountInv
  <2>6. OriginInv'
    <3>1. ToSet(ring'.ch) \subseteq Arrived'
      BY <1>1, <1>3, <2>2, <2>3 DEF StreamInv, OriginInv
    <3> QED BY <1>1, <1>3, <1>5, <1>6, <3>1 DEF StreamInv, OriginInv, Ledger
  <2>7. ViewInv'
    BY <1>1, <1>3, <2>6, ReceiverKeepsViews
  <2> QED BY <2>4, <2>5, <2>6, <2>7 DEF StreamInv
<1>7. CASE acc' = LocalDropAdded(acc, 1) /\ ring' = ring
  <2>1. /\ Ledger(acc') /\ acc'.seen = acc.seen /\ acc'.expectedSeq = acc.expectedSeq
        /\ acc'.recv = acc.recv /\ acc'.duplicates = acc.duplicates
        /\ acc'.localDrops = acc.localDrops + 1
    BY <1>7, DropLedger DEF StreamInv, OriginInv
  <2>2. ShapeInv'
    BY <1>1, <1>2, <1>5, <1>7 DEF StreamInv, ShapeInv
  <2>3. CountInv'
    BY <1>1, <1>4, <1>5, <1>7, <2>1 DEF StreamInv, CountInv
  <2>4. OriginInv'
    <3>1. Ledger(acc)'
      BY <2>1 DEF Ledger
    <3> QED BY <1>1, <1>3, <1>5, <1>7, <2>1, <3>1 DEF StreamInv, OriginInv
  <2>5. ViewInv'
    BY <1>1, <1>3, <2>4, ReceiverKeepsViews
  <2> QED BY <2>2, <2>3, <2>4, <2>5 DEF StreamInv
<1> QED BY <1>6, <1>7 DEF DrainPut

LEMMA ObserveStep ==
  ASSUME NoneRefused, PaceInv, PaceInv', StreamInv, StatObserve
  PROVE  StreamInv'
<1>1. /\ ring.ch # <<>> /\ stat = "running" /\ acc' = Observed(acc, Head(ring.ch))
      /\ ring' = [ring EXCEPT !.ch = Tail(@)]
      /\ UNCHANGED <<sender, finalSent, streamWire, drainer, stat, run, arrived,
                     sentOnClosed, reverseSnaps, lastReverse, report>>
  BY DEF StatObserve, serverVars, clientVars
<1>2. /\ ring.ch \in Seq(Nat) /\ ring \in [ch : Seq(Nat), closed : BOOLEAN]
      /\ acc.recv \in Nat /\ acc.duplicates \in Nat /\ acc.localDrops \in Nat
      /\ Ledger(acc) /\ acc.expectedSeq <= sender.seq
  BY CountersAreNumbers DEF StreamInv, ShapeInv, OriginInv, Ledger
<1>3. PICK s \in Nat : s = Head(ring.ch)
  BY <1>1, <1>2, HeadTailEffect
<1>4. PICK q \in Seq(Nat) : q = Tail(ring.ch)
  BY <1>1, <1>2, HeadTailEffect
<1>5. /\ Len(q) = Len(ring.ch) - 1 /\ Len(ring.ch) \in Nat
      /\ s \in ToSet(ring.ch) /\ ToSet(q) \subseteq ToSet(ring.ch)
  BY <1>1, <1>2, <1>3, <1>4, HeadTailEffect
<1>6. ring'.ch = q /\ ring'.closed = ring.closed
      /\ ring' \in [ch : Seq(Nat), closed : BOOLEAN]
  BY <1>1, <1>2, <1>4
<1>7. Arrived' = Arrived /\ Sent' = Sent /\ InHand' = InHand /\ InHand \in Nat
  BY <1>1 DEF Arrived, Sent, InHand
<1>8. s \in Arrived /\ s \in 0 .. sender.seq - 1
  BY <1>5 DEF StreamInv, OriginInv, Sent
<1>9. /\ Ledger(acc') /\ acc'.seen \subseteq acc.seen \cup {s}
      /\ acc'.expectedSeq <= sender.seq
      /\ acc'.recv + acc'.duplicates = acc.recv + acc.duplicates + 1
      /\ acc'.localDrops = acc.localDrops
  <2>1. sender.seq \in 0 .. MaxPackets
    BY FewPackets DEF NoneRefused
  <2>2. acc' = Observed(acc, s)
    BY <1>1, <1>3
  <2> HIDE DEF PaceInv
  <2> QED BY <1>2, <1>8, <2>1, <2>2, ObserveLedger
<1>10. acc'.recv \in Nat /\ acc'.duplicates \in Nat
  BY <1>9, CountersAreNumbers DEF Ledger
<1>11. ShapeInv'
  BY <1>1, <1>6 DEF StreamInv, ShapeInv
<1>12. CountInv'
  <2>1. Len(arrived) = acc.recv + acc.duplicates + acc.localDrops + Len(ring.ch) + InHand
    BY DEF StreamInv, CountInv
  <2>2. arrived' = arrived
    BY <1>1
  <2>3. PICK c, d, e, h \in Nat : /\ c = acc.recv + acc.duplicates
                                  /\ d = acc.localDrops /\ e = Len(ring.ch) /\ h = InHand
    BY <1>2, <1>5, <1>7
  <2>4. /\ acc'.recv + acc'.duplicates = c + 1 /\ acc'.localDrops = d
        /\ Len(ring'.ch) = e - 1
    BY <1>5, <1>6, <1>9, <2>3
  <2>5. InHand' = h /\ Len(arrived') = c + d + e + h
    BY <1>7, <2>1, <2>2, <2>3
  <2> QED BY <1>10, <2>4, <2>5 DEF CountInv
<1>13. OriginInv'
  <2>1. Ledger(acc)' /\ acc'.seen \subseteq Arrived'
    BY <1>7, <1>8, <1>9 DEF StreamInv, OriginInv, Ledger
  <2>2. ToSet(ring'.ch) \subseteq Arrived'
    BY <1>5, <1>6, <1>7 DEF StreamInv, OriginInv
  <2> QED BY <1>1, <1>7, <1>9, <2>1, <2>2 DEF StreamInv, OriginInv
<1>14. ViewInv'
  BY <1>1, <1>7, <1>13, ReceiverKeepsViews
<1> QED BY <1>11, <1>12, <1>13, <1>14 DEF StreamInv

\* Starting, joining, closing and leaving: the packets stay where they are, and
\* the order of Run keeps the shape.
LEMMA PhaseStep ==
  ASSUME PaceInv, PaceInv', StreamInv,
         ReceiverStart \/ DrainExit \/ StatExit \/ RunDone \/ RunClose \/ RunReturn
  PROVE  StreamInv'
<1>1. /\ UNCHANGED <<sender, finalSent, streamWire, acc, arrived, sentOnClosed,
                     reverseSnaps, lastReverse, report>>
      /\ ring'.ch = ring.ch
  BY DEF ReceiverStart, DrainExit, StatExit, RunDone, RunClose, RunReturn, serverVars,
     clientVars, StreamInv, ShapeInv
<1>2. InHand' = InHand /\ (drainer'.pc # "holding" \/ drainer' = drainer)
  BY DEF ReceiverStart, DrainExit, StatExit, RunDone, RunClose, RunReturn, StreamInv,
     ShapeInv, InHand
<1>3. Arrived' = Arrived /\ Sent' = Sent /\ InHand' = InHand
  BY <1>1, <1>2 DEF Arrived, Sent, InHand
<1>4. CountInv'
  BY <1>1, <1>3 DEF StreamInv, CountInv
<1>5. OriginInv'
  BY <1>1, <1>2, <1>3 DEF StreamInv, OriginInv, Ledger
<1>6. ViewInv'
  BY <1>1, <1>3, <1>5, ReceiverKeepsViews
<1>7. ShapeInv'
  <2>1. CASE ReceiverStart
    BY <1>1, <2>1 DEF ReceiverStart, StreamInv, ShapeInv
  <2>2. CASE DrainExit
    BY <1>1, <2>2 DEF DrainExit, StreamInv, ShapeInv
  <2>3. CASE StatExit
    BY <1>1, <2>3 DEF StatExit, StreamInv, ShapeInv
  <2>4. CASE RunDone
    BY <1>1, <2>4 DEF RunDone, StreamInv, ShapeInv
  <2>5. CASE RunClose
    BY <1>1, <2>5 DEF RunClose, DrainerJoined, StreamInv, ShapeInv
  <2>6. CASE RunReturn
    BY <1>1, <2>6 DEF RunReturn, StreamInv, ShapeInv
  <2> QED BY <2>1, <2>2, <2>3, <2>4, <2>5, <2>6
<1> QED BY <1>4, <1>5, <1>6, <1>7 DEF StreamInv

\* Snapshots move on, and the report is made of the last.
LEMMA ViewStep ==
  ASSUME PaceInv, StreamInv,
         RunTick \/ IngestReverseStream \/ BuildReport \/ ClientEnds
  PROVE  StreamInv'
<1>1. UNCHANGED <<sender, finalSent, streamWire, drainer, ring, stat, run, acc, arrived,
                  sentOnClosed>>
  BY DEF RunTick, IngestReverseStream, BuildReport, ClientEnds, serverVars, receiverVars
<1>2. ShapeInv' /\ CountInv' /\ OriginInv'
  BY <1>1 DEF StreamInv, ShapeInv, CountInv, InHand, OriginInv, Arrived, Sent, Ledger
<1>3. SoundViews' = SoundViews /\ \A r : SoundReport(r) => SoundReport(r)'
  BY <1>1 DEF SoundViews, SoundReport, Arrived
<1>4. /\ reverseSnaps \in Seq(SoundViews) /\ lastReverse \in SoundViews
      /\ finalSent' # Nobody => finalSent' = sender'.seq /\ sender'.pc \in {"off", "gone"}
      /\ report = <<>> \/ \E r : report = <<r>> /\ SoundReport(r)
  BY <1>1 DEF StreamInv, ViewInv
<1>5. CASE RunTick
  <2>1. [recv |-> acc.recv, lost |-> acc.lost] \in SoundViews
    <3>1. /\ acc.recv \in Nat /\ acc.lost \in Nat /\ acc.expectedSeq \in Nat
          /\ sender.seq \in Nat
      BY CountersAreNumbers DEF StreamInv, OriginInv, Ledger, PaceInv, Senders
    <3>2. ASSUME MapHasRoom
          PROVE  acc.recv <= Cardinality(Arrived) /\ acc.recv + acc.lost <= sender.seq
      <4>1. Exact(acc) /\ acc.expectedSeq <= sender.seq
        BY <3>2 DEF StreamInv, OriginInv, Ledger
      <4>2. acc.recv + acc.lost <= sender.seq
        BY <3>1, <4>1 DEF Exact
      <4>3. /\ IsFiniteSet(Arrived) /\ acc.seen \in SUBSET Arrived
            /\ Cardinality(acc.seen) = acc.recv
        <5>1. Arrived \subseteq 0 .. sender.seq - 1
          BY DEF StreamInv, OriginInv, Sent
        <5> HIDE DEF Arrived
        <5> QED BY <3>1, <4>1, <5>1, HorizonSplit DEF StreamInv, OriginInv, Exact
      <4>4. acc.recv <= Cardinality(Arrived)
        <5> HIDE DEF Arrived
        <5> QED BY <4>3, FS_Subset
      <4> QED BY <4>2, <4>4
    <3> QED BY <3>1, <3>2 DEF SoundViews
  <2>2. /\ reverseSnaps' = Append(reverseSnaps, [recv |-> acc.recv, lost |-> acc.lost])
        /\ UNCHANGED <<lastReverse, report>>
    BY <1>5 DEF RunTick
  <2>3. reverseSnaps' \in Seq(SoundViews)
    BY <1>4, <2>1, <2>2
  <2> QED BY <1>2, <1>3, <1>4, <2>2, <2>3 DEF StreamInv, ViewInv
<1>6. CASE IngestReverseStream
  <2>1. /\ reverseSnaps # <<>> /\ lastReverse' = Head(reverseSnaps)
        /\ reverseSnaps' = Tail(reverseSnaps) /\ report' = report
    BY <1>6 DEF IngestReverseStream
  <2>2. Head(reverseSnaps) \in SoundViews /\ Tail(reverseSnaps) \in Seq(SoundViews)
    BY <1>4, <2>1
  <2> QED BY <1>2, <1>3, <1>4, <2>1, <2>2 DEF StreamInv, ViewInv
<1>7. CASE BuildReport
  <2> DEFINE r == [sent |-> finalSent, recv |-> lastReverse.recv,
                   lost |-> EffectiveLoss(finalSent, lastReverse)]
  <2>1. /\ report' = <<r>> /\ finalSent # Nobody
        /\ UNCHANGED <<reverseSnaps, lastReverse>>
    BY <1>7 DEF BuildReport
  <2>2. /\ finalSent = sender.seq /\ sender.seq \in Nat
        /\ lastReverse.recv \in Nat /\ lastReverse.lost \in Nat
        /\ MapHasRoom => /\ lastReverse.recv + lastReverse.lost <= finalSent
                         /\ lastReverse.recv <= Cardinality(Arrived)
    BY <1>1, <1>4, <2>1 DEF SoundViews, PaceInv, Senders
  <2>3. /\ EffectiveLoss(finalSent, lastReverse) \in Nat
        /\ MapHasRoom =>
             EffectiveLoss(finalSent, lastReverse) = finalSent - lastReverse.recv
    BY <2>2 DEF EffectiveLoss
  <2>4. SoundReport(r)
    BY <2>2, <2>3 DEF SoundReport
  <2>5. SoundReport(r)'
    BY <1>1, <2>1, <2>4 DEF SoundReport, Arrived
  <2>6. report' = <<>> \/ \E q : report' = <<q>> /\ SoundReport(q)'
    BY <1>3, <2>1, <2>4
  <2> QED BY <1>2, <1>3, <1>4, <2>1, <2>6 DEF StreamInv, ViewInv
<1>8. CASE ClientEnds
  <2>1. UNCHANGED <<reverseSnaps, lastReverse, report>>
    BY <1>8 DEF ClientEnds
  <2> QED BY <1>2, <1>3, <1>4, <2>1 DEF StreamInv, ViewInv
<1> QED BY <1>5, <1>6, <1>7, <1>8

LEMMA NextStream ==
  ASSUME NoneRefused
  PROVE  PaceInv /\ PaceInv' /\ StreamInv /\ [Next]_vars => StreamInv'
<1> SUFFICES ASSUME PaceInv, PaceInv', StreamInv, [Next]_vars PROVE StreamInv'
  OBVIOUS
<1>1. CASE UNCHANGED streamVars
  BY <1>1, StreamKept DEF streamVars, receiverVars, StreamInv, ViewInv
<1>2. CASE ServerStreamNext
  BY <1>2, ServerStep
<1>3. CASE StreamTick
  BY <1>3, StreamKept DEF StreamTick, serverVars, clientVars, StreamInv, ViewInv
<1>4. CASE ClientStreamNext
  <2>1. CASE DrainPut
    BY <2>1, PutStep
  <2>2. CASE StatObserve
    BY <2>2, ObserveStep
  <2>3. CASE \E s \in streamWire : DrainRead(s)
    BY <2>3, ReadStep
  <2>4. CASE ReceiverStart \/ DrainExit \/ StatExit \/ RunDone \/ RunClose \/ RunReturn
    BY <2>4, PhaseStep
  <2>5. CASE RunTick \/ IngestReverseStream \/ BuildReport \/ ClientEnds
    BY <2>5, ViewStep
  <2> QED BY <1>4, <2>1, <2>2, <2>3, <2>4, <2>5 DEF ClientStreamNext
<1> QED
  BY <1>1, <1>2, <1>3, <1>4
  DEF Next, SendHello, Answer, Collision, ReadReady, PathNext, StreamNext, vars

LEMMA StreamIsInvariant ==
  ASSUME NoneRefused
  PROVE  Spec => []StreamInv
<1>1. PaceInv /\ PaceInv' /\ StreamInv /\ [Next]_vars => StreamInv'
  BY NextStream
<1> QED BY <1>1, InitStream, PaceIsInvariant, PTL DEF Spec

-----------------------------------------------------------------------------
(* The theorems.                                                           *)

\* receiver.go:185-257, 281-335: for any ring, rate and network, every packet the
\* drainer accepted is counted exactly once by the time Run returns, and nothing
\* is sent on the ring Run has closed.
THEOREM BooksAreKept ==
  ASSUME NoneRefused
  PROVE  Spec => []ReceiverKeepsBooks
<1>1. StreamInv => ReceiverKeepsBooks
  <2> SUFFICES ASSUME StreamInv PROVE ReceiverKeepsBooks
    OBVIOUS
  <2>1. Len(arrived) = acc.recv + acc.duplicates + acc.localDrops + Len(ring.ch) + InHand
    BY DEF StreamInv, CountInv
  <2>2. /\ acc.recv \in Nat /\ acc.duplicates \in Nat /\ acc.localDrops \in Nat
    BY CountersAreNumbers DEF StreamInv, OriginInv, Ledger
  <2>3. run = "returned" => ring.ch = <<>> /\ InHand = 0
    BY DEF StreamInv, ShapeInv, InHand
  <2>4. run = "returned" => Len(ring.ch) = 0
    BY <2>3
  <2>5. sentOnClosed = FALSE
    BY DEF StreamInv, ShapeInv
  <2>6. run = "returned" => acc.recv + acc.duplicates + acc.localDrops = Len(arrived)
    BY <2>1, <2>2, <2>3, <2>4
  <2> QED BY <2>1, <2>5, <2>6 DEF ReceiverKeepsBooks, InHand
<1> QED BY <1>1, StreamIsInvariant, PTL

\* trace.go:1189-1223: for any such stream that fits the map, the report's packets add
\* up to the server's count and none that did not arrive is passed over.
THEOREM ReportAddsUp ==
  ASSUME NoneRefused, MapHasRoom
  PROVE  Spec => []ReportBalances
<1>1. StreamInv /\ PaceInv => ReportBalances
  <2> SUFFICES ASSUME StreamInv, PaceInv, NEW i \in DOMAIN report
               PROVE  /\ report[i].recv + report[i].lost = report[i].sent
                      /\ report[i].lost >= report[i].sent - Cardinality(ToSet(arrived))
    BY DEF ReportBalances
  <2>1. PICK r : report = <<r>> /\ SoundReport(r)
    BY DEF StreamInv, ViewInv
  <2>2. report[i] = r
    BY <2>1
  <2>3. Cardinality(Arrived) \in Nat
    <3>1. Arrived \subseteq 0 .. sender.seq - 1 /\ sender.seq \in Nat
      BY DEF StreamInv, OriginInv, Sent, PaceInv, Senders
    <3> HIDE DEF Arrived
    <3> QED BY <3>1, HorizonSplit
  <2>4. r.recv + r.lost = r.sent /\ r.lost >= r.sent - Cardinality(Arrived)
    BY <2>1, <2>3 DEF SoundReport
  <2> QED BY <2>2, <2>4 DEF Arrived
<1> QED BY <1>1, StreamIsInvariant, PaceIsInvariant, PTL

-----------------------------------------------------------------------------
(* The reverse path: the client's table mirrors the prober's snapshots, for *)
(* any number of hops, routes, channel capacity and delay.                  *)

Addrs == Others \cup {ClientIP, NoAddr}
Rows == [ttl : TTLs, addr : Addrs, tag : {"", "host", "nat"}]
Messages == [row : Rows, maxTTL : TTLs]

\* Rows in the order of their TTLs; only the last may end the path.
IsSnapshot(s) ==
  /\ s \in Seq(Rows) /\ s # <<>>
  /\ \A t \in 1 .. Len(s) : s[t].ttl = t /\ (s[t].tag # "" => t = Len(s))

\* The same of a row on its own.
IsUpdate(m) ==
  /\ m \in Messages
  /\ m.row.ttl <= m.maxTTL
  /\ m.row.tag # "" => m.row.ttl = m.maxTTL

\* The path ends no farther than the nearest TTL the target answered at.
ProberInv ==
  /\ path \in [TTLs -> [addr : Addrs, echo : BOOLEAN]]
  /\ terminus \in 0 .. MaxHops
  /\ \A t \in TTLs : path[t].echo => 0 < terminus /\ terminus <= t

\* How much of the snapshot forwarded last is on its way or has arrived.
Forwarding == Len(forwarded) - Len(forwarder.rows)

\* What the path ends at never moves away: of the snapshot being forwarded, those
\* waiting and the next one, a later one is never longer.
QueueInv ==
  /\ revSnaps \in Seq(Seq(Rows))
  /\ \A i \in 1 .. Len(revSnaps) :
       /\ IsSnapshot(revSnaps[i])
       /\ SweepLimit(terminus) <= Len(revSnaps[i])
  /\ \A i, j \in 1 .. Len(revSnaps) : i <= j => Len(revSnaps[j]) <= Len(revSnaps[i])
  /\ forwarded = <<>> \/ IsSnapshot(forwarded)
  /\ forwarded # <<>> =>
       /\ SweepLimit(terminus) <= Len(forwarded)
       /\ \A i \in 1 .. Len(revSnaps) : Len(revSnaps[i]) <= Len(forwarded)

\* The forwarder holds the rest of that snapshot.
ForwarderInv ==
  /\ forwarder \in [pc : {"idle", "sending", "gone"}, rows : Seq(Rows), maxTTL : 0 .. MaxHops]
  /\ Len(forwarder.rows) <= Len(forwarded)
  /\ \A i \in 1 .. Len(forwarder.rows) : forwarder.rows[i] = forwarded[Forwarding + i]
  /\ forwarder.pc = "idle" => forwarder.rows = <<>>
  /\ forwarder.pc = "sending" => forwarder.rows # <<>> /\ forwarder.maxTTL = Len(forwarded)

\* The wire ends with what was sent of it; what lies before is of longer paths.
WirePathInv ==
  /\ pathWire \in Seq(Messages)
  /\ pathWire # <<>> => forwarded # <<>>
  /\ \A i \in 1 .. Len(pathWire) :
       IsUpdate(pathWire[i]) /\ Len(forwarded) <= pathWire[i].maxTTL
  /\ \A i, j \in 1 .. Len(pathWire) : i <= j => pathWire[j].maxTTL <= pathWire[i].maxTTL
  /\ \A i \in 1 .. Len(pathWire) :
       LET t == Forwarding - Len(pathWire) + i
       IN t > 0 => pathWire[i] = [row |-> forwarded[t], maxTTL |-> Len(forwarded)]

\* The client's table starts with what arrived of it, and once that is anything it
\* has no row past its end; a row that ends the path is the last one, and is never
\* before the end of a path on its way.
TableInv ==
  /\ DOMAIN reverseHops \subseteq TTLs
  /\ \A t \in DOMAIN reverseHops : reverseHops[t] \in [addr : Addrs, tag : {"", "host", "nat"}]
  /\ reverseHops # [t \in {} |-> NoRow] => forwarded # <<>>
  /\ \A t \in DOMAIN reverseHops : reverseHops[t].tag # "" =>
       /\ \A u \in DOMAIN reverseHops : u <= t
       /\ Len(forwarded) <= t
       /\ \A i \in 1 .. Len(pathWire) : pathWire[i].maxTTL <= t
  /\ Forwarding > Len(pathWire) =>
       /\ \A t \in DOMAIN reverseHops : t <= Len(forwarded)
       /\ \A t \in 1 .. Forwarding - Len(pathWire) :
            /\ t \in DOMAIN reverseHops
            /\ reverseHops[t] = [addr |-> forwarded[t].addr, tag |-> forwarded[t].tag]

PathInv == ProberInv /\ QueueInv /\ ForwarderInv /\ WirePathInv /\ TableInv

LEMMA HeadAndRest ==
  ASSUME NEW S, NEW q \in Seq(S), q # <<>>
  PROVE  /\ Len(q) \in Nat \ {0} /\ Head(q) = q[1] /\ Head(q) \in S
         /\ Tail(q) \in Seq(S) /\ Len(Tail(q)) = Len(q) - 1
         /\ \A i \in 1 .. Len(q) - 1 : Tail(q)[i] = q[i + 1]
OBVIOUS

LEMMA OneMore ==
  ASSUME NEW S, NEW q \in Seq(S), NEW e \in S
  PROVE  /\ Append(q, e) \in Seq(S) /\ Len(q) \in Nat /\ Len(Append(q, e)) = Len(q) + 1
         /\ \A i \in 1 .. Len(q) : Append(q, e)[i] = q[i]
         /\ Append(q, e)[Len(q) + 1] = e
OBVIOUS

\* What IngestReverseHop leaves in the table.
LEMMA UpsertedRows ==
  ASSUME NEW h, NEW u \in Messages
  PROVE  /\ \A t : t \in DOMAIN Upserted(h, u)
                   <=> (t \in DOMAIN h \/ t = u.row.ttl) /\ t <= u.maxTTL
         /\ \A t \in DOMAIN Upserted(h, u) :
              Upserted(h, u)[t] =
                IF t = u.row.ttl THEN [addr |-> u.row.addr, tag |-> u.row.tag] ELSE h[t]
BY DEF Upserted, Pruned

LEMMA LimitRange ==
  ASSUME NEW n \in 0 .. MaxHops
  PROVE  SweepLimit(n) \in TTLs /\ (n > 0 => SweepLimit(n) <= n)
BY BooksAssumption DEF SweepLimit, TTLs

\* buildSnapshot: what the prober hands out is one.
LEMMA SnapshotShape ==
  ASSUME ProberInv
  PROVE  IsSnapshot(Snapshot) /\ Len(Snapshot) = SweepLimit(terminus)
<1>1. PICK n \in TTLs : n = SweepLimit(terminus)
  BY LimitRange DEF ProberInv
<1>2. n \in Nat \ {0} /\ 1 .. n \subseteq TTLs
  BY <1>1, BooksAssumption DEF TTLs
<1>3. ASSUME NEW t \in 1 .. n
      PROVE  [ttl |-> t, addr |-> path[t].addr, tag |-> Tag(path[t])] \in Rows
  <2>1. t \in TTLs /\ path[t].addr \in Addrs
    BY <1>2, <1>3 DEF ProberInv
  <2>2. Tag(path[t]) \in {"", "host", "nat"}
    BY DEF Tag
  <2> QED BY <2>1, <2>2 DEF Rows
<1>4. Snapshot = [t \in 1 .. n |->
                    [ttl |-> t, addr |-> path[t].addr, tag |-> Tag(path[t])]]
  BY <1>1 DEF Snapshot
<1>5. Snapshot \in Seq(Rows) /\ Len(Snapshot) = n
  BY <1>2, <1>3, <1>4
<1>6. ASSUME NEW t \in 1 .. n, Snapshot[t].tag # "" PROVE t = n
  <2>1. Snapshot[t].tag = Tag(path[t])
    BY <1>4
  <2>2. path[t].echo
    BY <1>6, <2>1 DEF Tag
  <2>3. 0 < terminus /\ terminus <= t
    BY <1>2, <2>2 DEF ProberInv
  <2> QED BY <1>1, <1>2, <2>3, LimitRange DEF ProberInv
<1>7. \A t \in 1 .. n : Snapshot[t].ttl = t
  BY <1>4
<1>8. Snapshot # <<>>
  BY <1>2, <1>5
<1> QED BY <1>1, <1>5, <1>6, <1>7, <1>8 DEF IsSnapshot

LEMMA SnapshotRows ==
  ASSUME NEW s, IsSnapshot(s)
  PROVE  /\ s \in Seq(Rows) /\ Len(s) \in Nat \ {0} /\ Len(s) \in TTLs
         /\ \A t \in 1 .. Len(s) :
              s[t] \in Rows /\ s[t].ttl = t /\ (s[t].tag # "" => t = Len(s))
<1>1. s \in Seq(Rows) /\ s # <<>>
  BY DEF IsSnapshot
<1>2. PICK n \in Nat \ {0} : n = Len(s)
  BY <1>1, HeadAndRest
<1>3. \A t \in 1 .. n : s[t] \in Rows
  BY <1>1, <1>2
<1>4. \A t \in 1 .. n : s[t].ttl = t /\ (s[t].tag # "" => t = n)
  BY <1>2 DEF IsSnapshot
<1>5. s[n].ttl = n /\ s[n] \in Rows
  <2>1. n \in 1 .. n
    OBVIOUS
  <2> QED BY <1>3, <1>4, <2>1
<1>6. n \in TTLs
  BY <1>5 DEF Rows
<1> QED BY <1>1, <1>2, <1>3, <1>4, <1>6

LEMMA InitPath == Init => PathInv
<1> SUFFICES ASSUME Init PROVE PathInv
  OBVIOUS
<1> USE BooksAssumption
<1>1. /\ path = [t \in TTLs |-> [addr |-> NoAddr, echo |-> FALSE]]
      /\ terminus = 0 /\ revSnaps = <<>>
  BY DEF Init, PathInit
<1>2. /\ forwarder = [pc |-> "idle", rows |-> <<>>, maxTTL |-> 0]
      /\ pathWire = <<>> /\ forwarded = <<>>
  BY DEF Init, PathInit
<1>3. reverseHops = [t \in {} |-> NoRow]
  BY DEF Init, PathInit
<1>4. ProberInv
  BY <1>1 DEF ProberInv, TTLs, Addrs
<1>5. QueueInv
  BY <1>1, <1>2 DEF QueueInv
<1>6. ForwarderInv
  BY <1>2 DEF ForwarderInv
<1>7. WirePathInv
  BY <1>2 DEF WirePathInv
<1>8. TableInv
  <2>1. DOMAIN reverseHops = {}
    BY <1>3
  <2>2. ~(Forwarding > Len(pathWire))
    BY <1>2 DEF Forwarding
  <2> QED BY <1>3, <2>1, <2>2 DEF TableInv
<1> QED BY <1>4, <1>5, <1>6, <1>7, <1>8 DEF PathInv

\* The path only gets shorter: terminus is the nearest that ever answered.
LEMMA AnsweredPath ==
  ASSUME PathInv, NEW t \in TTLs, NEW a \in Others \cup {ClientIP}, NEW echo \in BOOLEAN,
         Answered(t, a, echo)
  PROVE  PathInv'
<1>1. UNCHANGED <<revSnaps, forwarder, pathWire, reverseHops, forwarded>>
  BY DEF Answered
<1>2. ForwarderInv' /\ WirePathInv' /\ TableInv'
  BY <1>1 DEF PathInv, ForwarderInv, WirePathInv, TableInv, Forwarding
<1> DEFINE addr == IF path[t].addr = NoAddr THEN a ELSE path[t].addr
           seen == path[t].echo \/ echo
<1>3. path' = [path EXCEPT ![t] = [addr |-> addr, echo |-> seen]]
  BY DEF Answered
<1>4. /\ path \in [TTLs -> [addr : Addrs, echo : BOOLEAN]]
      /\ terminus \in 0 .. MaxHops /\ MaxHops \in Nat \ {0} /\ t \in 1 .. MaxHops
      /\ \A u \in TTLs : path[u].echo => 0 < terminus /\ terminus <= u
  BY BooksAssumption DEF PathInv, ProberInv, TTLs
<1>5. [addr |-> addr, echo |-> seen] \in [addr : Addrs, echo : BOOLEAN]
  BY <1>4 DEF Addrs
<1>6. path' \in [TTLs -> [addr : Addrs, echo : BOOLEAN]]
  BY <1>3, <1>4, <1>5
<1>7. /\ terminus' \in 0 .. MaxHops
      /\ terminus > 0 => 0 < terminus' /\ terminus' <= terminus
      /\ echo => 0 < terminus' /\ terminus' <= t
  <2>1. terminus' = IF echo THEN Nearest(terminus, t) ELSE terminus
    BY DEF Answered
  <2> QED BY <1>4, <2>1 DEF Nearest
<1>8. ASSUME NEW u \in TTLs, path'[u].echo PROVE 0 < terminus' /\ terminus' <= u
  <2>1. u \in Nat
    BY BooksAssumption DEF TTLs
  <2>2. CASE path[u].echo
    BY <1>4, <1>7, <2>1, <2>2
  <2>3. CASE ~path[u].echo
    <3>1. u = t /\ echo
      BY <1>3, <1>4, <1>8, <2>3
    <3> QED BY <1>7, <3>1
  <2> QED BY <2>2, <2>3
<1>9. ProberInv'
  BY <1>6, <1>7, <1>8 DEF ProberInv
<1>10. SweepLimit(terminus') <= SweepLimit(terminus)
  BY <1>4, <1>7 DEF SweepLimit
<1>11. QueueInv'
  <2>1. PICK m, n \in TTLs : n = SweepLimit(terminus) /\ m = SweepLimit(terminus')
    BY <1>4, <1>7, LimitRange
  <2>2. m \in Nat /\ n \in Nat /\ m <= n
    BY <1>10, <2>1, BooksAssumption DEF TTLs
  <2>3. ASSUME NEW s \in Seq(Rows), n <= Len(s) PROVE m <= Len(s)
    <3>1. Len(s) \in Nat
      OBVIOUS
    <3> QED BY <2>2, <2>3, <3>1
  <2>4. QueueInv
    BY DEF PathInv
  <2>5. \A i \in 1 .. Len(revSnaps) : SweepLimit(terminus') <= Len(revSnaps[i])
    BY <2>1, <2>3, <2>4 DEF QueueInv
  <2>6. forwarded # <<>> => SweepLimit(terminus') <= Len(forwarded)
    BY <2>1, <2>3, <2>4 DEF QueueInv, IsSnapshot
  <2> QED BY <1>1, <2>4, <2>5, <2>6 DEF QueueInv
<1> QED BY <1>2, <1>9, <1>11 DEF PathInv

LEMMA SweptPath ==
  ASSUME PathInv, Swept
  PROVE  PathInv'
<1>1. /\ UNCHANGED <<path, terminus, forwarder, pathWire, reverseHops, forwarded>>
      /\ revSnaps' = Append(revSnaps, Snapshot)
  BY DEF Swept
<1>2. ProberInv' /\ ForwarderInv' /\ WirePathInv' /\ TableInv'
  BY <1>1 DEF PathInv, ProberInv, ForwarderInv, WirePathInv, TableInv, Forwarding
<1>3. PICK s : s = Snapshot /\ IsSnapshot(s) /\ Len(s) = SweepLimit(terminus)
  BY SnapshotShape DEF PathInv
<1>4. /\ s \in Seq(Rows) /\ Len(s) \in Nat
      /\ revSnaps \in Seq(Seq(Rows)) /\ revSnaps' = Append(revSnaps, s)
  <2>1. s \in Seq(Rows)
    BY <1>3 DEF IsSnapshot
  <2> QED BY <1>1, <1>3, <2>1 DEF PathInv, QueueInv
<1>5. /\ revSnaps' \in Seq(Seq(Rows)) /\ Len(revSnaps) \in Nat
      /\ Len(revSnaps') = Len(revSnaps) + 1
      /\ \A i \in 1 .. Len(revSnaps) : revSnaps'[i] = revSnaps[i]
      /\ revSnaps'[Len(revSnaps) + 1] = s
  BY <1>4, OneMore
<1>6. PICK n \in Nat : n = Len(revSnaps)
  BY <1>5
<1>7. ASSUME NEW i \in 1 .. n + 1
      PROVE  IsSnapshot(revSnaps'[i]) /\ Len(s) <= Len(revSnaps'[i])
  <2>1. CASE i = n + 1
    BY <1>3, <1>4, <1>5, <1>6, <2>1
  <2>2. CASE i \in 1 .. n
    BY <1>3, <1>5, <1>6, <2>2 DEF PathInv, QueueInv
  <2> QED BY <2>1, <2>2
<1>8. ASSUME NEW i \in 1 .. n + 1, NEW j \in 1 .. n + 1, i <= j
      PROVE  Len(revSnaps'[j]) <= Len(revSnaps'[i])
  <2>1. CASE j = n + 1
    BY <1>5, <1>6, <1>7, <2>1
  <2>2. CASE j \in 1 .. n
    <3>1. i \in 1 .. n
      BY <1>8, <2>2
    <3> QED BY <1>5, <1>6, <1>8, <2>2, <3>1 DEF PathInv, QueueInv
  <2> QED BY <2>1, <2>2
<1>9. ASSUME forwarded # <<>>, NEW i \in 1 .. n + 1
      PROVE  Len(revSnaps'[i]) <= Len(forwarded)
  <2>1. CASE i = n + 1
    BY <1>3, <1>5, <1>6, <1>9, <2>1 DEF PathInv, QueueInv
  <2>2. CASE i \in 1 .. n
    BY <1>5, <1>6, <1>9, <2>2 DEF PathInv, QueueInv
  <2> QED BY <2>1, <2>2
<1>10. QueueInv'
  <2>1. Len(revSnaps') = n + 1
    BY <1>5, <1>6
  <2>2. QueueInv /\ terminus' = terminus /\ forwarded' = forwarded
    BY <1>1 DEF PathInv
  <2>3. \A i \in 1 .. n + 1 : SweepLimit(terminus) <= Len(revSnaps'[i])
    BY <1>3, <1>7
  <2> QED BY <1>5, <1>7, <1>8, <1>9, <2>1, <2>2, <2>3 DEF QueueInv
<1> QED BY <1>2, <1>10 DEF PathInv

\* TakeSnapshot: all of the last snapshot is sent, none of this one.
LEMMA TakeSnapshotPath ==
  ASSUME PathInv, TakeSnapshot
  PROVE  PathInv'
<1>1. PICK s : s = Head(revSnaps)
  OBVIOUS
<1>2. /\ revSnaps # <<>> /\ revSnaps' = Tail(revSnaps) /\ forwarded' = s
      /\ forwarder' = [pc |-> "sending", rows |-> s, maxTTL |-> Last(s).ttl]
      /\ UNCHANGED <<path, terminus, pathWire, reverseHops>>
      /\ forwarder.pc = "idle"
  BY <1>1 DEF TakeSnapshot
<1>3. ProberInv'
  BY <1>2 DEF PathInv, ProberInv
<1>4. PICK n \in Nat \ {0} : n = Len(revSnaps)
  BY <1>2, HeadAndRest DEF PathInv, QueueInv
<1>5. /\ s = revSnaps[1] /\ revSnaps' \in Seq(Seq(Rows)) /\ Len(revSnaps') = n - 1
      /\ \A i \in 1 .. n - 1 : revSnaps'[i] = revSnaps[i + 1]
  BY <1>1, <1>2, <1>4, HeadAndRest DEF PathInv, QueueInv
<1>6. /\ IsSnapshot(s) /\ SweepLimit(terminus) <= Len(s)
      /\ \A i \in 1 .. n : Len(revSnaps[i]) <= Len(s)
      /\ forwarded # <<>> => Len(s) <= Len(forwarded)
  BY <1>4, <1>5 DEF PathInv, QueueInv
<1>7. s \in Seq(Rows) /\ Len(s) \in Nat \ {0} /\ s # <<>>
  BY <1>6, SnapshotRows DEF IsSnapshot
<1>8. QueueInv'
  <2>1. \A i \in 1 .. n - 1 : i + 1 \in 1 .. n
    OBVIOUS
  <2>2. QueueInv
    BY DEF PathInv
  <2>3. \A i \in 1 .. n - 1 : /\ IsSnapshot(revSnaps'[i])
                              /\ SweepLimit(terminus) <= Len(revSnaps'[i])
                              /\ Len(revSnaps'[i]) <= Len(s)
    BY <1>4, <1>5, <1>6, <2>1, <2>2 DEF QueueInv
  <2>4. \A i, j \in 1 .. n - 1 : i <= j => Len(revSnaps'[j]) <= Len(revSnaps'[i])
    <3> SUFFICES ASSUME NEW i \in 1 .. n - 1, NEW j \in 1 .. n - 1, i <= j
                 PROVE  Len(revSnaps[j + 1]) <= Len(revSnaps[i + 1])
      BY <1>5
    <3>1. i + 1 <= j + 1
      OBVIOUS
    <3> QED BY <1>4, <2>1, <2>2, <3>1 DEF QueueInv
  <2> QED BY <1>2, <1>5, <1>6, <2>3, <2>4 DEF QueueInv, IsSnapshot
<1>9. PICK n2 \in TTLs : n2 = Len(s) /\ Last(s).ttl = n2
  <2>1. Len(s) \in 1 .. Len(s)
    BY <1>7
  <2>2. Len(s) \in TTLs /\ s[Len(s)].ttl = Len(s)
    BY <1>6, <2>1, SnapshotRows
  <2> QED BY <2>2 DEF Last
<1>10. ForwarderInv'
  <2>1. forwarder'.pc = "sending" /\ forwarder'.rows = s /\ forwarder'.maxTTL = n2
    BY <1>2, <1>9
  <2>2. n2 \in 0 .. MaxHops
    BY <1>9, BooksAssumption DEF TTLs
  <2>3. forwarder' \in [pc : {"idle", "sending", "gone"}, rows : Seq(Rows), maxTTL : 0 .. MaxHops]
    BY <1>2, <1>7, <1>9, <2>2
  <2>4. Forwarding' = 0
    BY <1>2, <1>7, <2>1 DEF Forwarding
  <2>5. \A i \in 1 .. Len(s) : s[i] = s[0 + i]
    BY <1>7
  <2> QED BY <1>2, <1>7, <1>9, <2>1, <2>3, <2>4, <2>5 DEF ForwarderInv
<1>11. Forwarding' = 0
  BY <1>2, <1>7 DEF Forwarding
<1>12. Len(forwarded) \in Nat /\ (forwarded = <<>> => Len(forwarded) = 0)
  <2>1. forwarded = <<>> \/ forwarded \in Seq(Rows)
    BY DEF PathInv, QueueInv, IsSnapshot
  <2> QED BY <2>1
<1>13. WirePathInv'
  <2>1. WirePathInv /\ pathWire \in Seq(Messages)
    BY DEF PathInv, WirePathInv
  <2>2. PICK w \in Nat : w = Len(pathWire)
    BY <2>1
  <2>3. \A i \in 1 .. w : Len(s) <= pathWire[i].maxTTL
    <3> SUFFICES ASSUME NEW i \in 1 .. w PROVE Len(s) <= pathWire[i].maxTTL
      OBVIOUS
    <3>1. forwarded # <<>>
      <4>1. pathWire # <<>>
        BY <2>1, <2>2
      <4> QED BY <2>1, <4>1 DEF WirePathInv
    <3>2. Len(s) <= Len(forwarded)
      BY <1>6, <3>1
    <3>3. Len(forwarded) <= pathWire[i].maxTTL
      BY <2>1, <2>2 DEF WirePathInv
    <3>4. pathWire[i].maxTTL \in Nat
      <4>1. pathWire[i] \in Messages
        BY <2>1, <2>2
      <4> QED BY <4>1, BooksAssumption DEF Messages, TTLs
    <3> QED BY <1>7, <1>12, <3>2, <3>3, <3>4
  <2>4. \A i \in 1 .. w : ~(Forwarding' - w + i > 0)
    BY <1>11
  <2>5. pathWire' = pathWire /\ forwarded' = s
    BY <1>2
  <2> QED BY <1>7, <2>1, <2>2, <2>3, <2>4, <2>5 DEF WirePathInv
<1>14. TableInv'
  <2>1. TableInv /\ pathWire \in Seq(Messages)
    BY DEF PathInv, WirePathInv
  <2>2. ~(Forwarding' > Len(pathWire))
    BY <1>11, <2>1
  <2>3. ASSUME NEW t \in DOMAIN reverseHops, reverseHops[t].tag # "" PROVE Len(s) <= t
    <3>1. Len(forwarded) <= t /\ t \in TTLs
      BY <2>1, <2>3 DEF TableInv
    <3>2. forwarded # <<>>
      <4>1. reverseHops # [u \in {} |-> NoRow]
        BY <2>3
      <4> QED BY <2>1, <4>1 DEF TableInv
    <3>3. t \in Nat
      BY <3>1, BooksAssumption DEF TTLs
    <3> QED BY <1>6, <1>7, <1>12, <3>1, <3>2, <3>3
  <2>4. UNCHANGED <<reverseHops, pathWire>> /\ forwarded' = s
    BY <1>2
  <2> QED BY <1>7, <2>1, <2>2, <2>3, <2>4 DEF TableInv
<1> QED BY <1>3, <1>8, <1>10, <1>13, <1>14 DEF PathInv

\* SendHop: one more of the snapshot is on its way.
LEMMA SendHopPath ==
  ASSUME PathInv, SendHop
  PROVE  PathInv'
<1>1. /\ forwarder.pc = "sending" /\ forwarder.maxTTL = Len(forwarded)
      /\ pathWire' = Append(pathWire, [row |-> Head(forwarder.rows), maxTTL |-> forwarder.maxTTL])
      /\ forwarder' = [forwarder EXCEPT !.rows = Tail(forwarder.rows),
                         !.pc = IF Tail(forwarder.rows) = <<>> THEN "idle" ELSE "sending"]
      /\ UNCHANGED <<path, terminus, revSnaps, reverseHops, forwarded>>
  BY DEF SendHop, PathInv, ForwarderInv
<1>2. ProberInv' /\ QueueInv'
  BY <1>1 DEF PathInv, ProberInv, QueueInv
<1>3. PICK rows \in Seq(Rows) : rows = forwarder.rows /\ rows # <<>>
  BY <1>1 DEF PathInv, ForwarderInv
<1>4. PICK r \in Nat \ {0} : r = Len(rows)
  BY <1>3, HeadAndRest
<1>5. /\ Head(rows) = rows[1] /\ Head(rows) \in Rows
      /\ Tail(rows) \in Seq(Rows) /\ Len(Tail(rows)) = r - 1
      /\ \A i \in 1 .. r - 1 : Tail(rows)[i] = rows[i + 1]
  BY <1>3, <1>4, HeadAndRest
<1>6. forwarded # <<>> /\ forwarded \in Seq(Rows) /\ IsSnapshot(forwarded)
  <2>1. forwarded # <<>>
    <3>1. Len(forwarder.rows) <= Len(forwarded)
      BY DEF PathInv, ForwarderInv
    <3> QED BY <1>3, <1>4, <3>1
  <2>2. IsSnapshot(forwarded)
    BY <2>1 DEF PathInv, QueueInv
  <2> QED BY <2>1, <2>2 DEF IsSnapshot
<1>7. PICK n \in Nat \ {0} : n = Len(forwarded) /\ n \in TTLs
  BY <1>6, SnapshotRows
<1>8. PICK k \in Nat : k = Forwarding /\ k + r = n
  <2>1. r <= n
    BY <1>3, <1>4, <1>7 DEF PathInv, ForwarderInv
  <2>2. Forwarding = n - r
    BY <1>3, <1>4, <1>7 DEF Forwarding
  <2> QED BY <2>1, <2>2
<1>9. \A i \in 1 .. r : rows[i] = forwarded[k + i]
  BY <1>3, <1>4, <1>8 DEF PathInv, ForwarderInv
<1>10. Head(rows) = forwarded[k + 1] /\ k + 1 \in 1 .. n
  BY <1>4, <1>5, <1>8, <1>9
<1>12. PICK m : m = [row |-> forwarded[k + 1], maxTTL |-> n]
  OBVIOUS
<1>13. m \in Messages /\ pathWire' = Append(pathWire, m)
  BY <1>1, <1>3, <1>5, <1>7, <1>10, <1>12 DEF Messages
<1>14. IsUpdate(m) /\ n <= m.maxTTL
  <2>1. /\ forwarded[k + 1].ttl = k + 1
        /\ forwarded[k + 1].tag # "" => k + 1 = n
    BY <1>6, <1>7, <1>10, SnapshotRows
  <2>2. m.row = forwarded[k + 1] /\ m.maxTTL = n
    BY <1>12
  <2>3. m.row.ttl <= m.maxTTL /\ (m.row.tag # "" => m.row.ttl = m.maxTTL)
    <3>1. m.row.ttl = k + 1 /\ m.row.tag = forwarded[k + 1].tag
      BY <2>1, <2>2
    <3>2. k + 1 <= n
      BY <1>10
    <3> QED BY <2>1, <2>2, <3>1, <3>2
  <2>4. n <= m.maxTTL
    BY <2>2
  <2> QED BY <1>13, <2>3, <2>4 DEF IsUpdate
<1>15. forwarder'.rows = Tail(rows) /\ Forwarding' = k + 1
  <2>1. forwarder'.rows = Tail(rows)
    BY <1>1, <1>3 DEF PathInv, ForwarderInv
  <2>2. Forwarding' = Len(forwarded) - Len(Tail(rows))
    BY <1>1, <2>1 DEF Forwarding
  <2> QED BY <1>5, <1>7, <1>8, <2>1, <2>2
<1>16. ForwarderInv'
  <2> DEFINE pc == IF Tail(rows) = <<>> THEN "idle" ELSE "sending"
  <2>1. /\ pc \in {"idle", "sending", "gone"}
        /\ pc = "idle" => Tail(rows) = <<>>
        /\ pc = "sending" => Tail(rows) # <<>>
    OBVIOUS
  <2>2. forwarder' = [forwarder EXCEPT !.rows = Tail(rows), !.pc = pc]
    BY <1>1, <1>3
  <2> HIDE DEF pc
  <2>3. /\ forwarder' \in [pc : {"idle", "sending", "gone"}, rows : Seq(Rows), maxTTL : 0 .. MaxHops]
        /\ forwarder'.pc = pc /\ forwarder'.maxTTL = Len(forwarded)
    BY <1>1, <1>5, <2>1, <2>2 DEF PathInv, ForwarderInv
  <2>4. ASSUME NEW i \in 1 .. r - 1 PROVE Tail(rows)[i] = forwarded[(k + 1) + i]
    <3>1. i + 1 \in 1 .. r /\ k + (i + 1) = (k + 1) + i
      OBVIOUS
    <3> QED BY <1>5, <1>9, <3>1
  <2>5. Len(Tail(rows)) <= Len(forwarded)
    BY <1>5, <1>7, <1>8
  <2> QED BY <1>1, <1>5, <1>15, <2>1, <2>3, <2>4, <2>5 DEF ForwarderInv
<1>17. /\ pathWire \in Seq(Messages) /\ WirePathInv
       /\ \A i \in 1 .. Len(pathWire) : pathWire[i] \in Messages
  BY DEF PathInv, WirePathInv
<1>18. PICK w \in Nat : w = Len(pathWire)
  BY <1>17
<1>19. /\ pathWire' \in Seq(Messages) /\ Len(pathWire') = w + 1
       /\ \A i \in 1 .. w : pathWire'[i] = pathWire[i]
       /\ pathWire'[w + 1] = m
  BY <1>13, <1>17, <1>18, OneMore
<1>20. ASSUME NEW i \in 1 .. w + 1
       PROVE  IsUpdate(pathWire'[i]) /\ n <= pathWire'[i].maxTTL
  <2>1. CASE i = w + 1
    BY <1>14, <1>19, <2>1
  <2>2. CASE i \in 1 .. w
    BY <1>7, <1>17, <1>18, <1>19, <2>2 DEF WirePathInv
  <2> QED BY <2>1, <2>2
<1>21. ASSUME NEW i \in 1 .. w + 1, NEW j \in 1 .. w + 1, i <= j
       PROVE  pathWire'[j].maxTTL <= pathWire'[i].maxTTL
  <2>1. CASE j = w + 1
    BY <1>12, <1>19, <1>20, <2>1
  <2>2. CASE j \in 1 .. w
    <3>1. i \in 1 .. w
      BY <1>21, <2>2
    <3> QED BY <1>17, <1>18, <1>19, <1>21, <2>2, <3>1 DEF WirePathInv
  <2> QED BY <2>1, <2>2
<1>22. WirePathInv'
  <2>1. ASSUME NEW i \in 1 .. w + 1, (k + 1) - (w + 1) + i > 0
        PROVE  pathWire'[i] = [row |-> forwarded[(k + 1) - (w + 1) + i], maxTTL |-> n]
    <3>1. CASE i = w + 1
      <4>1. (k + 1) - (w + 1) + i = k + 1
        BY <3>1
      <4> QED BY <1>12, <1>19, <3>1, <4>1
    <3>2. CASE i \in 1 .. w
      <4>1. PICK t \in Int : t = k - w + i /\ t = (k + 1) - (w + 1) + i
        OBVIOUS
      <4>2. pathWire[i] = [row |-> forwarded[t], maxTTL |-> n]
        BY <1>7, <1>8, <1>17, <1>18, <2>1, <3>2, <4>1 DEF WirePathInv
      <4> QED BY <1>19, <3>2, <4>1, <4>2
    <3> QED BY <3>1, <3>2
  <2> QED BY <1>1, <1>6, <1>7, <1>15, <1>19, <1>20, <1>21, <2>1 DEF WirePathInv
<1>23. TableInv'
  <2>1. TableInv
    BY DEF PathInv
  <2>2. k + 1 - (w + 1) = k - w /\ (k + 1 > w + 1 <=> k > w)
    OBVIOUS
  <2>3. ASSUME NEW t \in DOMAIN reverseHops, reverseHops[t].tag # "", NEW i \in 1 .. w + 1
        PROVE  pathWire'[i].maxTTL <= t
    <3>1. CASE i = w + 1
      <4>1. Len(forwarded) <= t
        BY <2>1, <2>3 DEF TableInv
      <4> QED BY <1>7, <1>12, <1>19, <3>1, <4>1
    <3>2. CASE i \in 1 .. w
      BY <1>18, <1>19, <2>1, <2>3, <3>2 DEF TableInv
    <3> QED BY <3>1, <3>2
  <2>4. reverseHops' = reverseHops /\ forwarded' = forwarded
    BY <1>1
  <2>5. Forwarding' = k + 1 /\ Len(pathWire') = w + 1
    BY <1>15, <1>19
  <2>6. k > w =>
       /\ \A t \in DOMAIN reverseHops : t <= Len(forwarded)
       /\ \A t \in 1 .. k - w :
            /\ t \in DOMAIN reverseHops
            /\ reverseHops[t] = [addr |-> forwarded[t].addr, tag |-> forwarded[t].tag]
    BY <1>8, <1>18, <2>1 DEF TableInv
  <2>7. (k + 1 > w + 1) =>
       /\ \A t \in DOMAIN reverseHops : t <= Len(forwarded)
       /\ \A t \in 1 .. (k + 1) - (w + 1) :
            /\ t \in DOMAIN reverseHops
            /\ reverseHops[t] = [addr |-> forwarded[t].addr, tag |-> forwarded[t].tag]
    <3>1. 1 .. (k + 1) - (w + 1) = 1 .. k - w
      BY <2>2
    <3> QED BY <2>2, <2>6, <3>1
  <2>8. /\ DOMAIN reverseHops \subseteq TTLs
        /\ \A t \in DOMAIN reverseHops :
             reverseHops[t] \in [addr : Addrs, tag : {"", "host", "nat"}]
        /\ reverseHops # [t \in {} |-> NoRow] => forwarded # <<>>
    BY <2>1 DEF TableInv
  <2>9. \A t \in DOMAIN reverseHops : reverseHops[t].tag # "" =>
          /\ \A u \in DOMAIN reverseHops : u <= t
          /\ Len(forwarded) <= t
    BY <2>1 DEF TableInv
  <2> QED BY <2>3, <2>4, <2>5, <2>7, <2>8, <2>9 DEF TableInv
<1> QED BY <1>2, <1>16, <1>22, <1>23 DEF PathInv

LEMMA ForwarderExitPath ==
  ASSUME PathInv, ForwarderExit
  PROVE  PathInv'
<1>1. /\ forwarder' = [forwarder EXCEPT !.pc = "gone"]
      /\ UNCHANGED <<path, terminus, revSnaps, pathWire, reverseHops, forwarded>>
  BY DEF ForwarderExit
<1>2. /\ forwarder' \in [pc : {"idle", "sending", "gone"}, rows : Seq(Rows), maxTTL : 0 .. MaxHops]
      /\ forwarder'.rows = forwarder.rows /\ forwarder'.pc = "gone"
  BY <1>1 DEF PathInv, ForwarderInv
<1>3. Forwarding' = Forwarding
  BY <1>1, <1>2 DEF Forwarding
<1>4. ForwarderInv'
  BY <1>1, <1>2, <1>3 DEF PathInv, ForwarderInv
<1> QED BY <1>1, <1>3, <1>4
        DEF PathInv, ProberInv, QueueInv, WirePathInv, TableInv

\* IngestReverseHop: the row is in the table, what lies past the end is not.
LEMMA IngestHopPath ==
  ASSUME PathInv, IngestHop
  PROVE  PathInv'
<1>1. PICK u : u = Head(pathWire)
  OBVIOUS
<1>2. /\ pathWire # <<>> /\ pathWire' = Tail(pathWire)
      /\ reverseHops' = Upserted(reverseHops, u)
      /\ UNCHANGED <<path, terminus, revSnaps, forwarder, forwarded>>
  BY <1>1 DEF IngestHop
<1>3. ProberInv' /\ QueueInv' /\ ForwarderInv' /\ Forwarding' = Forwarding
  BY <1>2 DEF PathInv, ProberInv, QueueInv, ForwarderInv, Forwarding
<1>4. pathWire \in Seq(Messages) /\ WirePathInv /\ TableInv
  BY DEF PathInv, WirePathInv
<1>5. PICK w \in Nat \ {0} : w = Len(pathWire)
  BY <1>2, <1>4, HeadAndRest
<1>6. /\ u = pathWire[1] /\ u \in Messages
      /\ pathWire' \in Seq(Messages) /\ Len(pathWire') = w - 1
      /\ \A i \in 1 .. w - 1 : pathWire'[i] = pathWire[i + 1]
  BY <1>1, <1>2, <1>4, <1>5, HeadAndRest
<1>7. \A i \in 1 .. w - 1 : i + 1 \in 1 .. w
  OBVIOUS
<1>8. forwarded # <<>> /\ IsSnapshot(forwarded)
  BY <1>2, <1>4 DEF WirePathInv, PathInv, QueueInv
<1>9. PICK n \in Nat \ {0} : n = Len(forwarded) /\ n \in TTLs
  BY <1>8, SnapshotRows
<1>10. PICK k \in Nat : k = Forwarding /\ k <= n
  <2>1. PICK r \in Nat : r = Len(forwarder.rows)
    BY DEF PathInv, ForwarderInv
  <2>2. r <= n
    BY <1>9, <2>1 DEF PathInv, ForwarderInv
  <2>3. Forwarding = n - r
    BY <1>9, <2>1 DEF Forwarding
  <2> QED BY <2>2, <2>3
<1>11. WirePathInv'
  <2>1. \A i \in 1 .. w - 1 :
          IsUpdate(pathWire'[i]) /\ Len(forwarded) <= pathWire'[i].maxTTL
    BY <1>4, <1>5, <1>6, <1>7 DEF WirePathInv
  <2>2. ASSUME NEW i \in 1 .. w - 1, NEW j \in 1 .. w - 1, i <= j
        PROVE  pathWire'[j].maxTTL <= pathWire'[i].maxTTL
    <3>1. i + 1 <= j + 1
      BY <2>2
    <3> QED BY <1>4, <1>5, <1>6, <1>7, <3>1 DEF WirePathInv
  <2>3. ASSUME NEW i \in 1 .. w - 1, k - (w - 1) + i > 0
        PROVE  pathWire'[i] = [row |-> forwarded[k - (w - 1) + i], maxTTL |-> n]
    <3>1. PICK t \in Int : t = k - w + (i + 1) /\ t = k - (w - 1) + i
      OBVIOUS
    <3>2. pathWire[i + 1] = [row |-> forwarded[t], maxTTL |-> n]
      BY <1>4, <1>5, <1>7, <1>9, <1>10, <2>3, <3>1 DEF WirePathInv
    <3> QED BY <1>6, <3>1, <3>2
  <2> QED BY <1>2, <1>3, <1>6, <1>8, <1>9, <1>10, <2>1, <2>2, <2>3 DEF WirePathInv
<1>12. IsUpdate(u) /\ n <= u.maxTTL
  BY <1>4, <1>5, <1>6, <1>9 DEF WirePathInv
<1>13. PICK x, y \in TTLs :
         x = u.row.ttl /\ y = u.maxTTL /\ x <= y /\ (u.row.tag # "" => x = y)
  BY <1>6, <1>12 DEF IsUpdate, Messages, Rows
<1>14. x \in Nat /\ y \in Nat /\ n <= y
  <2>1. x \in Nat /\ y \in Nat
    BY BooksAssumption DEF TTLs
  <2> QED BY <1>12, <1>13, <2>1
<1>15. /\ \A t : t \in DOMAIN reverseHops'
                <=> (t \in DOMAIN reverseHops \/ t = x) /\ t <= y
       /\ \A t \in DOMAIN reverseHops' :
            reverseHops'[t] =
              IF t = x THEN [addr |-> u.row.addr, tag |-> u.row.tag] ELSE reverseHops[t]
  <2>1. /\ \A t : t \in DOMAIN Upserted(reverseHops, u)
               <=> (t \in DOMAIN reverseHops \/ t = u.row.ttl) /\ t <= u.maxTTL
        /\ \A t \in DOMAIN Upserted(reverseHops, u) :
             Upserted(reverseHops, u)[t] =
               IF t = u.row.ttl THEN [addr |-> u.row.addr, tag |-> u.row.tag]
               ELSE reverseHops[t]
    BY <1>6, UpsertedRows
  <2>2. reverseHops' = Upserted(reverseHops, u) /\ x = u.row.ttl /\ y = u.maxTTL
    BY <1>2, <1>13
  <2> HIDE DEF Upserted
  <2> QED BY <2>1, <2>2
<1>16. /\ DOMAIN reverseHops \subseteq TTLs
       /\ \A t \in DOMAIN reverseHops :
            reverseHops[t] \in [addr : Addrs, tag : {"", "host", "nat"}]
  BY <1>4 DEF TableInv
<1>17. /\ DOMAIN reverseHops' \subseteq TTLs
       /\ \A t \in DOMAIN reverseHops' :
            reverseHops'[t] \in [addr : Addrs, tag : {"", "host", "nat"}]
  <2>1. [addr |-> u.row.addr, tag |-> u.row.tag] \in [addr : Addrs, tag : {"", "host", "nat"}]
    BY <1>6 DEF Messages, Rows
  <2> QED BY <1>13, <1>15, <1>16, <2>1
<1>18. ASSUME NEW t \in DOMAIN reverseHops', reverseHops'[t].tag # ""
       PROVE  /\ \A v \in DOMAIN reverseHops' : v <= t
              /\ n <= t
              /\ \A i \in 1 .. w - 1 : pathWire'[i].maxTTL <= t
  <2>1. \A i \in 1 .. w - 1 : pathWire'[i].maxTTL <= y
    <3> SUFFICES ASSUME NEW i \in 1 .. w - 1 PROVE pathWire[i + 1].maxTTL <= y
      BY <1>6
    <3>1. 1 \in 1 .. w /\ i + 1 \in 1 .. w /\ 1 <= i + 1
      BY <1>7
    <3> QED BY <1>4, <1>5, <1>6, <1>13, <3>1 DEF WirePathInv
  <2>2. \A v \in DOMAIN reverseHops' : v <= y
    BY <1>15
  <2>3. t = y
    <3>1. CASE t = x
      <4>1. u.row.tag # ""
        <5>1. reverseHops'[t] = [addr |-> u.row.addr, tag |-> u.row.tag]
          BY <1>15, <3>1
        <5>2. reverseHops'[t].tag = u.row.tag
          BY <5>1
        <5> QED BY <1>18, <5>2
      <4> QED BY <1>13, <3>1, <4>1
    <3>2. CASE t # x
      <4>1. t \in DOMAIN reverseHops /\ reverseHops[t].tag # "" /\ t <= y
        BY <1>15, <1>18, <3>2
      <4>2. 1 \in 1 .. w
        OBVIOUS
      <4>3. y <= t
        BY <1>4, <1>5, <1>6, <1>13, <4>1, <4>2 DEF TableInv
      <4>4. t \in Nat
        <5>1. t \in TTLs
          BY <1>16, <4>1
        <5> QED BY <5>1, BooksAssumption DEF TTLs
      <4>5. t <= y
        BY <4>1
      <4> QED BY <1>14, <4>3, <4>4, <4>5
    <3> QED BY <3>1, <3>2
  <2> QED BY <1>14, <2>1, <2>2, <2>3
<1>19. ASSUME k > w - 1
       PROVE  /\ \A t \in DOMAIN reverseHops' : t <= n
              /\ \A t \in 1 .. k - (w - 1) :
                   /\ t \in DOMAIN reverseHops'
                   /\ reverseHops'[t] = [addr |-> forwarded[t].addr, tag |-> forwarded[t].tag]
  <2>1. PICK t \in 1 .. n : t = k - w + 1
    BY <1>10, <1>19
  <2>2. u = [row |-> forwarded[t], maxTTL |-> n]
    <3>1. 1 \in 1 .. w /\ k - w + 1 > 0
      BY <1>19
    <3> QED BY <1>4, <1>5, <1>6, <1>9, <1>10, <2>1, <3>1 DEF WirePathInv
  <2>3. x = t /\ y = n
    BY <1>8, <1>9, <1>13, <2>1, <2>2, SnapshotRows
  <2>4. \A v \in DOMAIN reverseHops' : v <= n
    BY <1>15, <2>3
  <2>5. ASSUME NEW v \in 1 .. t
        PROVE  /\ v \in DOMAIN reverseHops'
               /\ reverseHops'[v] = [addr |-> forwarded[v].addr, tag |-> forwarded[v].tag]
    <3>1. CASE v = t
      BY <1>15, <2>1, <2>2, <2>3, <3>1
    <3>2. CASE v # t
      <4>1. v \in 1 .. k - w /\ k > w /\ v <= n
        BY <2>1, <3>2
      <4>2. /\ v \in DOMAIN reverseHops
            /\ reverseHops[v] = [addr |-> forwarded[v].addr, tag |-> forwarded[v].tag]
        BY <1>4, <1>5, <1>10, <4>1 DEF TableInv
      <4> QED BY <1>15, <2>3, <3>2, <4>1, <4>2
    <3> QED BY <3>1, <3>2
  <2>6. k - (w - 1) = t
    BY <2>1
  <2> QED BY <2>4, <2>5, <2>6
<1>20. TableInv'
  BY <1>2, <1>3, <1>6, <1>8, <1>9, <1>10, <1>17, <1>18, <1>19 DEF TableInv
<1> QED BY <1>3, <1>11, <1>20 DEF PathInv

LEMMA PathKept ==
  ASSUME PathInv,
         UNCHANGED <<path, terminus, revSnaps, forwarder, pathWire, reverseHops, forwarded>>
  PROVE  PathInv'
BY DEF PathInv, ProberInv, QueueInv, ForwarderInv, WirePathInv, TableInv, Forwarding

LEMMA NextPath == PathInv /\ [Next]_vars => PathInv'
<1> SUFFICES ASSUME PathInv, [Next]_vars PROVE PathInv'
  OBVIOUS
<1>1. CASE UNCHANGED pathVars
  BY <1>1, PathKept DEF pathVars
<1>2. CASE ReadReady
  BY <1>2, PathKept DEF ReadReady
<1>3. CASE ServerPathNext
  <2>1. ASSUME NEW t \in TTLs, NEW a \in Others, Answered(t, a, FALSE) PROVE PathInv'
    BY <2>1, AnsweredPath
  <2>2. ASSUME NEW t \in TTLs, NEW a \in Others \cup {ClientIP}, Answered(t, a, TRUE)
        PROVE  PathInv'
    BY <2>2, AnsweredPath
  <2> QED BY <1>3, <2>1, <2>2, SweptPath, TakeSnapshotPath, SendHopPath, ForwarderExitPath
          DEF ServerPathNext
<1>4. CASE IngestHop
  BY <1>4, IngestHopPath
<1> QED BY <1>1, <1>2, <1>3, <1>4
  DEF Next, SendHello, Answer, Collision, PathNext, StreamNext, vars

\* aggregator.go:354-393, serve.go:589-652: for any number of hops, routes and
\* channel capacity, a table with nothing on its way is the snapshot forwarded last,
\* and never has a row past the end of the path.
THEOREM TableIsTheSnapshot == Spec => []TableMirrorsServer
<1>1. PathInv => TableMirrorsServer
  <2> SUFFICES ASSUME PathInv PROVE TableMirrorsServer
    OBVIOUS
  <2>1. ASSUME pathWire = <<>>, forwarder.pc = "idle"
        PROVE  /\ DOMAIN reverseHops = DOMAIN forwarded
               /\ \A t \in DOMAIN forwarded :
                    reverseHops[t] = [addr |-> forwarded[t].addr, tag |-> forwarded[t].tag]
    <3>1. Len(forwarder.rows) = 0 /\ Len(pathWire) = 0
      BY <2>1 DEF PathInv, ForwarderInv
    <3>2. CASE forwarded = <<>>
      <4>1. reverseHops = [t \in {} |-> NoRow]
        BY <3>2 DEF PathInv, TableInv
      <4> QED BY <3>2, <4>1
    <3>3. CASE forwarded # <<>>
      <4>1. forwarded \in Seq(Rows) /\ Len(forwarded) \in Nat \ {0}
        BY <3>3, SnapshotRows DEF PathInv, QueueInv
      <4>2. PICK n \in Nat \ {0} : n = Len(forwarded) /\ DOMAIN forwarded = 1 .. n
        BY <4>1
      <4>3. Forwarding = n
        BY <3>1, <4>2 DEF Forwarding
      <4>4. Forwarding > Len(pathWire) /\ Forwarding - Len(pathWire) = n
        BY <3>1, <4>3
      <4>5. /\ \A t \in DOMAIN reverseHops : t <= n
            /\ \A t \in 1 .. n :
                 /\ t \in DOMAIN reverseHops
                 /\ reverseHops[t] = [addr |-> forwarded[t].addr, tag |-> forwarded[t].tag]
        BY <4>2, <4>4 DEF PathInv, TableInv
      <4>6. DOMAIN reverseHops \subseteq TTLs
        BY DEF PathInv, TableInv
      <4>7. \A t \in TTLs : t \in Nat /\ t >= 1
        BY BooksAssumption DEF TTLs
      <4>8. \A t \in DOMAIN reverseHops : t \in 1 .. n
        BY <4>5, <4>6, <4>7
      <4>9. DOMAIN reverseHops = 1 .. n
        BY <4>5, <4>8
      <4> QED BY <4>2, <4>5, <4>9
    <3> QED BY <3>2, <3>3
  <2>2. \A t, u \in DOMAIN reverseHops : reverseHops[t].tag # "" => u <= t
    BY DEF PathInv, TableInv
  <2> QED BY <2>1, <2>2 DEF TableMirrorsServer
<1> QED BY <1>1, InitPath, NextPath, PTL DEF Spec
=============================================================================
