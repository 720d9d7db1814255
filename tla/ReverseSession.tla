----------------------------- MODULE ReverseSession -----------------------------
(***************************************************************************)
(* The reverse direction of a session: client and server negotiate         *)
(* (Negotiation), then the server walks the path back (ReversePath) and    *)
(* sends a stream back (ReverseStream), each if that was decided.  The     *)
(* server does not wait for the client: hops and packets may be on their   *)
(* way before the client has read the Ready, which is ahead of the hops.   *)
(***************************************************************************)
EXTENDS Negotiation, ReversePath, ReverseStream

CONSTANTS
  FlagSets,   \* the command lines considered
  Servers,    \* the servers: maxRate, capable, ipv4, allowStream
  FlowIDs,    \* what mintFlowID may return
  Followed    \* bound: command line and server of the sessions that are run, not
              \* only agreed on

\* What the flag package makes of a command line.
Flags ==
  [rate : [n : Int, unit : Nat \ {0}], probeRate : [n : Int, unit : Nat \ {0}],
   port : Int, packetSize : Int, maxHops : Int, duration : Int, interval : Int,
   trace : Modes, stream : Modes, corroborate : Modes, hopProbe : Modes]

ASSUME SessionAssumption ==
  /\ 0 \notin FlowIDs
  /\ \A f \in FlowIDs : \E g \in FlowIDs : f # g
  /\ FlagSets \subseteq Flags

VARIABLES
  flags, server,
  hello,    \* what was sent, None before
  decided,  \* the server's Ready, None before and when it refused
  refused,  \* why it refused
  outcome   \* what the client made of the Ready, None before

None == <<>>

agreeVars == <<flags, server, hello, decided, refused, outcome>>
vars == <<agreeVars, pathVars, streamVars>>

Init ==
  /\ flags \in {f \in FlagSets : FlagsAccepted(f)} /\ server \in Servers
  /\ hello = None /\ decided = None /\ refused = {} /\ outcome = None
  /\ PathInit /\ StreamInit

\* traceRun: two flow ids, minted until they differ, and the Hello.
SendHello ==
  /\ hello = None
  /\ \E id, rev \in FlowIDs :
       /\ id # rev
       /\ hello' = HelloOf(flags, id, rev)
  /\ UNCHANGED <<flags, server, decided, refused, outcome, pathVars, streamVars>>

\* handleSession up to Ready: validated, decided, the flow id registered.
Answer ==
  /\ hello # None /\ decided = None /\ refused = {}
  /\ refused' = Refusals(hello, server)
  /\ decided' = IF refused' = {} THEN Decisions(hello, server) ELSE None
  /\ UNCHANGED <<flags, server, hello, outcome, pathVars, streamVars>>

\* Another session has the flow id.
Collision ==
  /\ hello # None /\ decided = None /\ refused = {}
  /\ Refusals(hello, server) = {}
  /\ refused' = {"collision"}
  /\ UNCHANGED <<flags, server, hello, decided, outcome, pathVars, streamVars>>

\* traceRun reads Ready; SetReversePathStatus.
ReadReady ==
  /\ decided # None /\ outcome = None
  /\ outcome' = Outcome(flags, hello, decided)
  /\ reverseStatus' = outcome'.status
  /\ UNCHANGED <<flags, server, hello, decided, refused, path, terminus, revSnaps,
                 forwarder, pathWire, reverseHops, forwarded, answers, streamVars>>

Running == decided # None /\ [flags |-> flags, server |-> server] \in Followed

PathNext ==
  /\ Running
  /\ \/ decided.trace /\ ServerPathNext
     \/ outcome # None /\ IngestHop
  /\ UNCHANGED <<agreeVars, streamVars>>

StreamNext ==
  /\ Running
  /\ \/ decided.stream /\ (ServerStreamNext \/ StreamTick)
     \/ outcome # None /\ outcome.stream /\ ClientStreamNext
  /\ UNCHANGED <<agreeVars, pathVars>>

Next == SendHello \/ Answer \/ Collision \/ ReadReady \/ PathNext \/ StreamNext

Spec == Init /\ [][Next]_vars

-----------------------------------------------------------------------------
(* Properties. *)

\* trace.go:504-551, 729-738, serve.go:313-366, 480-567, 912-937: neither side
\* waits for what the other does not serve.  The client opens a receiver for the
\* reverse stream exactly when the server sends one, under the flow id the server
\* stamps; the path's status says that it is walked when it is; the server walks
\* with TCP only for a client that asked for it, to the port it named.  Whoever
\* may send a probe dials one, with the rate the server holds it to; and a probe
\* is dialled that is not let in only if the client has no IPv4 address: such a
\* client is told that its probe is welcome (ProbesAreWelcome, below).
BothSidesAgree ==
  outcome # None =>
    /\ outcome.stream = decided.stream
    /\ outcome.stream => decided.reverseFlowID = hello.reverseFlowID
    /\ outcome.status = "ok" <=> decided.trace
    /\ reverseStatus = "terminated_at_nat" => decided.trace
    /\ decided.hopProbe => flags.hopProbe = "on" /\ hello.port = flags.port
    /\ ProbeLetIn(decided, server) => outcome.dial
    /\ outcome.dial => /\ hello.probeRate = Rate(flags.probeRate)
                       /\ ProbeLetIn(decided, server) \/ ~server.ipv4

\* What control/messages.go:141-143 says of Ready.TCPCorroborate: it is "on" if
\* the server is prepared to accept a probe connection for this session.
ProbesAreWelcome ==
  decided # None /\ decided.corroborate => ProbeLetIn(decided, server)

\* trace.go:105-234, serve.go:820-884: a command line the client accepts is
\* refused only for a limit of the server's or a taken flow id, or because it
\* asks for less than a millisecond; and a reverse hop prober has a port.
AcceptedFlagsServed ==
  /\ refused \subseteq {"collision", "duration cap", "rate cap", "probe rate cap"}
       \cup (IF flags.duration < TicksPerMS THEN {"duration"} ELSE {})
  /\ decided # None /\ decided.hopProbe => hello.port \in 1 .. MaxPort
=============================================================================
