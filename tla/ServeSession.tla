------------------------------ MODULE ServeSession ------------------------------
(***************************************************************************)
(* cmd/dropline/serve.go and internal/control/server.go: the accept loop,  *)
(* admission, the life of a control session with its goroutines, and the   *)
(* TCP probe connections that live under it.                               *)
(*                                                                         *)
(* One Client is one control connection.  Conn.Send holds writeMu for the  *)
(* whole frame, so a Send is one step; it may fail (WriteTimeout, reset)   *)
(* whenever the peer is not reading, leaving part of a frame behind.       *)
(* Receiver.Run is HubReceiver's; here it is known to return once the      *)
(* session's context is done.  A snapshot may wait for a forwarder at any  *)
(* time: the tick and the probers are not modelled, nor is what the        *)
(* messages say.                                                           *)
(***************************************************************************)
EXTENDS Integers, Sequences, FiniteSets

CONSTANTS
  Clients,      \* control connections
  FlowOf,       \* the flow id of each client's Hello
  Forwarders,   \* "stats" and the reverse-hop forwarders a session starts
  ReverseOn,    \* clients whose reverse stream is resolved to "on"
  Probes,       \* TCP probe connections
  ProbeOf,      \* the client whose session_id a probe names
  ProbeOn,      \* clients that negotiated tcp_corroborate = "on"
  MaxSessions,  \* session slots; also the probe slots (maxProbes)
  MaxPending,   \* MaxPendingConns
  MaxBatch,     \* bound: hops in each prober snapshot
  MaxWire,      \* bound: frames on the wire before forwarders fall idle
  MaxSent       \* bound: packets a reverse stream sends

ASSUME ServeAssumption ==
  /\ FlowOf \in [Clients -> {FlowOf[c] : c \in Clients}]
  /\ "stats" \in Forwarders
  /\ ReverseOn \subseteq Clients /\ ProbeOn \subseteq Clients
  /\ ProbeOf \in [Probes -> Clients]
  /\ MaxSessions \in Nat \ {0} /\ MaxPending \in Nat \ {0}
  /\ MaxBatch \in Nat \ {0} /\ MaxWire \in Nat /\ MaxSent \in Nat

VARIABLES
  shutdown,  \* the server's context is done
  peer,      \* the other end of a connection: "reading", "stalled", "closed"
  main,      \* where the connection's handler is
  slots,     \* clients holding a session slot (sem)
  flows,     \* clients whose flow id is registered on the hub
  registry,  \* clients in the sessionRegistry
  ctx,       \* the session context: "none", "live", "done"
  recv,      \* the receive goroutine: "off", "reading", "gone"
  fwd,       \* forwarders: [pc : "off", "idle", "sending", "exited", left]
  rev,       \* runReverseStream: "off", "waiting", "sending", "done"
  revSent,   \* packets the reverse sender sent
  revStored, \* the count it published on exit
  probe,     \* probe handlers: "none", "pending", "looked", "reading", "gone"
  wire,      \* the frames put on each connection, in order
  failed,    \* history: clients on whose connection a forwarder's Send failed
  finalRev   \* history: the ReverseSent a Final carried (-1: no Final yet)

vars == <<shutdown, peer, main, slots, flows, registry, ctx, recv, fwd, rev,
          revSent, revStored, probe, wire, failed, finalRev>>

\* Groups of variables a step leaves alone.
resources == <<slots, flows, registry>>
goroutines == <<recv, fwd, rev, revSent, revStored>>
history == <<failed, finalRev>>

Unwinding == {"unpublish", "uncancel", "unregister", "unslot", "close"}
MainPCs == {"none", "pending", "hello", "turnaway", "validate", "register",
            "refuse", "publish", "announce", "running", "joining", "finalize",
            "gone"} \cup Unwinding
NotStarted == [pc |-> "off", left |-> 0]

Init ==
  /\ shutdown = FALSE
  /\ peer = [c \in Clients |-> "reading"]
  /\ main = [c \in Clients |-> "none"]
  /\ slots = {} /\ flows = {} /\ registry = {}
  /\ ctx = [c \in Clients |-> "none"]
  /\ recv = [c \in Clients |-> "off"]
  /\ fwd = [c \in Clients |-> [w \in Forwarders |-> NotStarted]]
  /\ rev = [c \in Clients |-> "off"]
  /\ revSent = [c \in Clients |-> 0]
  /\ revStored = [c \in Clients |-> 0]
  /\ probe = [p \in Probes |-> "none"]
  /\ wire = [c \in Clients |-> <<>>]
  /\ failed = {}
  /\ finalRev = [c \in Clients |-> -1]

-----------------------------------------------------------------------------
Goto(c, pc) == main' = [main EXCEPT ![c] = pc]

\* A context that is cancelled, or whose deadline passes, stays done.
CancelCtx(c) == ctx' = [ctx EXCEPT ![c] = IF @ = "live" THEN "done" ELSE @]

\* Conn.Send.  A failed Send may have written part of the frame.
SendOK(c, msg) == wire' = [wire EXCEPT ![c] = Append(@, msg)]

SendFails(c) ==
  /\ peer[c] # "reading"
  /\ wire' \in {wire, [wire EXCEPT ![c] = Append(@, "torn")]}

Connections ==
  {c \in Clients : main[c] \notin {"none", "gone"}}
    \cup {p \in Probes : probe[p] \notin {"none", "gone"}}

\* A place among the connections being handled.
PendingFree == Cardinality(Connections) < MaxPending

-----------------------------------------------------------------------------
(* The accept loop and the handler up to Ready. *)

\* Serve: a connection takes a pending slot for as long as it is handled, or
\* is closed at once when none is free.
Accept(c) ==
  /\ main[c] = "none"
  /\ ~shutdown
  /\ Goto(c, IF PendingFree THEN "pending" ELSE "gone")
  /\ UNCHANGED <<shutdown, peer, resources, ctx, goroutines, probe, wire,
                 history>>

\* handle: the Hello arrives ...
ReadHello(c) ==
  /\ main[c] = "pending"
  /\ Goto(c, "hello")
  /\ UNCHANGED <<shutdown, peer, resources, ctx, goroutines, probe, wire,
                 history>>

\* ... or HelloReadTimeout passes, or the peer hangs up.
HelloTimeout(c) ==
  /\ main[c] = "pending"
  /\ Goto(c, "gone")
  /\ UNCHANGED <<shutdown, peer, resources, ctx, goroutines, probe, wire,
                 history>>

\* ... or a first message that opens neither a session nor a probe.
ReadOther(c) ==
  /\ main[c] = "pending"
  /\ Goto(c, "turnaway")
  /\ UNCHANGED <<shutdown, peer, resources, ctx, goroutines, probe, wire,
                 history>>

\* The non-blocking send on the session semaphore has room.
SlotFree == Cardinality(slots) < MaxSessions

\* newServeHandler: take a session slot without waiting for one.
Admit(c) ==
  /\ main[c] = "hello"
  /\ IF SlotFree
     THEN slots' = slots \cup {c} /\ Goto(c, "validate")
     ELSE slots' = slots /\ Goto(c, "turnaway")
  /\ UNCHANGED <<shutdown, peer, flows, registry, ctx, goroutines, probe, wire,
                 history>>

\* validateHello finds the Hello good or bad.
ValidateHello(c) ==
  /\ main[c] = "validate"
  /\ Goto(c, "register") \/ Goto(c, "refuse")
  /\ UNCHANGED <<shutdown, peer, resources, ctx, goroutines, probe, wire,
                 history>>

FlowTaken(c) == \E d \in flows : FlowOf[d] = FlowOf[c]

\* hub.TryRegister: a collision is refused before Ready.
Register(c) ==
  /\ main[c] = "register"
  /\ IF FlowTaken(c)
     THEN flows' = flows /\ Goto(c, "refuse")
     ELSE flows' = flows \cup {c} /\ Goto(c, "publish")
  /\ UNCHANGED <<shutdown, peer, slots, registry, ctx, goroutines, probe, wire,
                 history>>

\* Error replies.  Turned away (no slot was free, or no Hello came) the client
\* holds no slot; refused later, it does.
Refuse(c) ==
  /\ main[c] \in {"turnaway", "refuse"}
  /\ SendOK(c, "error") \/ SendFails(c)
  /\ Goto(c, IF main[c] = "turnaway" THEN "close" ELSE "unslot")
  /\ UNCHANGED <<shutdown, peer, resources, ctx, goroutines, probe, history>>

\* Slip: the session is not in the registry when Ready goes out.
PublishLate(c) ==
  /\ main[c] = "publish"
  /\ ctx' = [ctx EXCEPT ![c] = IF shutdown THEN "done" ELSE "live"]
  /\ Goto(c, "announce")
  /\ UNCHANGED <<shutdown, peer, resources, goroutines, probe, wire, history>>

\* WithTimeout under the server's context, then reg.add, both before Ready.
Publish(c) ==
  /\ main[c] = "publish"
  /\ ctx' = [ctx EXCEPT ![c] = IF shutdown THEN "done" ELSE "live"]
  /\ registry' = registry \cup {c}
  /\ Goto(c, "announce")
  /\ UNCHANGED <<shutdown, peer, slots, flows, goroutines, probe, wire, history>>

\* Ready is sent and the session's goroutines start; a reverse-hop forwarder
\* whose prober cannot be opened does not.
Announce(c) ==
  /\ main[c] = "announce"
  /\ SendOK(c, "ready")
  /\ Goto(c, "running")
  /\ recv' = [recv EXCEPT ![c] = "reading"]
  /\ \E on \in SUBSET Forwarders :
       /\ "stats" \in on
       /\ fwd' = [fwd EXCEPT ![c] =
            [w \in Forwarders |->
               [pc |-> IF w \in on THEN "idle" ELSE "exited", left |-> 0]]]
  /\ rev' = [rev EXCEPT ![c] = IF c \in ReverseOn THEN "waiting" ELSE "off"]
  /\ UNCHANGED <<shutdown, peer, resources, ctx, revSent, revStored, probe,
                 history>>

AnnounceFails(c) ==
  /\ main[c] = "announce"
  /\ SendFails(c)
  /\ Goto(c, "unpublish")
  /\ UNCHANGED <<shutdown, peer, resources, ctx, goroutines, probe, history>>

-----------------------------------------------------------------------------
(* The running session. *)

\* The receive goroutine: any message, or the end of the stream, cancels.
RecvFires(c) ==
  /\ recv[c] = "reading"
  /\ recv' = [recv EXCEPT ![c] = "gone"]
  /\ CancelCtx(c)
  /\ UNCHANGED <<shutdown, peer, main, resources, fwd, rev, revSent, revStored,
                 probe, wire, history>>

Deadline(c) ==
  /\ ctx[c] = "live"
  /\ CancelCtx(c)
  /\ UNCHANGED <<shutdown, peer, main, resources, goroutines, probe, wire,
                 history>>

\* A forwarder picks up a snapshot: one frame, or one per hop.
FwdTake(c, w) ==
  /\ fwd[c][w].pc = "idle"
  /\ Len(wire[c]) < MaxWire
  /\ fwd' = [fwd EXCEPT ![c][w] =
       [pc |-> "sending", left |-> IF w = "stats" THEN 1 ELSE MaxBatch]]
  /\ UNCHANGED <<shutdown, peer, main, resources, ctx, recv, rev, revSent,
                 revStored, probe, wire, history>>

\* A forwarder after a frame.
AfterFrame(f) ==
  [pc |-> IF f.left = 1 THEN "idle" ELSE "sending", left |-> f.left - 1]

FwdSend(c, w) ==
  /\ fwd[c][w].pc = "sending"
  /\ SendOK(c, IF w = "stats" THEN "stats" ELSE "hop")
  /\ fwd' = [fwd EXCEPT ![c][w] = AfterFrame(@)]
  /\ UNCHANGED <<shutdown, peer, main, resources, ctx, recv, rev, revSent,
                 revStored, probe, history>>

\* Slip: the forwarder gives up and the session runs on.
EndQuietly(c) == UNCHANGED ctx
EndSession(c) == CancelCtx(c)

\* The first failed Send ends the forwarder and cancels the session.
FwdFails(c, w) ==
  /\ fwd[c][w].pc = "sending"
  /\ SendFails(c)
  /\ fwd' = [fwd EXCEPT ![c][w] = [pc |-> "exited", left |-> 0]]
  /\ EndSession(c)
  /\ failed' = failed \cup {c}
  /\ UNCHANGED <<shutdown, peer, main, resources, recv, rev, revSent,
                 revStored, probe, finalRev>>

FwdExit(c, w) ==
  /\ fwd[c][w].pc = "idle"
  /\ ctx[c] = "done"
  /\ fwd' = [fwd EXCEPT ![c][w].pc = "exited"]
  /\ UNCHANGED <<shutdown, peer, main, resources, ctx, recv, rev, revSent,
                 revStored, probe, wire, history>>

\* runReverseStream: wait for the first forward packet, send, publish.
RevStart(c) ==
  /\ rev[c] = "waiting"
  /\ rev' = [rev EXCEPT ![c] = "sending"]
  /\ UNCHANGED <<shutdown, peer, main, resources, ctx, recv, fwd, revSent,
                 revStored, probe, wire, history>>

RevSend(c) ==
  /\ rev[c] = "sending"
  /\ revSent[c] < MaxSent
  /\ revSent' = [revSent EXCEPT ![c] = @ + 1]
  /\ UNCHANGED <<shutdown, peer, main, resources, ctx, recv, fwd, rev,
                 revStored, probe, wire, history>>

RevStop(c) ==
  /\ \/ rev[c] = "waiting" /\ ctx[c] = "done" /\ UNCHANGED revStored
     \/ rev[c] = "sending" /\ revStored' = [revStored EXCEPT ![c] = revSent[c]]
  /\ rev' = [rev EXCEPT ![c] = "done"]
  /\ UNCHANGED <<shutdown, peer, main, resources, ctx, recv, fwd, revSent,
                 probe, wire, history>>

-----------------------------------------------------------------------------
(* The end of the session. *)

\* rcv.Run returns; handleSession calls cancel.
RunReturns(c) ==
  /\ main[c] = "running"
  /\ ctx[c] = "done"
  /\ Goto(c, "joining")
  /\ UNCHANGED <<shutdown, peer, resources, ctx, goroutines, probe, wire,
                 history>>

\* Slips: only the stats forwarder is waited for; the reverse stream is not.
StatsExited(c) == fwd[c]["stats"].pc = "exited"
NoReverseWait(c) == TRUE

ForwardersExited(c) == \A w \in Forwarders : fwd[c][w].pc = "exited"
ReverseFinished(c) == rev[c] \in {"off", "done"}

\* <-forwarderDone, reverseWG.Wait, reverseStreamWG.Wait.
Join(c) ==
  /\ main[c] = "joining"
  /\ ForwardersExited(c)
  /\ ReverseFinished(c)
  /\ Goto(c, "finalize")
  /\ UNCHANGED <<shutdown, peer, resources, ctx, goroutines, probe, wire,
                 history>>

SendFinal(c) ==
  /\ main[c] = "finalize"
  /\ \/ SendOK(c, "final") /\ finalRev' = [finalRev EXCEPT ![c] = revStored[c]]
     \/ SendFails(c) /\ UNCHANGED finalRev
  /\ Goto(c, "unpublish")
  /\ UNCHANGED <<shutdown, peer, resources, ctx, goroutines, probe, failed>>

\* The deferred calls, last registered first: reg.remove, cancel, Release,
\* the slot, and in control.Server.handle the close and the pending slot.
\* Slip: the slot is given back before the flow.
SlotFirst == [unpublish |-> "uncancel", uncancel |-> "unslot",
              unslot |-> "unregister", unregister |-> "close", close |-> "gone"]
NextDeferred == [unpublish |-> "uncancel", uncancel |-> "unregister",
                 unregister |-> "unslot", unslot |-> "close", close |-> "gone"]
Unwind(c) == Goto(c, NextDeferred[main[c]])

Unpublish(c) ==
  /\ main[c] = "unpublish"
  /\ registry' = registry \ {c}
  /\ Unwind(c)
  /\ UNCHANGED <<shutdown, peer, slots, flows, ctx, goroutines, probe, wire,
                 history>>

Uncancel(c) ==
  /\ main[c] = "uncancel"
  /\ CancelCtx(c)
  /\ Unwind(c)
  /\ UNCHANGED <<shutdown, peer, resources, goroutines, probe, wire, history>>

Unregister(c) ==
  /\ main[c] = "unregister"
  /\ flows' = flows \ {c}
  /\ Unwind(c)
  /\ UNCHANGED <<shutdown, peer, slots, registry, ctx, goroutines, probe, wire,
                 history>>

Unslot(c) ==
  /\ main[c] = "unslot"
  /\ slots' = slots \ {c}
  /\ Unwind(c)
  /\ UNCHANGED <<shutdown, peer, flows, registry, ctx, goroutines, probe, wire,
                 history>>

Close(c) ==
  /\ main[c] = "close"
  /\ Unwind(c)
  /\ UNCHANGED <<shutdown, peer, resources, ctx, goroutines, probe, wire,
                 history>>

-----------------------------------------------------------------------------
(* TCP probes. *)

\* The client opens a probe once Ready told it the session id.
ProbeAccept(p) ==
  /\ probe[p] = "none"
  /\ \E i \in DOMAIN wire[ProbeOf[p]] : wire[ProbeOf[p]][i] = "ready"
  /\ ~shutdown
  /\ probe' = [probe EXCEPT ![p] =
                 IF PendingFree THEN "pending" ELSE "gone"]
  /\ UNCHANGED <<shutdown, peer, main, resources, ctx, goroutines, wire, history>>

\* newProbeHandler: the lookup takes a copy of the session's state.
ProbeLookup(p) ==
  /\ probe[p] = "pending"
  /\ probe' = [probe EXCEPT ![p] =
                 IF ProbeOf[p] \in registry \cap ProbeOn THEN "looked"
                                                         ELSE "gone"]
  /\ UNCHANGED <<shutdown, peer, main, resources, ctx, goroutines, wire, history>>

Reading == {p \in Probes : probe[p] = "reading"}

\* The probe handler's own semaphore.
ProbeSlotFree == Cardinality(Reading) < MaxSessions

\* The probe slot, and a context under the session's, which may be done.
ProbeAdmit(p) ==
  /\ probe[p] = "looked"
  /\ probe' = [probe EXCEPT ![p] =
                 IF ProbeSlotFree THEN "reading" ELSE "gone"]
  /\ UNCHANGED <<shutdown, peer, main, resources, ctx, goroutines, wire, history>>

\* The probe's context: the session's; slip: only the server's.
ServerCtxDone(p) == shutdown
ProbeCtxDone(p) == ctx[ProbeOf[p]] = "done"

\* The context ends: the watcher closes the connection, the read returns.
ProbeCancelled(p) ==
  /\ probe[p] = "reading"
  /\ ProbeCtxDone(p)
  /\ probe' = [probe EXCEPT ![p] = "gone"]
  /\ UNCHANGED <<shutdown, peer, main, resources, ctx, goroutines, wire, history>>

\* The idle deadline, probeMaxLifetime, or the peer ends the probe; or its
\* first message never arrives.
ProbeEnds(p) ==
  /\ probe[p] \in {"pending", "reading"}
  /\ probe' = [probe EXCEPT ![p] = "gone"]
  /\ UNCHANGED <<shutdown, peer, main, resources, ctx, goroutines, wire, history>>

-----------------------------------------------------------------------------
(* The environment. *)

PeerChanges(c) ==
  /\ main[c] \notin {"none", "gone"}
  /\ peer[c] # "closed"
  /\ \E s \in {"reading", "stalled", "closed"} : peer' = [peer EXCEPT ![c] = s]
  /\ UNCHANGED <<shutdown, main, resources, ctx, goroutines, probe, wire,
                 history>>

Shutdown ==
  /\ ~shutdown
  /\ shutdown' = TRUE
  /\ ctx' = [c \in Clients |-> IF ctx[c] = "live" THEN "done" ELSE ctx[c]]
  /\ UNCHANGED <<peer, main, resources, goroutines, probe, wire, history>>

Main(c) ==
  \/ Admit(c) \/ ValidateHello(c) \/ Register(c) \/ Refuse(c) \/ Publish(c)
  \/ Announce(c) \/ AnnounceFails(c) \/ RunReturns(c) \/ Join(c) \/ SendFinal(c)
  \/ Unpublish(c) \/ Uncancel(c) \/ Unregister(c) \/ Unslot(c) \/ Close(c)

Forward(c, w) == FwdSend(c, w) \/ FwdFails(c, w) \/ FwdExit(c, w)

Next ==
  \/ Shutdown
  \/ \E c \in Clients :
       \/ Accept(c) \/ ReadHello(c) \/ HelloTimeout(c) \/ ReadOther(c)
       \/ Main(c)
       \/ RecvFires(c) \/ Deadline(c) \/ PeerChanges(c)
       \/ RevStart(c) \/ RevSend(c) \/ RevStop(c)
       \/ \E w \in Forwarders : FwdTake(c, w) \/ Forward(c, w)
  \/ \E p \in Probes : \/ ProbeAccept(p) \/ ProbeLookup(p) \/ ProbeAdmit(p)
                       \/ ProbeCancelled(p) \/ ProbeEnds(p)

\* The server's goroutines run; every Send ends, by WriteTimeout at the
\* latest; a reader notices a closed peer.  The session deadline is NOT
\* assumed to pass, nor the peer to read, so that a session that ends does so
\* for the reason the property names.
Fairness ==
  /\ \A c \in Clients :
       /\ WF_vars(Main(c))
       /\ WF_vars(RecvFires(c) /\ peer[c] = "closed")
       /\ WF_vars(RevStop(c))
       /\ \A w \in Forwarders :
            /\ WF_vars(FwdSend(c, w) \/ FwdFails(c, w))
            /\ SF_vars(FwdExit(c, w))
  /\ \A p \in Probes : WF_vars(ProbeAdmit(p)) /\ WF_vars(ProbeCancelled(p))

SafetySpec == Init /\ [][Next]_vars

Spec == SafetySpec /\ Fairness

-----------------------------------------------------------------------------
TypeOK ==
  /\ shutdown \in BOOLEAN
  /\ peer \in [Clients -> {"reading", "stalled", "closed"}]
  /\ main \in [Clients -> MainPCs]
  /\ slots \subseteq Clients /\ flows \subseteq Clients
  /\ registry \subseteq Clients
  /\ ctx \in [Clients -> {"none", "live", "done"}]
  /\ recv \in [Clients -> {"off", "reading", "gone"}]
  /\ fwd \in [Clients -> [Forwarders ->
                [pc : {"off", "idle", "sending", "exited"},
                 left : 0 .. MaxBatch]]]
  /\ rev \in [Clients -> {"off", "waiting", "sending", "done"}]
  /\ revSent \in [Clients -> 0 .. MaxSent]
  /\ revStored \in [Clients -> 0 .. MaxSent]
  /\ probe \in [Probes -> {"none", "pending", "looked", "reading", "gone"}]
  /\ wire \in [Clients ->
       Seq({"error", "ready", "stats", "hop", "final", "torn"})]
  /\ failed \subseteq Clients
  /\ finalRev \in [Clients -> -1 .. MaxSent]

(* Never more sessions or probe readers than slots, never more connections *)
(* handled than MaxPendingConns.                                           *)
WithinLimits ==
  /\ Cardinality(slots) <= MaxSessions
  /\ Cardinality(Reading) <= MaxSessions
  /\ Cardinality(Connections) <= MaxPending

(* Whoever gets a freed slot finds nothing of its last holder in the way:  *)
(* a registered flow, a registry entry or a live context belongs to a      *)
(* client that holds its slot, and no two clients hold the same flow id    *)
(* (the order of handleSession's deferred calls); types and limits hold.   *)
SlotCoversResources ==
  /\ TypeOK /\ WithinLimits
  /\ flows \subseteq slots
  /\ registry \subseteq flows
  /\ \A c \in Clients : ctx[c] = "live" => c \in flows
  /\ \A c, d \in flows : FlowOf[c] = FlowOf[d] => c = d

SentTo(c, msg) == \E i \in DOMAIN wire[c] : wire[c][i] = msg

(* A client that was told Ready can act on it at once: until the session   *)
(* has sent its last message, its flow id is registered and its session id *)
(* can be looked up by a probe.                                            *)
ReadyMeansUsable ==
  \A c \in Clients :
    SentTo(c, "ready") /\ main[c] \notin Unwinding \cup {"gone"}
      => c \in registry /\ c \in flows

(* The conversation a client sees: Ready before any update, at most one    *)
(* terminal message, nothing after it, an Error only instead of Ready      *)
(* (forwarders are joined before Final).                                   *)
Conversation ==
  /\ WithinLimits
  /\ \A c \in Clients : \A i, j \in DOMAIN wire[c] : i < j =>
       /\ wire[c][i] \notin {"final", "error"}
       /\ wire[c][j] \notin {"ready", "error"}

(* Final reports every reverse packet that was sent: the sender stopped    *)
(* and published its count before Final was built.                         *)
FinalCountsReverse ==
  \A c \in Clients : finalRev[c] # -1 => finalRev[c] = revSent[c]

(* A session whose context is done, whose peer has gone, or on which a     *)
(* forwarder's Send failed gives its slot back without waiting for the     *)
(* session's deadline, however the peer behaves.                           *)
EndedSessionFreesSlot ==
  \A c \in Clients :
    (c \in slots /\ (ctx[c] = "done" \/ peer[c] = "closed" \/ c \in failed))
      ~> c \notin slots

(* A probe does not outlive its session, even if the session ended between *)
(* the probe's lookup and its admission.                                   *)
ProbeEndsWithSession ==
  \A p \in Probes :
    (probe[p] \in {"looked", "reading"} /\ main[ProbeOf[p]] = "gone")
      ~> probe[p] = "gone"
=============================================================================
