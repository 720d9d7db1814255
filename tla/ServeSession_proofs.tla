-------------------------- MODULE ServeSession_proofs --------------------------
(***************************************************************************)
(* Proofs about ServeSession, for any number of clients, probes and        *)
(* forwarders, any assignment of flow ids, any limits; and about the loops *)
(* it runs under, ServerLoops, for any back-off.                           *)
(***************************************************************************)
EXTENDS ServeSession, ServerLoops, FiniteSetTheorems, TLAPS

(***************************************************************************)
(* What a handler owns at each point of handleSession: the deferred calls  *)
(* give back in the reverse of the order the body takes.                   *)
(***************************************************************************)
BeforeReady == {"none", "pending", "hello", "turnaway", "validate", "register",
                "refuse", "publish", "announce"}
InSession == {"running", "joining", "finalize"}
HoldsRegistry == {"announce", "unpublish"} \cup InSession
HoldsFlow == {"publish", "uncancel", "unregister"} \cup HoldsRegistry
HoldsSlot == {"validate", "register", "refuse", "unslot"} \cup HoldsFlow

ResourceInv ==
  /\ \A c \in Clients :
       /\ c \in slots <=> main[c] \in HoldsSlot
       /\ c \in flows <=> main[c] \in HoldsFlow
       /\ c \in registry <=> main[c] \in HoldsRegistry
       /\ ctx[c] = "live" => main[c] \in HoldsRegistry \cup {"uncancel"}
  /\ \A c, d \in flows : FlowOf[c] = FlowOf[d] => c = d

(***************************************************************************)
(* No goroutine of a session runs before Ready or after the join.          *)
(***************************************************************************)
GoroutineInv ==
  \A c \in Clients :
    /\ main[c] \in BeforeReady =>
         /\ rev[c] = "off"
         /\ \A w \in Forwarders : fwd[c][w].pc = "off"
    /\ main[c] \in {"finalize", "gone"} \cup Unwinding =>
         /\ ReverseFinished(c)
         /\ \A w \in Forwarders : fwd[c][w].pc \in {"off", "exited"}
    /\ \A w \in Forwarders : fwd[c][w].pc = "sending" => fwd[c][w].left # 0

(***************************************************************************)
(* The reverse sender's count and the copies made of it.                   *)
(***************************************************************************)
ReverseInv ==
  \A c \in Clients :
    /\ rev[c] \in {"off", "waiting"} => revSent[c] = 0
    /\ rev[c] # "sending" => revStored[c] = revSent[c]
    /\ finalRev[c] # -1 => /\ main[c] \in Unwinding \cup {"gone"}
                           /\ finalRev[c] = revSent[c]

(***************************************************************************)
(* Nothing is sent before the reply to Hello, and nothing that ends the    *)
(* conversation before the deferred calls begin.                           *)
(***************************************************************************)
Ordered(q) ==
  \A i, j \in DOMAIN q : i < j =>
    /\ q[i] \notin {"final", "error"}
    /\ q[j] \notin {"ready", "error"}

WireInv ==
  \A c \in Clients :
    /\ main[c] \in BeforeReady => wire[c] = <<>>
    /\ main[c] \in InSession => ~SentTo(c, "final") /\ ~SentTo(c, "error")
    /\ Ordered(wire[c])

LimitsInv ==
  /\ IsFiniteSet(slots) /\ IsFiniteSet(Reading) /\ IsFiniteSet(Connections)
  /\ WithinLimits

IInv ==
  /\ TypeOK
  /\ ResourceInv
  /\ GoroutineInv
  /\ ReverseInv
  /\ WireInv
  /\ LimitsInv

-----------------------------------------------------------------------------
Frames == {"error", "ready", "stats", "hop", "final", "torn"}

\* A sender that may only say what the conversation allows next.
LEMMA AppendOrdered ==
  ASSUME NEW q \in Seq(Frames), NEW msg \in Frames, Ordered(q),
         \A i \in DOMAIN q : q[i] \notin {"final", "error"},
         q = <<>> \/ msg \notin {"ready", "error"}
  PROVE  /\ Append(q, msg) \in Seq(Frames)
         /\ Ordered(Append(q, msg))
         /\ \A i \in DOMAIN Append(q, msg) :
              Append(q, msg)[i] = msg \/ \E j \in DOMAIN q : q[j] = Append(q, msg)[i]
<1>1. /\ Append(q, msg) \in Seq(Frames) /\ Len(q) \in Nat
      /\ DOMAIN q = 1 .. Len(q) /\ DOMAIN Append(q, msg) = 1 .. Len(q) + 1
      /\ \A i \in 1 .. Len(q) : Append(q, msg)[i] = q[i]
      /\ Append(q, msg)[Len(q) + 1] = msg
  OBVIOUS
<1>2. \A i \in 1 .. Len(q) + 1 : i \in 1 .. Len(q) \/ i = Len(q) + 1
  BY <1>1
<1>3. Ordered(Append(q, msg))
  <2>1. SUFFICES ASSUME NEW i \in 1 .. Len(q) + 1, NEW j \in 1 .. Len(q) + 1, i < j
                 PROVE  /\ Append(q, msg)[i] \notin {"final", "error"}
                        /\ Append(q, msg)[j] \notin {"ready", "error"}
    BY <1>1 DEF Ordered
  <2>2. i \in 1 .. Len(q)
    BY <1>1, <2>1
  <2>3. q # <<>>
    BY <1>1, <2>2
  <2>4. CASE j \in 1 .. Len(q)
    BY <1>1, <2>1, <2>2, <2>4 DEF Ordered
  <2>5. CASE j = Len(q) + 1
    BY <1>1, <2>2, <2>3, <2>5
  <2> QED BY <1>2, <2>4, <2>5
<1> QED BY <1>1, <1>2, <1>3

LEMMA SendType ==
  ASSUME TypeOK, NEW c \in Clients, NEW msg \in Frames,
         SendOK(c, msg) \/ SendFails(c)
  PROVE  wire' \in [Clients -> Seq(Frames)]
<1>1. wire \in [Clients -> Seq(Frames)]
  BY DEF TypeOK, Frames
<1>2. Append(wire[c], msg) \in Seq(Frames) /\ Append(wire[c], "torn") \in Seq(Frames)
  BY <1>1 DEF Frames
<1> QED BY <1>1, <1>2 DEF SendOK, SendFails

\* A Send, whether it succeeds or leaves part of a frame behind.
LEMMA SendEffect ==
  ASSUME TypeOK, WireInv, NEW c \in Clients, NEW msg \in Frames,
         SendOK(c, msg) \/ SendFails(c),
         ~SentTo(c, "final"), ~SentTo(c, "error"),
         wire[c] = <<>> \/ msg \notin {"ready", "error"}
  PROVE  /\ wire' \in [Clients -> Seq(Frames)]
         /\ Ordered(wire'[c])
         /\ \A d \in Clients \ {c} : wire'[d] = wire[d]
         /\ \A i \in DOMAIN wire'[c] :
              \/ wire'[c][i] \in {msg, "torn"}
              \/ \E j \in DOMAIN wire[c] : wire[c][j] = wire'[c][i]
<1>1. wire \in [Clients -> Seq(Frames)]
  BY DEF TypeOK, Frames
<1>2. Ordered(wire[c])
  BY DEF WireInv
<1>3. \A i \in DOMAIN wire[c] : wire[c][i] \notin {"final", "error"}
  BY DEF SentTo
<1>4. wire[c] \in Seq(Frames)
  BY <1>1
<1>5. CASE wire' = wire
  BY <1>1, <1>2, <1>5
<1>6. ASSUME NEW m \in {msg, "torn"}, wire' = [wire EXCEPT ![c] = Append(@, m)]
      PROVE  /\ wire' \in [Clients -> Seq(Frames)]
             /\ Ordered(wire'[c])
             /\ \A d \in Clients \ {c} : wire'[d] = wire[d]
             /\ \A i \in DOMAIN wire'[c] :
                  \/ wire'[c][i] = m
                  \/ \E j \in DOMAIN wire[c] : wire[c][j] = wire'[c][i]
  <2>1. m \in Frames /\ (wire[c] = <<>> \/ m \notin {"ready", "error"})
    BY <1>6 DEF Frames
  <2>2. /\ Append(wire[c], m) \in Seq(Frames)
        /\ Ordered(Append(wire[c], m))
        /\ \A i \in DOMAIN Append(wire[c], m) :
             \/ Append(wire[c], m)[i] = m
             \/ \E j \in DOMAIN wire[c] : wire[c][j] = Append(wire[c], m)[i]
    BY <1>2, <1>3, <1>4, <2>1, AppendOrdered
  <2>3. wire'[c] = Append(wire[c], m)
    BY <1>1, <1>6
  <2>4. \A d \in Clients \ {c} : wire'[d] = wire[d]
    BY <1>1, <1>6
  <2>5. wire' \in [Clients -> Seq(Frames)]
    BY <1>1, <1>6, <2>2
  <2> QED BY <2>2, <2>3, <2>4, <2>5
<1>7. \/ wire' = wire
      \/ wire' = [wire EXCEPT ![c] = Append(@, msg)]
      \/ wire' = [wire EXCEPT ![c] = Append(@, "torn")]
  BY DEF SendOK, SendFails
<1>8. CASE wire' = [wire EXCEPT ![c] = Append(@, msg)]
  BY <1>6, <1>8
<1>9. CASE wire' = [wire EXCEPT ![c] = Append(@, "torn")]
  BY <1>6, <1>9
<1> QED BY <1>5, <1>7, <1>8, <1>9

ForwarderType == [pc : {"off", "idle", "sending", "exited"}, left : 0 .. MaxBatch]

\* One frame less to send, and back to idle after the last.
LEMMA AfterFrameEffect ==
  ASSUME NEW f \in ForwarderType, f.left # 0
  PROVE  /\ AfterFrame(f) \in ForwarderType
         /\ AfterFrame(f).pc \in {"idle", "sending"}
         /\ AfterFrame(f).pc = "sending" => AfterFrame(f).left # 0
<1>1. MaxBatch \in Nat /\ f.left \in 1 .. MaxBatch
  BY ServeAssumption DEF ForwarderType
<1>2. f.left - 1 \in 0 .. MaxBatch /\ (f.left # 1 => f.left - 1 # 0)
  BY <1>1
<1> QED BY <1>1, <1>2 DEF AfterFrame, ForwarderType

-----------------------------------------------------------------------------
(* What each action does to each part of the invariant. *)

\* Every step keeps the types; a forwarder in mid-batch has a frame left.
LEMMA TypeStep ==
  ASSUME TypeOK, GoroutineInv, [Next]_vars
  PROVE  TypeOK'
<1>1. CASE Shutdown
  BY <1>1, TypeOK DEF Shutdown, TypeOK, resources, goroutines, history
<1>2. ASSUME NEW c \in Clients, Accept(c)
      PROVE  TypeOK'
  BY <1>2, TypeOK
     DEF Accept, TypeOK, MainPCs, Unwinding, Goto, resources, goroutines,
         history
<1>3. ASSUME NEW c \in Clients, ReadHello(c)
      PROVE  TypeOK'
  BY <1>3, TypeOK
     DEF ReadHello, TypeOK, MainPCs, Unwinding, Goto, resources, goroutines,
         history
<1>4. ASSUME NEW c \in Clients, HelloTimeout(c)
      PROVE  TypeOK'
  BY <1>4, TypeOK
     DEF HelloTimeout, TypeOK, MainPCs, Unwinding, Goto, resources,
         goroutines, history
<1>5. ASSUME NEW c \in Clients, ReadOther(c)
      PROVE  TypeOK'
  BY <1>5, TypeOK
     DEF ReadOther, TypeOK, MainPCs, Unwinding, Goto, resources, goroutines,
         history
<1>6. ASSUME NEW c \in Clients, Admit(c)
      PROVE  TypeOK'
  <2>1. CASE SlotFree
    <3>1. slots' = slots \cup {c} /\ main' = [main EXCEPT ![c] = "validate"]
      BY <1>6, <2>1, Zenon DEF Admit, Goto
    <3> QED BY <1>6, <3>1 DEF TypeOK, MainPCs, Admit, goroutines, history
  <2>2. CASE ~SlotFree
    <3>1. slots' = slots /\ main' = [main EXCEPT ![c] = "turnaway"]
      BY <1>6, <2>2, Zenon DEF Admit, Goto
    <3> QED BY <1>6, <3>1 DEF TypeOK, MainPCs, Admit, goroutines, history
  <2> QED BY <2>1, <2>2
<1>7. ASSUME NEW c \in Clients, ValidateHello(c)
      PROVE  TypeOK'
  <2>1. PICK pc \in {"register", "refuse"} : Goto(c, pc)
    BY <1>7 DEF ValidateHello
  <2> QED BY <1>7, <2>1
     DEF TypeOK, MainPCs, ValidateHello, Goto, resources, goroutines, history
<1>8. ASSUME NEW c \in Clients, Register(c)
      PROVE  TypeOK'
  <2>1. CASE FlowTaken(c)
    <3>1. flows' = flows /\ main' = [main EXCEPT ![c] = "refuse"]
      BY <1>8, <2>1, Zenon DEF Register, Goto
    <3> QED BY <1>8, <3>1 DEF TypeOK, MainPCs, Register, goroutines, history
  <2>2. CASE ~FlowTaken(c)
    <3>1. flows' = flows \cup {c} /\ main' = [main EXCEPT ![c] = "publish"]
      BY <1>8, <2>2, Zenon DEF Register, Goto
    <3> QED BY <1>8, <3>1 DEF TypeOK, MainPCs, Register, goroutines, history
  <2> QED BY <2>1, <2>2
<1>9. ASSUME NEW c \in Clients, Refuse(c)
      PROVE  TypeOK'
  <2>1. main' \in [Clients -> MainPCs]
    BY <1>9 DEF TypeOK, Refuse, Goto, MainPCs, Unwinding
  <2>2. wire' \in [Clients -> Seq(Frames)]
    BY <1>9, SendType DEF Refuse, Frames
  <2> QED BY <1>9, <2>1, <2>2
     DEF TypeOK, Refuse, Frames, resources, goroutines, history
<1>10. ASSUME NEW c \in Clients, Publish(c)
      PROVE  TypeOK'
  BY <1>10, TypeOK
     DEF Publish, TypeOK, MainPCs, Unwinding, Goto, goroutines, history
<1>11. ASSUME NEW c \in Clients, Announce(c)
      PROVE  TypeOK'
  <2>1. /\ main' \in [Clients -> MainPCs]
        /\ recv' \in [Clients -> {"off", "reading", "gone"}]
        /\ rev' \in [Clients -> {"off", "waiting", "sending", "done"}]
    BY <1>11 DEF TypeOK, Announce, Goto, MainPCs, Unwinding
  <2>2. wire' \in [Clients -> Seq(Frames)]
    BY <1>11, SendType DEF Announce, Frames
  <2>3. fwd' \in [Clients -> [Forwarders -> ForwarderType]]
    <3>1. PICK on \in SUBSET Forwarders :
            fwd' = [fwd EXCEPT ![c] =
              [w \in Forwarders |->
                [pc |-> IF w \in on THEN "idle" ELSE "exited", left |-> 0]]]
      BY <1>11 DEF Announce
    <3>2. \A w \in Forwarders :
            [pc |-> IF w \in on THEN "idle" ELSE "exited", left |-> 0]
              \in ForwarderType
      BY ServeAssumption DEF ForwarderType
    <3> QED BY <3>1, <3>2 DEF TypeOK, ForwarderType
  <2> QED BY <1>11, <2>1, <2>2, <2>3
     DEF TypeOK, Announce, ForwarderType, Frames, resources, history
<1>12. ASSUME NEW c \in Clients, AnnounceFails(c)
      PROVE  TypeOK'
  <2>1. main' \in [Clients -> MainPCs]
    BY <1>12 DEF TypeOK, AnnounceFails, Goto, MainPCs, Unwinding
  <2>2. wire' \in [Clients -> Seq(Frames)]
    BY <1>12, SendType DEF AnnounceFails, Frames
  <2> QED BY <1>12, <2>1, <2>2
     DEF TypeOK, AnnounceFails, Frames, resources, goroutines, history
<1>13. ASSUME NEW c \in Clients, RunReturns(c)
      PROVE  TypeOK'
  BY <1>13, TypeOK
     DEF RunReturns, TypeOK, MainPCs, Unwinding, Goto, resources, goroutines,
         history
<1>14. ASSUME NEW c \in Clients, Join(c)
      PROVE  TypeOK'
  BY <1>14, TypeOK
     DEF Join, TypeOK, MainPCs, Unwinding, Goto, resources, goroutines,
         history
<1>15. ASSUME NEW c \in Clients, SendFinal(c)
      PROVE  TypeOK'
  <2>1. main' \in [Clients -> MainPCs]
    BY <1>15 DEF TypeOK, SendFinal, Goto, MainPCs, Unwinding
  <2>2. wire' \in [Clients -> Seq(Frames)]
    BY <1>15, SendType DEF SendFinal, Frames
  <2>3. finalRev' \in [Clients -> -1 .. MaxSent]
    <3>1. revStored[c] \in -1 .. MaxSent
      BY ServeAssumption DEF TypeOK
    <3> QED BY <1>15, <3>1 DEF TypeOK, SendFinal
  <2> QED BY <1>15, <2>1, <2>2, <2>3
     DEF TypeOK, SendFinal, Frames, resources, goroutines
<1>16. ASSUME NEW c \in Clients, Unpublish(c)
      PROVE  TypeOK'
  <2>1. main' \in [Clients -> MainPCs]
    BY <1>16
       DEF TypeOK, Unpublish, Goto, MainPCs, Unwinding, Unwind, NextDeferred
  <2> QED BY <1>16, <2>1 DEF TypeOK, Unpublish, goroutines, history
<1>17. ASSUME NEW c \in Clients, Uncancel(c)
      PROVE  TypeOK'
  <2>1. main' \in [Clients -> MainPCs]
    BY <1>17
       DEF TypeOK, Uncancel, Goto, MainPCs, Unwinding, Unwind, NextDeferred
  <2> QED BY <1>17, <2>1
     DEF TypeOK, Uncancel, CancelCtx, resources, goroutines, history
<1>18. ASSUME NEW c \in Clients, Unregister(c)
      PROVE  TypeOK'
  <2>1. main' \in [Clients -> MainPCs]
    BY <1>18
       DEF TypeOK, Unregister, Goto, MainPCs, Unwinding, Unwind,
           NextDeferred
  <2> QED BY <1>18, <2>1 DEF TypeOK, Unregister, goroutines, history
<1>19. ASSUME NEW c \in Clients, Unslot(c)
      PROVE  TypeOK'
  <2>1. main' \in [Clients -> MainPCs]
    BY <1>19 DEF TypeOK, Unslot, Goto, MainPCs, Unwinding, Unwind, NextDeferred
  <2> QED BY <1>19, <2>1 DEF TypeOK, Unslot, goroutines, history
<1>20. ASSUME NEW c \in Clients, Close(c)
      PROVE  TypeOK'
  <2>1. main' \in [Clients -> MainPCs]
    BY <1>20 DEF TypeOK, Close, Goto, MainPCs, Unwinding, Unwind, NextDeferred
  <2> QED BY <1>20, <2>1 DEF TypeOK, Close, resources, goroutines, history
<1>21. ASSUME NEW c \in Clients, RecvFires(c)
      PROVE  TypeOK'
  BY <1>21, TypeOK DEF RecvFires, TypeOK, CancelCtx, resources, history
<1>22. ASSUME NEW c \in Clients, Deadline(c)
      PROVE  TypeOK'
  BY <1>22, TypeOK
     DEF Deadline, TypeOK, CancelCtx, resources, goroutines, history
<1>23. ASSUME NEW c \in Clients, PeerChanges(c)
      PROVE  TypeOK'
  BY <1>23, TypeOK DEF PeerChanges, TypeOK, resources, goroutines, history
<1>24. ASSUME NEW c \in Clients, RevStart(c)
      PROVE  TypeOK'
  BY <1>24, TypeOK DEF RevStart, TypeOK, resources, history
<1>25. ASSUME NEW c \in Clients, RevSend(c)
      PROVE  TypeOK'
  <2>1. PICK n \in 0 .. MaxSent : n = revSent[c] + 1
    <3>1. revSent[c] \in 0 .. MaxSent /\ revSent[c] < MaxSent
      BY <1>25 DEF TypeOK, RevSend
    <3> QED BY <3>1, ServeAssumption
  <2> QED BY <1>25, <2>1 DEF TypeOK, RevSend, resources, history
<1>26. ASSUME NEW c \in Clients, RevStop(c)
      PROVE  TypeOK'
  <2>1. revStored' \in [Clients -> 0 .. MaxSent]
    BY <1>26 DEF TypeOK, RevStop
  <2>2. rev' \in [Clients -> {"off", "waiting", "sending", "done"}]
    BY <1>26 DEF TypeOK, RevStop
  <2> QED BY <1>26, <2>1, <2>2 DEF TypeOK, RevStop, resources, history
<1>27. ASSUME NEW c \in Clients, NEW w \in Forwarders, FwdTake(c, w)
      PROVE  TypeOK'
  <2>1. PICK r \in ForwarderType : fwd' = [fwd EXCEPT ![c][w] = r]
    <3>1. [pc |-> "sending", left |-> IF w = "stats" THEN 1 ELSE MaxBatch]
            \in ForwarderType
      BY ServeAssumption DEF ForwarderType
    <3> QED BY <1>27, <3>1 DEF FwdTake
  <2>2. fwd' \in [Clients -> [Forwarders -> ForwarderType]]
    BY <2>1 DEF TypeOK, ForwarderType
  <2> QED BY <1>27, <2>2 DEF TypeOK, FwdTake, ForwarderType, resources, history
<1>28. ASSUME NEW c \in Clients, NEW w \in Forwarders, FwdSend(c, w)
      PROVE  TypeOK'
  <2>1. PICK r \in ForwarderType : fwd' = [fwd EXCEPT ![c][w] = r]
    <3>1. fwd[c][w] \in ForwarderType /\ fwd[c][w].left # 0
      BY <1>28 DEF TypeOK, GoroutineInv, FwdSend, ForwarderType
    <3> QED BY <1>28, <3>1, AfterFrameEffect DEF FwdSend
  <2>2. fwd' \in [Clients -> [Forwarders -> ForwarderType]]
    BY <2>1 DEF TypeOK, ForwarderType
  <2>3. wire' \in [Clients -> Seq(Frames)]
    BY <1>28, SendType DEF FwdSend, Frames
  <2> QED BY <1>28, <2>2, <2>3
     DEF TypeOK, FwdSend, ForwarderType, Frames, resources, history
<1>29. ASSUME NEW c \in Clients, NEW w \in Forwarders, FwdFails(c, w)
      PROVE  TypeOK'
  <2>1. PICK r \in ForwarderType : fwd' = [fwd EXCEPT ![c][w] = r]
    <3>1. [pc |-> "exited", left |-> 0] \in ForwarderType
      BY ServeAssumption DEF ForwarderType
    <3> QED BY <1>29, <3>1 DEF FwdFails
  <2>2. fwd' \in [Clients -> [Forwarders -> ForwarderType]]
    BY <2>1 DEF TypeOK, ForwarderType
  <2>3. wire' \in [Clients -> Seq(Frames)]
    BY <1>29, SendType DEF FwdFails, Frames
  <2>4. ctx' \in [Clients -> {"none", "live", "done"}]
    BY <1>29 DEF TypeOK, FwdFails, EndSession, CancelCtx
  <2> QED BY <1>29, <2>2, <2>3, <2>4
     DEF TypeOK, FwdFails, ForwarderType, Frames, resources
<1>30. ASSUME NEW c \in Clients, NEW w \in Forwarders, FwdExit(c, w)
      PROVE  TypeOK'
  <2>1. PICK r \in ForwarderType : fwd' = [fwd EXCEPT ![c][w] = r]
    <3>1. fwd[c][w] \in ForwarderType
      BY DEF TypeOK, ForwarderType
    <3>2. [fwd[c][w] EXCEPT !.pc = "exited"] \in ForwarderType
      BY <3>1 DEF ForwarderType
    <3> QED BY <1>30, <3>2 DEF FwdExit
  <2>2. fwd' \in [Clients -> [Forwarders -> ForwarderType]]
    BY <2>1 DEF TypeOK, ForwarderType
  <2> QED BY <1>30, <2>2 DEF TypeOK, FwdExit, ForwarderType, resources, history
<1>31. ASSUME NEW p \in Probes, ProbeAccept(p)
      PROVE  TypeOK'
  BY <1>31, TypeOK DEF ProbeAccept, TypeOK, resources, goroutines, history
<1>32. ASSUME NEW p \in Probes, ProbeLookup(p)
      PROVE  TypeOK'
  BY <1>32, TypeOK DEF ProbeLookup, TypeOK, resources, goroutines, history
<1>33. ASSUME NEW p \in Probes, ProbeAdmit(p)
      PROVE  TypeOK'
  BY <1>33, TypeOK DEF ProbeAdmit, TypeOK, resources, goroutines, history
<1>34. ASSUME NEW p \in Probes, ProbeCancelled(p)
      PROVE  TypeOK'
  BY <1>34, TypeOK DEF ProbeCancelled, TypeOK, resources, goroutines, history
<1>35. ASSUME NEW p \in Probes, ProbeEnds(p)
      PROVE  TypeOK'
  BY <1>35, TypeOK DEF ProbeEnds, TypeOK, resources, goroutines, history
<1>36. CASE UNCHANGED vars
  BY <1>36, ServeAssumption, TypeOK
     DEF vars, TypeOK, MainPCs, Unwinding, Goto, CancelCtx, SendOK, SendFails
<1> QED BY <1>1, <1>2, <1>3, <1>4, <1>5, <1>6, <1>7, <1>8, <1>9, <1>10, <1>11,
   <1>12, <1>13, <1>14, <1>15, <1>16, <1>17, <1>18, <1>19, <1>20, <1>21, <1>22,
   <1>23, <1>24, <1>25, <1>26, <1>27, <1>28, <1>29, <1>30, <1>31, <1>32, <1>33,
   <1>34, <1>35, <1>36
   DEF Next, Main, Forward

\* What a handler holds follows from where it is, whichever way it got there.
LEMMA ResourceStep ==
  ASSUME TypeOK, ResourceInv, [Next]_vars
  PROVE  ResourceInv'
<1>1. CASE Shutdown
  BY <1>1, TypeOK, ResourceInv
     DEF Shutdown, TypeOK, ResourceInv, HoldsSlot, HoldsFlow, HoldsRegistry,
         InSession, resources
<1>2. ASSUME NEW c \in Clients, Accept(c)
      PROVE  ResourceInv'
  BY <1>2, TypeOK, ResourceInv
     DEF Accept, TypeOK, ResourceInv, HoldsSlot, HoldsFlow, HoldsRegistry,
         InSession, Goto, resources
<1>3. ASSUME NEW c \in Clients, ReadHello(c)
      PROVE  ResourceInv'
  BY <1>3, TypeOK, ResourceInv
     DEF ReadHello, TypeOK, ResourceInv, HoldsSlot, HoldsFlow, HoldsRegistry,
         InSession, Goto, resources
<1>4. ASSUME NEW c \in Clients, HelloTimeout(c)
      PROVE  ResourceInv'
  BY <1>4, TypeOK, ResourceInv
     DEF HelloTimeout, TypeOK, ResourceInv, HoldsSlot, HoldsFlow,
         HoldsRegistry, InSession, Goto, resources
<1>5. ASSUME NEW c \in Clients, ReadOther(c)
      PROVE  ResourceInv'
  BY <1>5, TypeOK, ResourceInv
     DEF ReadOther, TypeOK, ResourceInv, HoldsSlot, HoldsFlow, HoldsRegistry,
         InSession, Goto, resources
<1>6. ASSUME NEW c \in Clients, Admit(c)
      PROVE  ResourceInv'
  <2>1. CASE SlotFree
    <3>1. slots' = slots \cup {c} /\ main' = [main EXCEPT ![c] = "validate"]
      BY <1>6, <2>1, Zenon DEF Admit, Goto
    <3> QED BY <1>6, <3>1
       DEF TypeOK, ResourceInv, HoldsSlot, HoldsFlow, HoldsRegistry,
           InSession, Admit
  <2>2. CASE ~SlotFree
    <3>1. slots' = slots /\ main' = [main EXCEPT ![c] = "turnaway"]
      BY <1>6, <2>2, Zenon DEF Admit, Goto
    <3> QED BY <1>6, <3>1
       DEF TypeOK, ResourceInv, HoldsSlot, HoldsFlow, HoldsRegistry,
           InSession, Admit
  <2> QED BY <2>1, <2>2
<1>7. ASSUME NEW c \in Clients, ValidateHello(c)
      PROVE  ResourceInv'
  <2>1. PICK pc \in {"register", "refuse"} : Goto(c, pc)
    BY <1>7 DEF ValidateHello
  <2> QED BY <1>7, <2>1
     DEF TypeOK, ResourceInv, HoldsSlot, HoldsFlow, HoldsRegistry, InSession,
         ValidateHello, Goto, resources
<1>8. ASSUME NEW c \in Clients, Register(c)
      PROVE  ResourceInv'
  <2>1. CASE FlowTaken(c)
    <3>1. flows' = flows /\ main' = [main EXCEPT ![c] = "refuse"]
      BY <1>8, <2>1, Zenon DEF Register, Goto
    <3> QED BY <1>8, <3>1
       DEF TypeOK, ResourceInv, HoldsSlot, HoldsFlow, HoldsRegistry,
           InSession, Register
  <2>2. CASE ~FlowTaken(c)
    <3>2. \A d \in flows : FlowOf[d] # FlowOf[c]
      BY <2>2 DEF FlowTaken
    <3>1. flows' = flows \cup {c} /\ main' = [main EXCEPT ![c] = "publish"]
      BY <1>8, <2>2, Zenon DEF Register, Goto
    <3> QED BY <1>8, <3>1, <3>2
       DEF TypeOK, ResourceInv, HoldsSlot, HoldsFlow, HoldsRegistry,
           InSession, Register
  <2> QED BY <2>1, <2>2
<1>9. ASSUME NEW c \in Clients, Refuse(c)
      PROVE  ResourceInv'
  BY <1>9, TypeOK, ResourceInv
     DEF Refuse, TypeOK, ResourceInv, HoldsSlot, HoldsFlow, HoldsRegistry,
         InSession, Goto, SendOK, SendFails, resources
<1>10. ASSUME NEW c \in Clients, Publish(c)
      PROVE  ResourceInv'
  BY <1>10, TypeOK, ResourceInv
     DEF Publish, TypeOK, ResourceInv, HoldsSlot, HoldsFlow, HoldsRegistry,
         InSession, Goto
<1>11. ASSUME NEW c \in Clients, Announce(c)
      PROVE  ResourceInv'
  BY <1>11, TypeOK, ResourceInv
     DEF Announce, TypeOK, ResourceInv, HoldsSlot, HoldsFlow, HoldsRegistry,
         InSession, Goto, SendOK, resources
<1>12. ASSUME NEW c \in Clients, AnnounceFails(c)
      PROVE  ResourceInv'
  BY <1>12, TypeOK, ResourceInv
     DEF AnnounceFails, TypeOK, ResourceInv, HoldsSlot, HoldsFlow,
         HoldsRegistry, InSession, Goto, SendFails, resources
<1>13. ASSUME NEW c \in Clients, RunReturns(c)
      PROVE  ResourceInv'
  BY <1>13, TypeOK, ResourceInv
     DEF RunReturns, TypeOK, ResourceInv, HoldsSlot, HoldsFlow, HoldsRegistry,
         InSession, Goto, resources
<1>14. ASSUME NEW c \in Clients, Join(c)
      PROVE  ResourceInv'
  BY <1>14, TypeOK, ResourceInv
     DEF Join, TypeOK, ResourceInv, HoldsSlot, HoldsFlow, HoldsRegistry,
         InSession, Goto, resources
<1>15. ASSUME NEW c \in Clients, SendFinal(c)
      PROVE  ResourceInv'
  BY <1>15, TypeOK, ResourceInv
     DEF SendFinal, TypeOK, ResourceInv, HoldsSlot, HoldsFlow, HoldsRegistry,
         InSession, Goto, SendOK, SendFails, resources
<1>16. ASSUME NEW c \in Clients, Unpublish(c)
      PROVE  ResourceInv'
  BY <1>16, TypeOK, ResourceInv
     DEF Unpublish, TypeOK, ResourceInv, HoldsSlot, HoldsFlow, HoldsRegistry,
         InSession, Goto, Unwind, NextDeferred
<1>17. ASSUME NEW c \in Clients, Uncancel(c)
      PROVE  ResourceInv'
  BY <1>17, TypeOK, ResourceInv
     DEF Uncancel, TypeOK, ResourceInv, HoldsSlot, HoldsFlow, HoldsRegistry,
         InSession, Goto, CancelCtx, resources, Unwind, NextDeferred
<1>18. ASSUME NEW c \in Clients, Unregister(c)
      PROVE  ResourceInv'
  BY <1>18, TypeOK, ResourceInv
     DEF Unregister, TypeOK, ResourceInv, HoldsSlot, HoldsFlow, HoldsRegistry,
         InSession, Goto, Unwind, NextDeferred
<1>19. ASSUME NEW c \in Clients, Unslot(c)
      PROVE  ResourceInv'
  BY <1>19, TypeOK, ResourceInv
     DEF Unslot, TypeOK, ResourceInv, HoldsSlot, HoldsFlow, HoldsRegistry,
         InSession, Goto, Unwind, NextDeferred
<1>20. ASSUME NEW c \in Clients, Close(c)
      PROVE  ResourceInv'
  BY <1>20, TypeOK, ResourceInv
     DEF Close, TypeOK, ResourceInv, HoldsSlot, HoldsFlow, HoldsRegistry,
         InSession, Goto, resources, Unwind, NextDeferred
<1>21. ASSUME NEW c \in Clients, RecvFires(c)
      PROVE  ResourceInv'
  BY <1>21, TypeOK, ResourceInv
     DEF RecvFires, TypeOK, ResourceInv, HoldsSlot, HoldsFlow, HoldsRegistry,
         InSession, CancelCtx, resources
<1>22. ASSUME NEW c \in Clients, Deadline(c)
      PROVE  ResourceInv'
  BY <1>22, TypeOK, ResourceInv
     DEF Deadline, TypeOK, ResourceInv, HoldsSlot, HoldsFlow, HoldsRegistry,
         InSession, CancelCtx, resources
<1>23. ASSUME NEW c \in Clients, PeerChanges(c)
      PROVE  ResourceInv'
  BY <1>23, TypeOK, ResourceInv
     DEF PeerChanges, TypeOK, ResourceInv, HoldsSlot, HoldsFlow,
         HoldsRegistry, InSession, resources
<1>24. ASSUME NEW c \in Clients, RevStart(c)
      PROVE  ResourceInv'
  BY <1>24, TypeOK, ResourceInv
     DEF RevStart, TypeOK, ResourceInv, HoldsSlot, HoldsFlow, HoldsRegistry,
         InSession, resources
<1>25. ASSUME NEW c \in Clients, RevSend(c)
      PROVE  ResourceInv'
  BY <1>25, TypeOK, ResourceInv
     DEF RevSend, TypeOK, ResourceInv, HoldsSlot, HoldsFlow, HoldsRegistry,
         InSession, resources
<1>26. ASSUME NEW c \in Clients, RevStop(c)
      PROVE  ResourceInv'
  BY <1>26, TypeOK, ResourceInv
     DEF RevStop, TypeOK, ResourceInv, HoldsSlot, HoldsFlow, HoldsRegistry,
         InSession, resources
<1>27. ASSUME NEW c \in Clients, NEW w \in Forwarders, FwdTake(c, w)
      PROVE  ResourceInv'
  BY <1>27, TypeOK, ResourceInv
     DEF FwdTake, TypeOK, ResourceInv, HoldsSlot, HoldsFlow, HoldsRegistry,
         InSession, resources
<1>28. ASSUME NEW c \in Clients, NEW w \in Forwarders, FwdSend(c, w)
      PROVE  ResourceInv'
  BY <1>28, TypeOK, ResourceInv
     DEF FwdSend, TypeOK, ResourceInv, HoldsSlot, HoldsFlow, HoldsRegistry,
         InSession, SendOK, resources
<1>29. ASSUME NEW c \in Clients, NEW w \in Forwarders, FwdFails(c, w)
      PROVE  ResourceInv'
  BY <1>29, TypeOK, ResourceInv
     DEF FwdFails, TypeOK, ResourceInv, HoldsSlot, HoldsFlow, HoldsRegistry,
         InSession, CancelCtx, SendFails, resources, EndSession
<1>30. ASSUME NEW c \in Clients, NEW w \in Forwarders, FwdExit(c, w)
      PROVE  ResourceInv'
  BY <1>30, TypeOK, ResourceInv
     DEF FwdExit, TypeOK, ResourceInv, HoldsSlot, HoldsFlow, HoldsRegistry,
         InSession, resources
<1>31. ASSUME NEW p \in Probes, ProbeAccept(p)
      PROVE  ResourceInv'
  BY <1>31, TypeOK, ResourceInv
     DEF ProbeAccept, TypeOK, ResourceInv, HoldsSlot, HoldsFlow,
         HoldsRegistry, InSession, resources
<1>32. ASSUME NEW p \in Probes, ProbeLookup(p)
      PROVE  ResourceInv'
  BY <1>32, TypeOK, ResourceInv
     DEF ProbeLookup, TypeOK, ResourceInv, HoldsSlot, HoldsFlow,
         HoldsRegistry, InSession, resources
<1>33. ASSUME NEW p \in Probes, ProbeAdmit(p)
      PROVE  ResourceInv'
  BY <1>33, TypeOK, ResourceInv
     DEF ProbeAdmit, TypeOK, ResourceInv, HoldsSlot, HoldsFlow, HoldsRegistry,
         InSession, resources
<1>34. ASSUME NEW p \in Probes, ProbeCancelled(p)
      PROVE  ResourceInv'
  BY <1>34, TypeOK, ResourceInv
     DEF ProbeCancelled, TypeOK, ResourceInv, HoldsSlot, HoldsFlow,
         HoldsRegistry, InSession, resources
<1>35. ASSUME NEW p \in Probes, ProbeEnds(p)
      PROVE  ResourceInv'
  BY <1>35, TypeOK, ResourceInv
     DEF ProbeEnds, TypeOK, ResourceInv, HoldsSlot, HoldsFlow, HoldsRegistry,
         InSession, resources
<1>36. CASE UNCHANGED vars
  BY <1>36, TypeOK, ResourceInv
     DEF vars, TypeOK, ResourceInv, HoldsSlot, HoldsFlow, HoldsRegistry,
         InSession, Goto, CancelCtx, SendOK, SendFails
<1> QED BY <1>1, <1>2, <1>3, <1>4, <1>5, <1>6, <1>7, <1>8, <1>9, <1>10, <1>11,
   <1>12, <1>13, <1>14, <1>15, <1>16, <1>17, <1>18, <1>19, <1>20, <1>21, <1>22,
   <1>23, <1>24, <1>25, <1>26, <1>27, <1>28, <1>29, <1>30, <1>31, <1>32, <1>33,
   <1>34, <1>35, <1>36
   DEF Next, Main, Forward

\* The goroutines of a session run between Ready and the join only.
LEMMA GoroutineStep ==
  ASSUME TypeOK, GoroutineInv, [Next]_vars
  PROVE  GoroutineInv'
<1>1. CASE Shutdown
  BY <1>1, TypeOK, GoroutineInv
     DEF Shutdown, TypeOK, GoroutineInv, BeforeReady, Unwinding,
         ReverseFinished, goroutines
<1>2. ASSUME NEW c \in Clients, Accept(c)
      PROVE  GoroutineInv'
  BY <1>2, TypeOK, GoroutineInv
     DEF Accept, TypeOK, GoroutineInv, BeforeReady, Unwinding,
         ReverseFinished, Goto, goroutines
<1>3. ASSUME NEW c \in Clients, ReadHello(c)
      PROVE  GoroutineInv'
  BY <1>3, TypeOK, GoroutineInv
     DEF ReadHello, TypeOK, GoroutineInv, BeforeReady, Unwinding,
         ReverseFinished, Goto, goroutines
<1>4. ASSUME NEW c \in Clients, HelloTimeout(c)
      PROVE  GoroutineInv'
  BY <1>4, TypeOK, GoroutineInv
     DEF HelloTimeout, TypeOK, GoroutineInv, BeforeReady, Unwinding,
         ReverseFinished, Goto, goroutines
<1>5. ASSUME NEW c \in Clients, ReadOther(c)
      PROVE  GoroutineInv'
  BY <1>5, TypeOK, GoroutineInv
     DEF ReadOther, TypeOK, GoroutineInv, BeforeReady, Unwinding,
         ReverseFinished, Goto, goroutines
<1>6. ASSUME NEW c \in Clients, Admit(c)
      PROVE  GoroutineInv'
  BY <1>6, TypeOK, GoroutineInv
     DEF Admit, TypeOK, GoroutineInv, BeforeReady, Unwinding, ReverseFinished,
         Goto, goroutines
<1>7. ASSUME NEW c \in Clients, ValidateHello(c)
      PROVE  GoroutineInv'
  BY <1>7, TypeOK, GoroutineInv
     DEF ValidateHello, TypeOK, GoroutineInv, BeforeReady, Unwinding,
         ReverseFinished, Goto, goroutines
<1>8. ASSUME NEW c \in Clients, Register(c)
      PROVE  GoroutineInv'
  BY <1>8, TypeOK, GoroutineInv
     DEF Register, TypeOK, GoroutineInv, BeforeReady, Unwinding,
         ReverseFinished, Goto, goroutines
<1>9. ASSUME NEW c \in Clients, Refuse(c)
      PROVE  GoroutineInv'
  BY <1>9, TypeOK, GoroutineInv
     DEF Refuse, TypeOK, GoroutineInv, BeforeReady, Unwinding,
         ReverseFinished, Goto, SendOK, SendFails, goroutines
<1>10. ASSUME NEW c \in Clients, Publish(c)
      PROVE  GoroutineInv'
  BY <1>10, TypeOK, GoroutineInv
     DEF Publish, TypeOK, GoroutineInv, BeforeReady, Unwinding,
         ReverseFinished, Goto, goroutines
<1>11. ASSUME NEW c \in Clients, Announce(c)
      PROVE  GoroutineInv'
  BY <1>11, TypeOK, GoroutineInv
     DEF Announce, TypeOK, GoroutineInv, BeforeReady, Unwinding,
         ReverseFinished, Goto, SendOK
<1>12. ASSUME NEW c \in Clients, AnnounceFails(c)
      PROVE  GoroutineInv'
  BY <1>12, TypeOK, GoroutineInv
     DEF AnnounceFails, TypeOK, GoroutineInv, BeforeReady, Unwinding,
         ReverseFinished, Goto, SendFails, goroutines
<1>13. ASSUME NEW c \in Clients, RunReturns(c)
      PROVE  GoroutineInv'
  BY <1>13, TypeOK, GoroutineInv
     DEF RunReturns, TypeOK, GoroutineInv, BeforeReady, Unwinding,
         ReverseFinished, Goto, goroutines
<1>14. ASSUME NEW c \in Clients, Join(c)
      PROVE  GoroutineInv'
  BY <1>14, TypeOK, GoroutineInv
     DEF Join, TypeOK, GoroutineInv, BeforeReady, Unwinding, ReverseFinished,
         Goto, goroutines, ForwardersExited
<1>15. ASSUME NEW c \in Clients, SendFinal(c)
      PROVE  GoroutineInv'
  BY <1>15, TypeOK, GoroutineInv
     DEF SendFinal, TypeOK, GoroutineInv, BeforeReady, Unwinding,
         ReverseFinished, Goto, SendOK, SendFails, goroutines
<1>16. ASSUME NEW c \in Clients, Unpublish(c)
      PROVE  GoroutineInv'
  BY <1>16, TypeOK, GoroutineInv
     DEF Unpublish, TypeOK, GoroutineInv, BeforeReady, Unwinding,
         ReverseFinished, Goto, goroutines, Unwind, NextDeferred
<1>17. ASSUME NEW c \in Clients, Uncancel(c)
      PROVE  GoroutineInv'
  BY <1>17, TypeOK, GoroutineInv
     DEF Uncancel, TypeOK, GoroutineInv, BeforeReady, Unwinding,
         ReverseFinished, Goto, CancelCtx, goroutines, Unwind, NextDeferred
<1>18. ASSUME NEW c \in Clients, Unregister(c)
      PROVE  GoroutineInv'
  BY <1>18, TypeOK, GoroutineInv
     DEF Unregister, TypeOK, GoroutineInv, BeforeReady, Unwinding,
         ReverseFinished, Goto, goroutines, Unwind, NextDeferred
<1>19. ASSUME NEW c \in Clients, Unslot(c)
      PROVE  GoroutineInv'
  BY <1>19, TypeOK, GoroutineInv
     DEF Unslot, TypeOK, GoroutineInv, BeforeReady, Unwinding,
         ReverseFinished, Goto, goroutines, Unwind, NextDeferred
<1>20. ASSUME NEW c \in Clients, Close(c)
      PROVE  GoroutineInv'
  BY <1>20, TypeOK, GoroutineInv
     DEF Close, TypeOK, GoroutineInv, BeforeReady, Unwinding, ReverseFinished,
         Goto, goroutines, Unwind, NextDeferred
<1>21. ASSUME NEW c \in Clients, RecvFires(c)
      PROVE  GoroutineInv'
  BY <1>21, TypeOK, GoroutineInv
     DEF RecvFires, TypeOK, GoroutineInv, BeforeReady, Unwinding,
         ReverseFinished, CancelCtx
<1>22. ASSUME NEW c \in Clients, Deadline(c)
      PROVE  GoroutineInv'
  BY <1>22, TypeOK, GoroutineInv
     DEF Deadline, TypeOK, GoroutineInv, BeforeReady, Unwinding,
         ReverseFinished, CancelCtx, goroutines
<1>23. ASSUME NEW c \in Clients, PeerChanges(c)
      PROVE  GoroutineInv'
  BY <1>23, TypeOK, GoroutineInv
     DEF PeerChanges, TypeOK, GoroutineInv, BeforeReady, Unwinding,
         ReverseFinished, goroutines
<1>24. ASSUME NEW c \in Clients, RevStart(c)
      PROVE  GoroutineInv'
  BY <1>24, TypeOK, GoroutineInv
     DEF RevStart, TypeOK, GoroutineInv, BeforeReady, Unwinding,
         ReverseFinished
<1>25. ASSUME NEW c \in Clients, RevSend(c)
      PROVE  GoroutineInv'
  BY <1>25, TypeOK, GoroutineInv
     DEF RevSend, TypeOK, GoroutineInv, BeforeReady, Unwinding,
         ReverseFinished
<1>26. ASSUME NEW c \in Clients, RevStop(c)
      PROVE  GoroutineInv'
  BY <1>26, TypeOK, GoroutineInv
     DEF RevStop, TypeOK, GoroutineInv, BeforeReady, Unwinding,
         ReverseFinished
<1>27. ASSUME NEW c \in Clients, NEW w \in Forwarders, FwdTake(c, w)
      PROVE  GoroutineInv'
  <2>1. PICK r \in ForwarderType :
          /\ fwd' = [fwd EXCEPT ![c][w] = r]
          /\ r.pc = "sending" => r.left # 0
    <3>1. PICK n \in 1 .. MaxBatch : n = IF w = "stats" THEN 1 ELSE MaxBatch
      BY ServeAssumption
    <3>2. PICK r : r = [pc |-> "sending", left |-> n]
      OBVIOUS
    <3>3. r \in ForwarderType /\ r.left # 0
      BY <3>2, ServeAssumption DEF ForwarderType
    <3>4. fwd' = [fwd EXCEPT ![c][w] = r]
      BY <1>27, <3>1, <3>2 DEF FwdTake
    <3> QED BY <3>3, <3>4
  <2>2. main[c] \notin BeforeReady \cup {"finalize", "gone"} \cup Unwinding
    BY <1>27 DEF GoroutineInv, FwdTake
  <2>3. fwd'[c][w] = r /\ \A d \in Clients, v \in Forwarders :
          <<d, v>> # <<c, w>> => fwd'[d][v] = fwd[d][v]
    BY <2>1 DEF TypeOK
  <2> QED BY <1>27, <2>1, <2>2, <2>3
     DEF TypeOK, GoroutineInv, BeforeReady, Unwinding, ReverseFinished,
         FwdTake
<1>28. ASSUME NEW c \in Clients, NEW w \in Forwarders, FwdSend(c, w)
      PROVE  GoroutineInv'
  <2>1. PICK r \in ForwarderType :
          /\ fwd' = [fwd EXCEPT ![c][w] = r]
          /\ r.pc = "sending" => r.left # 0
    <3>1. fwd[c][w] \in ForwarderType /\ fwd[c][w].left # 0
      BY <1>28 DEF TypeOK, GoroutineInv, FwdSend, ForwarderType
    <3> QED BY <1>28, <3>1, AfterFrameEffect DEF FwdSend
  <2>2. main[c] \notin BeforeReady \cup {"finalize", "gone"} \cup Unwinding
    BY <1>28 DEF GoroutineInv, FwdSend
  <2>3. fwd'[c][w] = r /\ \A d \in Clients, v \in Forwarders :
          <<d, v>> # <<c, w>> => fwd'[d][v] = fwd[d][v]
    BY <2>1 DEF TypeOK
  <2> QED BY <1>28, <2>1, <2>2, <2>3
     DEF TypeOK, GoroutineInv, BeforeReady, Unwinding, ReverseFinished,
         FwdSend
<1>29. ASSUME NEW c \in Clients, NEW w \in Forwarders, FwdFails(c, w)
      PROVE  GoroutineInv'
  BY <1>29, TypeOK, GoroutineInv
     DEF FwdFails, TypeOK, GoroutineInv, BeforeReady, Unwinding,
         ReverseFinished, CancelCtx, SendFails
<1>30. ASSUME NEW c \in Clients, NEW w \in Forwarders, FwdExit(c, w)
      PROVE  GoroutineInv'
  BY <1>30, TypeOK, GoroutineInv
     DEF FwdExit, TypeOK, GoroutineInv, BeforeReady, Unwinding,
         ReverseFinished
<1>31. ASSUME NEW p \in Probes, ProbeAccept(p)
      PROVE  GoroutineInv'
  BY <1>31, TypeOK, GoroutineInv
     DEF ProbeAccept, TypeOK, GoroutineInv, BeforeReady, Unwinding,
         ReverseFinished, goroutines
<1>32. ASSUME NEW p \in Probes, ProbeLookup(p)
      PROVE  GoroutineInv'
  BY <1>32, TypeOK, GoroutineInv
     DEF ProbeLookup, TypeOK, GoroutineInv, BeforeReady, Unwinding,
         ReverseFinished, goroutines
<1>33. ASSUME NEW p \in Probes, ProbeAdmit(p)
      PROVE  GoroutineInv'
  BY <1>33, TypeOK, GoroutineInv
     DEF ProbeAdmit, TypeOK, GoroutineInv, BeforeReady, Unwinding,
         ReverseFinished, goroutines
<1>34. ASSUME NEW p \in Probes, ProbeCancelled(p)
      PROVE  GoroutineInv'
  BY <1>34, TypeOK, GoroutineInv
     DEF ProbeCancelled, TypeOK, GoroutineInv, BeforeReady, Unwinding,
         ReverseFinished, goroutines
<1>35. ASSUME NEW p \in Probes, ProbeEnds(p)
      PROVE  GoroutineInv'
  BY <1>35, TypeOK, GoroutineInv
     DEF ProbeEnds, TypeOK, GoroutineInv, BeforeReady, Unwinding,
         ReverseFinished, goroutines
<1>36. CASE UNCHANGED vars
  BY <1>36, TypeOK, GoroutineInv
     DEF vars, TypeOK, GoroutineInv, BeforeReady, Unwinding, ReverseFinished,
         Goto, CancelCtx, SendOK, SendFails
<1> QED BY <1>1, <1>2, <1>3, <1>4, <1>5, <1>6, <1>7, <1>8, <1>9, <1>10, <1>11,
   <1>12, <1>13, <1>14, <1>15, <1>16, <1>17, <1>18, <1>19, <1>20, <1>21, <1>22,
   <1>23, <1>24, <1>25, <1>26, <1>27, <1>28, <1>29, <1>30, <1>31, <1>32, <1>33,
   <1>34, <1>35, <1>36
   DEF Next, Main, Forward

\* The count the reverse sender publishes, and the one Final carried, stay true.
LEMMA ReverseStep ==
  ASSUME TypeOK, GoroutineInv, ReverseInv, [Next]_vars
  PROVE  ReverseInv'
<1>1. CASE Shutdown
  BY <1>1, TypeOK, GoroutineInv, ReverseInv
     DEF Shutdown, TypeOK, GoroutineInv, ReverseInv, BeforeReady, Unwinding,
         ReverseFinished, goroutines, history
<1>2. ASSUME NEW c \in Clients, Accept(c)
      PROVE  ReverseInv'
  BY <1>2, TypeOK, GoroutineInv, ReverseInv
     DEF Accept, TypeOK, GoroutineInv, ReverseInv, BeforeReady, Unwinding,
         ReverseFinished, Goto, goroutines, history
<1>3. ASSUME NEW c \in Clients, ReadHello(c)
      PROVE  ReverseInv'
  BY <1>3, TypeOK, GoroutineInv, ReverseInv
     DEF ReadHello, TypeOK, GoroutineInv, ReverseInv, BeforeReady, Unwinding,
         ReverseFinished, Goto, goroutines, history
<1>4. ASSUME NEW c \in Clients, HelloTimeout(c)
      PROVE  ReverseInv'
  BY <1>4, TypeOK, GoroutineInv, ReverseInv
     DEF HelloTimeout, TypeOK, GoroutineInv, ReverseInv, BeforeReady,
         Unwinding, ReverseFinished, Goto, goroutines, history
<1>5. ASSUME NEW c \in Clients, ReadOther(c)
      PROVE  ReverseInv'
  BY <1>5, TypeOK, GoroutineInv, ReverseInv
     DEF ReadOther, TypeOK, GoroutineInv, ReverseInv, BeforeReady, Unwinding,
         ReverseFinished, Goto, goroutines, history
<1>6. ASSUME NEW c \in Clients, Admit(c)
      PROVE  ReverseInv'
  <2>1. CASE SlotFree
    <3>1. slots' = slots \cup {c} /\ main' = [main EXCEPT ![c] = "validate"]
      BY <1>6, <2>1, Zenon DEF Admit, Goto
    <3> QED BY <1>6, <3>1
       DEF TypeOK, GoroutineInv, ReverseInv, BeforeReady, Unwinding,
           ReverseFinished, Admit, goroutines, history
  <2>2. CASE ~SlotFree
    <3>1. slots' = slots /\ main' = [main EXCEPT ![c] = "turnaway"]
      BY <1>6, <2>2, Zenon DEF Admit, Goto
    <3> QED BY <1>6, <3>1
       DEF TypeOK, GoroutineInv, ReverseInv, BeforeReady, Unwinding,
           ReverseFinished, Admit, goroutines, history
  <2> QED BY <2>1, <2>2
<1>7. ASSUME NEW c \in Clients, ValidateHello(c)
      PROVE  ReverseInv'
  <2>1. PICK pc \in {"register", "refuse"} : Goto(c, pc)
    BY <1>7 DEF ValidateHello
  <2> QED BY <1>7, <2>1
     DEF TypeOK, GoroutineInv, ReverseInv, BeforeReady, Unwinding,
         ReverseFinished, ValidateHello, Goto, goroutines, history
<1>8. ASSUME NEW c \in Clients, Register(c)
      PROVE  ReverseInv'
  <2>1. CASE FlowTaken(c)
    <3>1. flows' = flows /\ main' = [main EXCEPT ![c] = "refuse"]
      BY <1>8, <2>1, Zenon DEF Register, Goto
    <3> QED BY <1>8, <3>1
       DEF TypeOK, GoroutineInv, ReverseInv, BeforeReady, Unwinding,
           ReverseFinished, Register, goroutines, history
  <2>2. CASE ~FlowTaken(c)
    <3>1. flows' = flows \cup {c} /\ main' = [main EXCEPT ![c] = "publish"]
      BY <1>8, <2>2, Zenon DEF Register, Goto
    <3> QED BY <1>8, <3>1
       DEF TypeOK, GoroutineInv, ReverseInv, BeforeReady, Unwinding,
           ReverseFinished, Register, goroutines, history
  <2> QED BY <2>1, <2>2
<1>9. ASSUME NEW c \in Clients, Refuse(c)
      PROVE  ReverseInv'
  BY <1>9, TypeOK, GoroutineInv, ReverseInv
     DEF Refuse, TypeOK, GoroutineInv, ReverseInv, BeforeReady, Unwinding,
         ReverseFinished, Goto, SendOK, SendFails, goroutines, history
<1>10. ASSUME NEW c \in Clients, Publish(c)
      PROVE  ReverseInv'
  BY <1>10, TypeOK, GoroutineInv, ReverseInv
     DEF Publish, TypeOK, GoroutineInv, ReverseInv, BeforeReady, Unwinding,
         ReverseFinished, Goto, goroutines, history
<1>11. ASSUME NEW c \in Clients, Announce(c)
      PROVE  ReverseInv'
  BY <1>11, TypeOK, GoroutineInv, ReverseInv
     DEF Announce, TypeOK, GoroutineInv, ReverseInv, BeforeReady, Unwinding,
         ReverseFinished, Goto, SendOK, history
<1>12. ASSUME NEW c \in Clients, AnnounceFails(c)
      PROVE  ReverseInv'
  BY <1>12, TypeOK, GoroutineInv, ReverseInv
     DEF AnnounceFails, TypeOK, GoroutineInv, ReverseInv, BeforeReady,
         Unwinding, ReverseFinished, Goto, SendFails, goroutines, history
<1>13. ASSUME NEW c \in Clients, RunReturns(c)
      PROVE  ReverseInv'
  BY <1>13, TypeOK, GoroutineInv, ReverseInv
     DEF RunReturns, TypeOK, GoroutineInv, ReverseInv, BeforeReady, Unwinding,
         ReverseFinished, Goto, goroutines, history
<1>14. ASSUME NEW c \in Clients, Join(c)
      PROVE  ReverseInv'
  BY <1>14, TypeOK, GoroutineInv, ReverseInv
     DEF Join, TypeOK, GoroutineInv, ReverseInv, BeforeReady, Unwinding,
         ReverseFinished, Goto, goroutines, history
<1>15. ASSUME NEW c \in Clients, SendFinal(c)
      PROVE  ReverseInv'
  BY <1>15, TypeOK, GoroutineInv, ReverseInv
     DEF SendFinal, TypeOK, GoroutineInv, ReverseInv, BeforeReady, Unwinding,
         ReverseFinished, Goto, SendOK, SendFails, goroutines
<1>16. ASSUME NEW c \in Clients, Unpublish(c)
      PROVE  ReverseInv'
  BY <1>16, TypeOK, GoroutineInv, ReverseInv
     DEF Unpublish, TypeOK, GoroutineInv, ReverseInv, BeforeReady, Unwinding,
         ReverseFinished, Goto, goroutines, history, Unwind, NextDeferred
<1>17. ASSUME NEW c \in Clients, Uncancel(c)
      PROVE  ReverseInv'
  BY <1>17, TypeOK, GoroutineInv, ReverseInv
     DEF Uncancel, TypeOK, GoroutineInv, ReverseInv, BeforeReady, Unwinding,
         ReverseFinished, Goto, CancelCtx, goroutines, history, Unwind,
         NextDeferred
<1>18. ASSUME NEW c \in Clients, Unregister(c)
      PROVE  ReverseInv'
  BY <1>18, TypeOK, GoroutineInv, ReverseInv
     DEF Unregister, TypeOK, GoroutineInv, ReverseInv, BeforeReady, Unwinding,
         ReverseFinished, Goto, goroutines, history, Unwind, NextDeferred
<1>19. ASSUME NEW c \in Clients, Unslot(c)
      PROVE  ReverseInv'
  BY <1>19, TypeOK, GoroutineInv, ReverseInv
     DEF Unslot, TypeOK, GoroutineInv, ReverseInv, BeforeReady, Unwinding,
         ReverseFinished, Goto, goroutines, history, Unwind, NextDeferred
<1>20. ASSUME NEW c \in Clients, Close(c)
      PROVE  ReverseInv'
  BY <1>20, TypeOK, GoroutineInv, ReverseInv
     DEF Close, TypeOK, GoroutineInv, ReverseInv, BeforeReady, Unwinding,
         ReverseFinished, Goto, goroutines, history, Unwind, NextDeferred
<1>21. ASSUME NEW c \in Clients, RecvFires(c)
      PROVE  ReverseInv'
  BY <1>21, TypeOK, GoroutineInv, ReverseInv
     DEF RecvFires, TypeOK, GoroutineInv, ReverseInv, BeforeReady, Unwinding,
         ReverseFinished, CancelCtx, history
<1>22. ASSUME NEW c \in Clients, Deadline(c)
      PROVE  ReverseInv'
  BY <1>22, TypeOK, GoroutineInv, ReverseInv
     DEF Deadline, TypeOK, GoroutineInv, ReverseInv, BeforeReady, Unwinding,
         ReverseFinished, CancelCtx, goroutines, history
<1>23. ASSUME NEW c \in Clients, PeerChanges(c)
      PROVE  ReverseInv'
  BY <1>23, TypeOK, GoroutineInv, ReverseInv
     DEF PeerChanges, TypeOK, GoroutineInv, ReverseInv, BeforeReady,
         Unwinding, ReverseFinished, goroutines, history
<1>24. ASSUME NEW c \in Clients, RevStart(c)
      PROVE  ReverseInv'
  BY <1>24, TypeOK, GoroutineInv, ReverseInv
     DEF RevStart, TypeOK, GoroutineInv, ReverseInv, BeforeReady, Unwinding,
         ReverseFinished, history
<1>25. ASSUME NEW c \in Clients, RevSend(c)
      PROVE  ReverseInv'
  BY <1>25, TypeOK, GoroutineInv, ReverseInv
     DEF RevSend, TypeOK, GoroutineInv, ReverseInv, BeforeReady, Unwinding,
         ReverseFinished, history
<1>26. ASSUME NEW c \in Clients, RevStop(c)
      PROVE  ReverseInv'
  BY <1>26, TypeOK, GoroutineInv, ReverseInv
     DEF RevStop, TypeOK, GoroutineInv, ReverseInv, BeforeReady, Unwinding,
         ReverseFinished, history
<1>27. ASSUME NEW c \in Clients, NEW w \in Forwarders, FwdTake(c, w)
      PROVE  ReverseInv'
  BY <1>27, TypeOK, GoroutineInv, ReverseInv
     DEF FwdTake, TypeOK, GoroutineInv, ReverseInv, BeforeReady, Unwinding,
         ReverseFinished, history
<1>28. ASSUME NEW c \in Clients, NEW w \in Forwarders, FwdSend(c, w)
      PROVE  ReverseInv'
  BY <1>28, TypeOK, GoroutineInv, ReverseInv
     DEF FwdSend, TypeOK, GoroutineInv, ReverseInv, BeforeReady, Unwinding,
         ReverseFinished, SendOK, history
<1>29. ASSUME NEW c \in Clients, NEW w \in Forwarders, FwdFails(c, w)
      PROVE  ReverseInv'
  BY <1>29, TypeOK, GoroutineInv, ReverseInv
     DEF FwdFails, TypeOK, GoroutineInv, ReverseInv, BeforeReady, Unwinding,
         ReverseFinished, CancelCtx, SendFails
<1>30. ASSUME NEW c \in Clients, NEW w \in Forwarders, FwdExit(c, w)
      PROVE  ReverseInv'
  BY <1>30, TypeOK, GoroutineInv, ReverseInv
     DEF FwdExit, TypeOK, GoroutineInv, ReverseInv, BeforeReady, Unwinding,
         ReverseFinished, history
<1>31. ASSUME NEW p \in Probes, ProbeAccept(p)
      PROVE  ReverseInv'
  BY <1>31, TypeOK, GoroutineInv, ReverseInv
     DEF ProbeAccept, TypeOK, GoroutineInv, ReverseInv, BeforeReady,
         Unwinding, ReverseFinished, goroutines, history
<1>32. ASSUME NEW p \in Probes, ProbeLookup(p)
      PROVE  ReverseInv'
  BY <1>32, TypeOK, GoroutineInv, ReverseInv
     DEF ProbeLookup, TypeOK, GoroutineInv, ReverseInv, BeforeReady,
         Unwinding, ReverseFinished, goroutines, history
<1>33. ASSUME NEW p \in Probes, ProbeAdmit(p)
      PROVE  ReverseInv'
  BY <1>33, TypeOK, GoroutineInv, ReverseInv
     DEF ProbeAdmit, TypeOK, GoroutineInv, ReverseInv, BeforeReady, Unwinding,
         ReverseFinished, goroutines, history
<1>34. ASSUME NEW p \in Probes, ProbeCancelled(p)
      PROVE  ReverseInv'
  BY <1>34, TypeOK, GoroutineInv, ReverseInv
     DEF ProbeCancelled, TypeOK, GoroutineInv, ReverseInv, BeforeReady,
         Unwinding, ReverseFinished, goroutines, history
<1>35. ASSUME NEW p \in Probes, ProbeEnds(p)
      PROVE  ReverseInv'
  BY <1>35, TypeOK, GoroutineInv, ReverseInv
     DEF ProbeEnds, TypeOK, GoroutineInv, ReverseInv, BeforeReady, Unwinding,
         ReverseFinished, goroutines, history
<1>36. CASE UNCHANGED vars
  BY <1>36, TypeOK, GoroutineInv, ReverseInv
     DEF vars, TypeOK, GoroutineInv, ReverseInv, BeforeReady, Unwinding,
         ReverseFinished, Goto, CancelCtx, SendOK, SendFails
<1> QED BY <1>1, <1>2, <1>3, <1>4, <1>5, <1>6, <1>7, <1>8, <1>9, <1>10, <1>11,
   <1>12, <1>13, <1>14, <1>15, <1>16, <1>17, <1>18, <1>19, <1>20, <1>21, <1>22,
   <1>23, <1>24, <1>25, <1>26, <1>27, <1>28, <1>29, <1>30, <1>31, <1>32, <1>33,
   <1>34, <1>35, <1>36
   DEF Next, Main, Forward

\* What may follow on the wire.
LEMMA WireStep ==
  ASSUME TypeOK, GoroutineInv, WireInv, [Next]_vars
  PROVE  WireInv'
<1>1. CASE Shutdown
  BY <1>1, TypeOK, GoroutineInv, WireInv
     DEF Shutdown, TypeOK, GoroutineInv, WireInv, BeforeReady, Unwinding,
         InSession, SentTo
<1>2. ASSUME NEW c \in Clients, Accept(c)
      PROVE  WireInv'
  BY <1>2, TypeOK, GoroutineInv, WireInv
     DEF Accept, TypeOK, GoroutineInv, WireInv, BeforeReady, Unwinding,
         InSession, SentTo, Goto
<1>3. ASSUME NEW c \in Clients, ReadHello(c)
      PROVE  WireInv'
  BY <1>3, TypeOK, GoroutineInv, WireInv
     DEF ReadHello, TypeOK, GoroutineInv, WireInv, BeforeReady, Unwinding,
         InSession, SentTo, Goto
<1>4. ASSUME NEW c \in Clients, HelloTimeout(c)
      PROVE  WireInv'
  BY <1>4, TypeOK, GoroutineInv, WireInv
     DEF HelloTimeout, TypeOK, GoroutineInv, WireInv, BeforeReady, Unwinding,
         InSession, SentTo, Goto
<1>5. ASSUME NEW c \in Clients, ReadOther(c)
      PROVE  WireInv'
  BY <1>5, TypeOK, GoroutineInv, WireInv
     DEF ReadOther, TypeOK, GoroutineInv, WireInv, BeforeReady, Unwinding,
         InSession, SentTo, Goto
<1>6. ASSUME NEW c \in Clients, Admit(c)
      PROVE  WireInv'
  BY <1>6, TypeOK, GoroutineInv, WireInv
     DEF Admit, TypeOK, GoroutineInv, WireInv, BeforeReady, Unwinding,
         InSession, SentTo, Goto
<1>7. ASSUME NEW c \in Clients, ValidateHello(c)
      PROVE  WireInv'
  BY <1>7, TypeOK, GoroutineInv, WireInv
     DEF ValidateHello, TypeOK, GoroutineInv, WireInv, BeforeReady, Unwinding,
         InSession, SentTo, Goto
<1>8. ASSUME NEW c \in Clients, Register(c)
      PROVE  WireInv'
  BY <1>8, TypeOK, GoroutineInv, WireInv
     DEF Register, TypeOK, GoroutineInv, WireInv, BeforeReady, Unwinding,
         InSession, SentTo, Goto
<1>9. ASSUME NEW c \in Clients, Refuse(c)
      PROVE  WireInv'
  <2>1. main[c] \in {"turnaway", "refuse"}
    BY <1>9 DEF TypeOK, GoroutineInv, Refuse, MainPCs, Unwinding, BeforeReady
  <2>2. ~SentTo(c, "final") /\ ~SentTo(c, "error")
    BY <2>1 DEF WireInv, SentTo, BeforeReady, InSession
  <2>3. /\ Ordered(wire'[c])
        /\ \A d \in Clients \ {c} : wire'[d] = wire[d]
        /\ \A i \in DOMAIN wire'[c] :
             \/ wire'[c][i] \in {"error", "torn"}
             \/ \E j \in DOMAIN wire[c] : wire[c][j] = wire'[c][i]
    BY <1>9, <2>1, <2>2, SendEffect DEF Refuse, WireInv, BeforeReady, Frames
  <2> QED BY <1>9, <2>1, <2>2, <2>3
     DEF TypeOK, WireInv, BeforeReady, Unwinding, InSession, SentTo, Refuse,
         Goto
<1>10. ASSUME NEW c \in Clients, Publish(c)
      PROVE  WireInv'
  BY <1>10, TypeOK, GoroutineInv, WireInv
     DEF Publish, TypeOK, GoroutineInv, WireInv, BeforeReady, Unwinding,
         InSession, SentTo, Goto
<1>11. ASSUME NEW c \in Clients, Announce(c)
      PROVE  WireInv'
  <2>1. main[c] \in {"announce"}
    BY <1>11 DEF TypeOK, GoroutineInv, Announce, MainPCs, Unwinding, BeforeReady
  <2>2. ~SentTo(c, "final") /\ ~SentTo(c, "error")
    BY <2>1 DEF WireInv, SentTo, BeforeReady, InSession
  <2>3. PICK msg \in {"ready"} : SendOK(c, msg)
    BY <1>11 DEF Announce
  <2>4. /\ Ordered(wire'[c])
        /\ \A d \in Clients \ {c} : wire'[d] = wire[d]
        /\ \A i \in DOMAIN wire'[c] :
             \/ wire'[c][i] \in {msg, "torn"}
             \/ \E j \in DOMAIN wire[c] : wire[c][j] = wire'[c][i]
    BY <2>1, <2>2, <2>3, SendEffect DEF WireInv, BeforeReady, Frames
  <2>5. \A i \in DOMAIN wire'[c] : wire'[c][i] \notin {"final", "error"}
    BY <2>2, <2>4 DEF SentTo
  <2>6. main'[c] \notin BeforeReady /\ \A d \in Clients \ {c} : main'[d] = main[d]
    BY <1>11, <2>1 DEF TypeOK, Announce, Goto, BeforeReady
  <2>7. ASSUME NEW d \in Clients
        PROVE  /\ main'[d] \in BeforeReady => wire'[d] = <<>>
               /\ main'[d] \in InSession => \A i \in DOMAIN wire'[d] :
                    wire'[d][i] \notin {"final", "error"}
               /\ Ordered(wire'[d])
    BY <2>4, <2>5, <2>6 DEF WireInv, SentTo
  <2> QED BY <2>7 DEF WireInv, SentTo
<1>12. ASSUME NEW c \in Clients, AnnounceFails(c)
      PROVE  WireInv'
  <2>1. main[c] \in {"announce"}
    BY <1>12
       DEF TypeOK, GoroutineInv, AnnounceFails, MainPCs, Unwinding,
           BeforeReady
  <2>2. ~SentTo(c, "final") /\ ~SentTo(c, "error")
    BY <2>1 DEF WireInv, SentTo, BeforeReady, InSession
  <2>3. /\ Ordered(wire'[c])
        /\ \A d \in Clients \ {c} : wire'[d] = wire[d]
        /\ \A i \in DOMAIN wire'[c] :
             \/ wire'[c][i] \in {"ready", "torn"}
             \/ \E j \in DOMAIN wire[c] : wire[c][j] = wire'[c][i]
    BY <1>12, <2>1, <2>2, SendEffect
       DEF AnnounceFails, WireInv, BeforeReady, Frames
  <2> QED BY <1>12, <2>1, <2>2, <2>3
     DEF TypeOK, WireInv, BeforeReady, Unwinding, InSession, SentTo,
         AnnounceFails, Goto
<1>13. ASSUME NEW c \in Clients, RunReturns(c)
      PROVE  WireInv'
  BY <1>13, TypeOK, GoroutineInv, WireInv
     DEF RunReturns, TypeOK, GoroutineInv, WireInv, BeforeReady, Unwinding,
         InSession, SentTo, Goto
<1>14. ASSUME NEW c \in Clients, Join(c)
      PROVE  WireInv'
  BY <1>14, TypeOK, GoroutineInv, WireInv
     DEF Join, TypeOK, GoroutineInv, WireInv, BeforeReady, Unwinding,
         InSession, SentTo, Goto
<1>15. ASSUME NEW c \in Clients, SendFinal(c)
      PROVE  WireInv'
  <2>1. main[c] \in {"finalize"}
    BY <1>15
       DEF TypeOK, GoroutineInv, SendFinal, MainPCs, Unwinding, BeforeReady
  <2>2. ~SentTo(c, "final") /\ ~SentTo(c, "error")
    BY <2>1 DEF WireInv, SentTo, BeforeReady, InSession
  <2>3. /\ Ordered(wire'[c])
        /\ \A d \in Clients \ {c} : wire'[d] = wire[d]
        /\ \A i \in DOMAIN wire'[c] :
             \/ wire'[c][i] \in {"final", "torn"}
             \/ \E j \in DOMAIN wire[c] : wire[c][j] = wire'[c][i]
    BY <1>15, <2>1, <2>2, SendEffect DEF SendFinal, WireInv, BeforeReady, Frames
  <2> QED BY <1>15, <2>1, <2>2, <2>3
     DEF TypeOK, WireInv, BeforeReady, Unwinding, InSession, SentTo,
         SendFinal, Goto
<1>16. ASSUME NEW c \in Clients, Unpublish(c)
      PROVE  WireInv'
  BY <1>16, TypeOK, GoroutineInv, WireInv
     DEF Unpublish, TypeOK, GoroutineInv, WireInv, BeforeReady, Unwinding,
         InSession, SentTo, Goto, Unwind, NextDeferred
<1>17. ASSUME NEW c \in Clients, Uncancel(c)
      PROVE  WireInv'
  BY <1>17, TypeOK, GoroutineInv, WireInv
     DEF Uncancel, TypeOK, GoroutineInv, WireInv, BeforeReady, Unwinding,
         InSession, SentTo, Goto, CancelCtx, Unwind, NextDeferred
<1>18. ASSUME NEW c \in Clients, Unregister(c)
      PROVE  WireInv'
  BY <1>18, TypeOK, GoroutineInv, WireInv
     DEF Unregister, TypeOK, GoroutineInv, WireInv, BeforeReady, Unwinding,
         InSession, SentTo, Goto, Unwind, NextDeferred
<1>19. ASSUME NEW c \in Clients, Unslot(c)
      PROVE  WireInv'
  BY <1>19, TypeOK, GoroutineInv, WireInv
     DEF Unslot, TypeOK, GoroutineInv, WireInv, BeforeReady, Unwinding,
         InSession, SentTo, Goto, Unwind, NextDeferred
<1>20. ASSUME NEW c \in Clients, Close(c)
      PROVE  WireInv'
  BY <1>20, TypeOK, GoroutineInv, WireInv
     DEF Close, TypeOK, GoroutineInv, WireInv, BeforeReady, Unwinding,
         InSession, SentTo, Goto, Unwind, NextDeferred
<1>21. ASSUME NEW c \in Clients, RecvFires(c)
      PROVE  WireInv'
  BY <1>21, TypeOK, GoroutineInv, WireInv
     DEF RecvFires, TypeOK, GoroutineInv, WireInv, BeforeReady, Unwinding,
         InSession, SentTo, CancelCtx
<1>22. ASSUME NEW c \in Clients, Deadline(c)
      PROVE  WireInv'
  BY <1>22, TypeOK, GoroutineInv, WireInv
     DEF Deadline, TypeOK, GoroutineInv, WireInv, BeforeReady, Unwinding,
         InSession, SentTo, CancelCtx
<1>23. ASSUME NEW c \in Clients, PeerChanges(c)
      PROVE  WireInv'
  BY <1>23, TypeOK, GoroutineInv, WireInv
     DEF PeerChanges, TypeOK, GoroutineInv, WireInv, BeforeReady, Unwinding,
         InSession, SentTo
<1>24. ASSUME NEW c \in Clients, RevStart(c)
      PROVE  WireInv'
  BY <1>24, TypeOK, GoroutineInv, WireInv
     DEF RevStart, TypeOK, GoroutineInv, WireInv, BeforeReady, Unwinding,
         InSession, SentTo
<1>25. ASSUME NEW c \in Clients, RevSend(c)
      PROVE  WireInv'
  BY <1>25, TypeOK, GoroutineInv, WireInv
     DEF RevSend, TypeOK, GoroutineInv, WireInv, BeforeReady, Unwinding,
         InSession, SentTo
<1>26. ASSUME NEW c \in Clients, RevStop(c)
      PROVE  WireInv'
  BY <1>26, TypeOK, GoroutineInv, WireInv
     DEF RevStop, TypeOK, GoroutineInv, WireInv, BeforeReady, Unwinding,
         InSession, SentTo
<1>27. ASSUME NEW c \in Clients, NEW w \in Forwarders, FwdTake(c, w)
      PROVE  WireInv'
  BY <1>27, TypeOK, GoroutineInv, WireInv
     DEF FwdTake, TypeOK, GoroutineInv, WireInv, BeforeReady, Unwinding,
         InSession, SentTo
<1>28. ASSUME NEW c \in Clients, NEW w \in Forwarders, FwdSend(c, w)
      PROVE  WireInv'
  <2>1. main[c] \in {"running", "joining"}
    BY <1>28 DEF TypeOK, GoroutineInv, FwdSend, MainPCs, Unwinding, BeforeReady
  <2>2. ~SentTo(c, "final") /\ ~SentTo(c, "error")
    BY <2>1 DEF WireInv, SentTo, BeforeReady, InSession
  <2>3. PICK msg \in {"stats", "hop"} : SendOK(c, msg)
    BY <1>28 DEF FwdSend
  <2>4. /\ Ordered(wire'[c])
        /\ \A d \in Clients \ {c} : wire'[d] = wire[d]
        /\ \A i \in DOMAIN wire'[c] :
             \/ wire'[c][i] \in {msg, "torn"}
             \/ \E j \in DOMAIN wire[c] : wire[c][j] = wire'[c][i]
    BY <2>1, <2>2, <2>3, SendEffect DEF WireInv, BeforeReady, Frames
  <2>5. \A i \in DOMAIN wire'[c] : wire'[c][i] \notin {"final", "error"}
    BY <2>2, <2>4 DEF SentTo
  <2>6. main'[c] \notin BeforeReady /\ \A d \in Clients \ {c} : main'[d] = main[d]
    BY <1>28, <2>1 DEF TypeOK, FwdSend, BeforeReady
  <2>7. ASSUME NEW d \in Clients
        PROVE  /\ main'[d] \in BeforeReady => wire'[d] = <<>>
               /\ main'[d] \in InSession => \A i \in DOMAIN wire'[d] :
                    wire'[d][i] \notin {"final", "error"}
               /\ Ordered(wire'[d])
    BY <2>4, <2>5, <2>6 DEF WireInv, SentTo
  <2> QED BY <2>7 DEF WireInv, SentTo
<1>29. ASSUME NEW c \in Clients, NEW w \in Forwarders, FwdFails(c, w)
      PROVE  WireInv'
  <2>1. main[c] \in {"running", "joining"}
    BY <1>29 DEF TypeOK, GoroutineInv, FwdFails, MainPCs, Unwinding, BeforeReady
  <2>2. ~SentTo(c, "final") /\ ~SentTo(c, "error")
    BY <2>1 DEF WireInv, SentTo, BeforeReady, InSession
  <2>3. PICK msg \in {"stats"} : SendFails(c)
    BY <1>29 DEF FwdFails
  <2>4. /\ Ordered(wire'[c])
        /\ \A d \in Clients \ {c} : wire'[d] = wire[d]
        /\ \A i \in DOMAIN wire'[c] :
             \/ wire'[c][i] \in {msg, "torn"}
             \/ \E j \in DOMAIN wire[c] : wire[c][j] = wire'[c][i]
    BY <2>1, <2>2, <2>3, SendEffect DEF WireInv, BeforeReady, Frames
  <2>5. \A i \in DOMAIN wire'[c] : wire'[c][i] \notin {"final", "error"}
    BY <2>2, <2>4 DEF SentTo
  <2>6. main'[c] \notin BeforeReady /\ \A d \in Clients \ {c} : main'[d] = main[d]
    BY <1>29, <2>1 DEF TypeOK, FwdFails, BeforeReady
  <2>7. ASSUME NEW d \in Clients
        PROVE  /\ main'[d] \in BeforeReady => wire'[d] = <<>>
               /\ main'[d] \in InSession => \A i \in DOMAIN wire'[d] :
                    wire'[d][i] \notin {"final", "error"}
               /\ Ordered(wire'[d])
    BY <2>4, <2>5, <2>6 DEF WireInv, SentTo
  <2> QED BY <2>7 DEF WireInv, SentTo
<1>30. ASSUME NEW c \in Clients, NEW w \in Forwarders, FwdExit(c, w)
      PROVE  WireInv'
  BY <1>30, TypeOK, GoroutineInv, WireInv
     DEF FwdExit, TypeOK, GoroutineInv, WireInv, BeforeReady, Unwinding,
         InSession, SentTo
<1>31. ASSUME NEW p \in Probes, ProbeAccept(p)
      PROVE  WireInv'
  BY <1>31, TypeOK, GoroutineInv, WireInv
     DEF ProbeAccept, TypeOK, GoroutineInv, WireInv, BeforeReady, Unwinding,
         InSession, SentTo
<1>32. ASSUME NEW p \in Probes, ProbeLookup(p)
      PROVE  WireInv'
  BY <1>32, TypeOK, GoroutineInv, WireInv
     DEF ProbeLookup, TypeOK, GoroutineInv, WireInv, BeforeReady, Unwinding,
         InSession, SentTo
<1>33. ASSUME NEW p \in Probes, ProbeAdmit(p)
      PROVE  WireInv'
  BY <1>33, TypeOK, GoroutineInv, WireInv
     DEF ProbeAdmit, TypeOK, GoroutineInv, WireInv, BeforeReady, Unwinding,
         InSession, SentTo
<1>34. ASSUME NEW p \in Probes, ProbeCancelled(p)
      PROVE  WireInv'
  BY <1>34, TypeOK, GoroutineInv, WireInv
     DEF ProbeCancelled, TypeOK, GoroutineInv, WireInv, BeforeReady,
         Unwinding, InSession, SentTo
<1>35. ASSUME NEW p \in Probes, ProbeEnds(p)
      PROVE  WireInv'
  BY <1>35, TypeOK, GoroutineInv, WireInv
     DEF ProbeEnds, TypeOK, GoroutineInv, WireInv, BeforeReady, Unwinding,
         InSession, SentTo
<1>36. CASE UNCHANGED vars
  BY <1>36, TypeOK, GoroutineInv, WireInv
     DEF vars, TypeOK, GoroutineInv, WireInv, BeforeReady, Unwinding,
         InSession, SentTo, Goto, CancelCtx, SendOK, SendFails
<1> QED BY <1>1, <1>2, <1>3, <1>4, <1>5, <1>6, <1>7, <1>8, <1>9, <1>10, <1>11,
   <1>12, <1>13, <1>14, <1>15, <1>16, <1>17, <1>18, <1>19, <1>20, <1>21, <1>22,
   <1>23, <1>24, <1>25, <1>26, <1>27, <1>28, <1>29, <1>30, <1>31, <1>32, <1>33,
   <1>34, <1>35, <1>36
   DEF Next, Main, Forward

\* A set that loses members, or gains one below its limit, stays within it.
LEMMA FewerIsWithin ==
  ASSUME NEW S, NEW T, NEW n \in Nat,
         IsFiniteSet(S), Cardinality(S) <= n, T \subseteq S
  PROVE  IsFiniteSet(T) /\ Cardinality(T) <= n
<1>1. IsFiniteSet(T) /\ Cardinality(T) <= Cardinality(S)
  BY FS_Subset
<1>2. Cardinality(S) \in Nat /\ Cardinality(T) \in Nat
  BY <1>1, FS_CardinalityType
<1> QED BY <1>1, <1>2

LEMMA OneMoreIsWithin ==
  ASSUME NEW S, NEW T, NEW x, NEW n \in Nat,
         IsFiniteSet(S), Cardinality(S) < n, T \subseteq S \cup {x}
  PROVE  IsFiniteSet(T) /\ Cardinality(T) <= n
<1>1. /\ IsFiniteSet(S \cup {x})
      /\ \/ Cardinality(S \cup {x}) = Cardinality(S)
         \/ Cardinality(S \cup {x}) = Cardinality(S) + 1
  BY FS_AddElement
<1>2. Cardinality(S) \in Nat
  BY FS_CardinalityType
<1>3. Cardinality(S \cup {x}) <= n
  BY <1>1, <1>2
<1> QED BY <1>1, <1>3, FewerIsWithin

\* A step that takes one of the three kinds of place found one free.
LEMMA SlotsStep ==
  ASSUME [Next]_vars
  PROVE  \/ slots' \subseteq slots
         \/ SlotFree /\ \E c \in Clients : slots' \subseteq slots \cup {c}
<1>1. ASSUME NEW c \in Clients, Admit(c)
      PROVE  \/ slots' \subseteq slots
             \/ SlotFree /\ slots' \subseteq slots \cup {c}
  BY <1>1, Zenon DEF Admit
<1>2. ASSUME NEW c \in Clients, Unslot(c)
      PROVE  slots' \subseteq slots
  BY <1>2 DEF Unslot
<1>3. (\E c \in Clients : Admit(c) \/ Unslot(c)) \/ UNCHANGED slots
  BY DEF vars, Next, Main, Forward, Shutdown, Accept, ReadHello,
         HelloTimeout, ReadOther, ValidateHello, Register, Refuse,
         Publish, Announce, AnnounceFails, RunReturns, Join, SendFinal,
         Unpublish, Uncancel, Unregister, Close, RecvFires, Deadline,
         PeerChanges, RevStart, RevSend, RevStop, FwdTake, FwdSend,
         FwdFails, FwdExit, ProbeAccept, ProbeLookup, ProbeAdmit,
         ProbeCancelled, ProbeEnds, resources, goroutines, history
<1> QED BY <1>1, <1>2, <1>3

LEMMA ReadingStep ==
  ASSUME TypeOK, [Next]_vars
  PROVE  \/ Reading' \subseteq Reading
         \/ ProbeSlotFree /\ \E p \in Probes : Reading' \subseteq Reading \cup {p}
<1>1. ASSUME NEW p \in Probes, ProbeAdmit(p)
      PROVE  \/ Reading' \subseteq Reading
             \/ ProbeSlotFree /\ Reading' \subseteq Reading \cup {p}
  <2>1. CASE ProbeSlotFree
    BY <1>1, <2>1 DEF TypeOK, ProbeAdmit, Reading
  <2>2. CASE ~ProbeSlotFree
    <3>1. probe' = [probe EXCEPT ![p] = "gone"]
      BY <1>1, <2>2, Zenon DEF ProbeAdmit
    <3> QED BY <3>1 DEF TypeOK, Reading
  <2> QED BY <2>1, <2>2
<1>2. ASSUME NEW p \in Probes,
             ProbeAccept(p) \/ ProbeLookup(p) \/ ProbeCancelled(p) \/ ProbeEnds(p)
      PROVE  Reading' \subseteq Reading
  <2>1. PICK pc \in {"pending", "looked", "gone"} : probe' = [probe EXCEPT ![p] = pc]
    BY <1>2 DEF ProbeAccept, ProbeLookup, ProbeCancelled, ProbeEnds
  <2> QED BY <2>1 DEF TypeOK, Reading
<1>3. CASE UNCHANGED probe
  BY <1>3 DEF Reading
<1>4. \/ \E p \in Probes : \/ ProbeAdmit(p) \/ ProbeAccept(p) \/ ProbeLookup(p)
                           \/ ProbeCancelled(p) \/ ProbeEnds(p)
      \/ UNCHANGED probe
  BY DEF vars, Next, Main, Forward, Shutdown, Accept, ReadHello,
         HelloTimeout, ReadOther, Admit, ValidateHello, Register, Refuse,
         Publish, Announce, AnnounceFails, RunReturns, Join, SendFinal,
         Unpublish, Uncancel, Unregister, Unslot, Close, RecvFires,
         Deadline, PeerChanges, RevStart, RevSend, RevStop, FwdTake,
         FwdSend, FwdFails, FwdExit, resources, goroutines, history
<1> QED BY <1>1, <1>2, <1>3, <1>4

LEMMA ConnectionsStep ==
  ASSUME TypeOK, [Next]_vars
  PROVE  \/ Connections' \subseteq Connections
         \/ PendingFree /\ \E x : Connections' \subseteq Connections \cup {x}
<1>1. ASSUME NEW c \in Clients, Accept(c)
      PROVE  \/ Connections' \subseteq Connections
             \/ PendingFree /\ Connections' \subseteq Connections \cup {c}
  <2>1. CASE PendingFree
    BY <1>1, <2>1 DEF TypeOK, Accept, Goto, Connections
  <2>2. CASE ~PendingFree
    <3>1. main' = [main EXCEPT ![c] = "gone"] /\ probe' = probe
      BY <1>1, <2>2, Zenon DEF Accept, Goto
    <3> QED BY <3>1 DEF TypeOK, Connections
  <2> QED BY <2>1, <2>2
<1>2. ASSUME NEW p \in Probes, ProbeAccept(p)
      PROVE  \/ Connections' \subseteq Connections
             \/ PendingFree /\ Connections' \subseteq Connections \cup {p}
  <2>1. CASE PendingFree
    BY <1>2, <2>1 DEF TypeOK, ProbeAccept, Connections
  <2>2. CASE ~PendingFree
    <3>1. probe' = [probe EXCEPT ![p] = "gone"] /\ main' = main
      BY <1>2, <2>2, Zenon DEF ProbeAccept
    <3> QED BY <3>1 DEF TypeOK, Connections
  <2> QED BY <2>1, <2>2
<1>3. ASSUME NEW p \in Probes,
             ProbeAdmit(p) \/ ProbeLookup(p) \/ ProbeCancelled(p) \/ ProbeEnds(p)
      PROVE  Connections' \subseteq Connections
  <2>1. probe[p] \notin {"none", "gone"} /\ main' = main
        /\ \E pc : probe' = [probe EXCEPT ![p] = pc]
    BY <1>3 DEF ProbeAdmit, ProbeLookup, ProbeCancelled, ProbeEnds
  <2> QED BY <2>1 DEF TypeOK, Connections
<1>4. ASSUME NEW c \in Clients, main[c] \notin {"none", "gone"}, probe' = probe,
             \E pc : Goto(c, pc)
      PROVE  Connections' \subseteq Connections
  BY <1>4 DEF TypeOK, Goto, Connections
<1>5. CASE UNCHANGED <<main, probe>>
  BY <1>5 DEF Connections
<1>6. \/ \E p \in Probes : \/ ProbeAdmit(p) \/ ProbeAccept(p) \/ ProbeLookup(p)
                           \/ ProbeCancelled(p) \/ ProbeEnds(p)
      \/ \E c \in Clients :
           \/ Accept(c)
           \/ main[c] \notin {"none", "gone"} /\ probe' = probe /\ \E pc : Goto(c, pc)
      \/ UNCHANGED <<main, probe>>
  BY DEF vars, Next, Main, Forward, Shutdown, ReadHello, HelloTimeout,
         ReadOther, Admit, ValidateHello, Register, Refuse, Publish,
         Announce, AnnounceFails, RunReturns, Join, SendFinal, Unpublish,
         Uncancel, Unregister, Unslot, Close, RecvFires, Deadline,
         PeerChanges, RevStart, RevSend, RevStop, FwdTake, FwdSend,
         FwdFails, FwdExit, resources, goroutines, history, Unwind
<1> QED BY <1>1, <1>2, <1>3, <1>4, <1>5, <1>6

LEMMA LimitsStep ==
  ASSUME TypeOK, LimitsInv, [Next]_vars
  PROVE  LimitsInv'
<1>1. MaxSessions \in Nat /\ MaxPending \in Nat
  BY ServeAssumption
<1>2. IsFiniteSet(slots') /\ Cardinality(slots') <= MaxSessions
  BY <1>1, SlotsStep, FewerIsWithin, OneMoreIsWithin
     DEF LimitsInv, WithinLimits, SlotFree
<1>3. IsFiniteSet(Reading') /\ Cardinality(Reading') <= MaxSessions
  BY <1>1, ReadingStep, FewerIsWithin, OneMoreIsWithin
     DEF LimitsInv, WithinLimits, ProbeSlotFree
<1>4. IsFiniteSet(Connections') /\ Cardinality(Connections') <= MaxPending
  BY <1>1, ConnectionsStep, FewerIsWithin, OneMoreIsWithin
     DEF LimitsInv, WithinLimits, PendingFree
<1> QED BY <1>2, <1>3, <1>4 DEF LimitsInv, WithinLimits

LEMMA InitInv ==
  ASSUME Init
  PROVE  IInv
<1>1. TypeOK
  <2>1. <<>> \in Seq({"error", "ready", "stats", "hop", "final", "torn"})
    OBVIOUS
  <2>2. NotStarted \in [pc : {"off", "idle", "sending", "exited"}, left : 0 .. MaxBatch]
    BY ServeAssumption DEF NotStarted
  <2>3. 0 \in 0 .. MaxSent /\ -1 \in -1 .. MaxSent
    BY ServeAssumption
  <2> QED BY <2>1, <2>2, <2>3 DEF Init, TypeOK, MainPCs
<1>2. ResourceInv
  BY DEF Init, ResourceInv, HoldsSlot, HoldsFlow, HoldsRegistry, InSession
<1>3. GoroutineInv
  BY DEF Init, GoroutineInv, NotStarted, Unwinding
<1>4. ReverseInv
  BY DEF Init, ReverseInv
<1>5. WireInv
  <2>1. DOMAIN (<<>>) = {}
    OBVIOUS
  <2> QED BY <2>1 DEF Init, WireInv, InSession, Ordered
<1>6. LimitsInv
  <2>1. slots = {} /\ Reading = {} /\ Connections = {}
    BY DEF Init, Reading, Connections
  <2> QED BY <2>1, FS_EmptySet, ServeAssumption DEF LimitsInv, WithinLimits
<1> QED BY <1>1, <1>2, <1>3, <1>4, <1>5, <1>6 DEF IInv

-----------------------------------------------------------------------------
(* The inductive invariant and what follows from it. *)

THEOREM Invariance == SafetySpec => []IInv
<1>1. Init => IInv
  BY InitInv
<1>2. IInv /\ [Next]_vars => IInv'
  BY TypeStep, ResourceStep, GoroutineStep, ReverseStep, WireStep, LimitsStep
     DEF IInv
<1> QED BY <1>1, <1>2, PTL DEF SafetySpec

\* Never more sessions, probes or connections than places, and whoever gets a
\* freed slot finds no flow, registry entry or live context of its last holder:
\* the order of handleSession's deferred calls, for any number of clients.
THEOREM SlotsAreExclusive == SafetySpec => []SlotCoversResources
<1>1. IInv => SlotCoversResources
  <2> SUFFICES ASSUME IInv PROVE SlotCoversResources
    OBVIOUS
  <2>1. TypeOK /\ WithinLimits
    BY DEF IInv, LimitsInv
  <2>2. flows \subseteq slots /\ registry \subseteq flows
    BY <2>1 DEF IInv, TypeOK, ResourceInv, HoldsSlot, HoldsFlow
  <2>3. ASSUME NEW c \in Clients, ctx[c] = "live"
        PROVE  c \in flows
    BY <2>3 DEF IInv, ResourceInv, HoldsFlow
  <2>4. \A c, d \in flows : FlowOf[c] = FlowOf[d] => c = d
    BY DEF IInv, ResourceInv
  <2> QED BY <2>1, <2>2, <2>3, <2>4 DEF SlotCoversResources
<1> QED BY <1>1, Invariance, PTL

\* Whoever was told Ready finds its flow registered and its session known to
\* the probe handler, until the deferred calls begin.
THEOREM ReadyKeepsItsPromise == SafetySpec => []ReadyMeansUsable
<1>1. IInv => ReadyMeansUsable
  <2> SUFFICES ASSUME IInv, NEW c \in Clients, SentTo(c, "ready"),
                      main[c] \notin Unwinding \cup {"gone"}
               PROVE  c \in registry /\ c \in flows
    BY DEF ReadyMeansUsable
  <2>1. main[c] \notin BeforeReady
    BY DEF IInv, WireInv, SentTo
  <2>2. main[c] \in InSession
    BY <2>1 DEF IInv, TypeOK, MainPCs, BeforeReady, InSession
  <2> QED BY <2>2 DEF IInv, ResourceInv, HoldsRegistry, HoldsFlow
<1> QED BY <1>1, Invariance, PTL

\* Ready comes first, Final or Error last and once, on every connection.
THEOREM ConversationIsOrdered == SafetySpec => []Conversation
<1>1. IInv => Conversation
  BY DEF IInv, LimitsInv, WireInv, Ordered, Conversation
<1> QED BY <1>1, Invariance, PTL

\* No reverse packet is sent after its sender's count went into Final.
THEOREM FinalIsComplete == SafetySpec => []FinalCountsReverse
<1>1. IInv => FinalCountsReverse
  BY DEF IInv, ReverseInv, FinalCountsReverse
<1> QED BY <1>1, Invariance, PTL

-----------------------------------------------------------------------------
(* The server's loops.                                                     *)

(***************************************************************************)
(* The listener is closed by the context only, so the error of a closed    *)
(* listener is met with the context done, and swallowed.                   *)
(***************************************************************************)
LoopsInv ==
  /\ FirstErrorWins
  /\ listener \/ serve
  /\ acceptErr = "closed" => serve
  /\ tcp = "failed" => acceptErr # None

LEMMA LoopsInitial == LoopsInit => LoopsInv
<1> SUFFICES ASSUME LoopsInit PROVE LoopsInv
  OBVIOUS
<1>1. 0 \in 0 .. MaxDelay
  BY LoopsAssumption
<1>2. LoopsTypeOK
  BY <1>1 DEF LoopsInit, LoopsTypeOK
<1>3. firstErr = firstFail /\ tcp = "accepting" /\ listener /\ acceptErr # "closed"
  BY LoopsAssumption DEF LoopsInit
<1> QED BY <1>2, <1>3 DEF LoopsInv, FirstErrorWins

\* The loops' errors.
LEMMA LoopEnds ==
  ASSUME LoopsInv, HubFails \/ TcpFails
  PROVE  LoopsInv'
<1>1. PICK err \in {"hub", "tcp", None} : Fail(err) /\ NoteFail(err)
  BY DEF HubFails, TcpFails
<1>2. /\ firstErr' = firstFail' /\ serve' = TRUE
      /\ firstErr' \in {"hub", "tcp", None}
  BY <1>1 DEF LoopsInv, FirstErrorWins, LoopsTypeOK, Fail, NoteFail
<1> QED BY <1>2 DEF LoopsInv, FirstErrorWins, LoopsTypeOK, HubFails, TcpFails

LEMMA LoopsStep == LoopsInv /\ [LoopsNext]_loopsVars => LoopsInv'
<1> SUFFICES ASSUME LoopsInv, [LoopsNext]_loopsVars PROVE LoopsInv'
  OBVIOUS
<1> USE DEF LoopsInv, FirstErrorWins, LoopsTypeOK
<1>1. CASE CancelParent
  BY <1>1 DEF CancelParent
<1>2. CASE HubEnds
  BY <1>2 DEF HubEnds
<1>3. CASE CloseListener
  BY <1>3 DEF CloseListener
<1>4. CASE AcceptWorks
  BY <1>4, LoopsAssumption DEF AcceptWorks
<1>5. CASE AcceptFails
  BY <1>5, LoopsAssumption DEF AcceptFails
<1>6. CASE HandleAcceptError
  <2>1. NextDelay(delay) \in 0 .. MaxDelay
    BY LoopsAssumption DEF NextDelay
  <2>2. tcp' \in {"ending", "backoff", "failing"} /\ delay' \in 0 .. MaxDelay
    BY <1>6, <2>1 DEF HandleAcceptError, Outcome
  <2>3. tcp' = "failing" => acceptErr = "fatal"
    BY <1>6 DEF HandleAcceptError, Outcome
  <2> QED BY <1>6, <2>2, <2>3 DEF HandleAcceptError
<1>7. CASE BackoffEnds
  BY <1>7, LoopsAssumption DEF BackoffEnds
<1>8. CASE Return
  BY <1>8 DEF Return
<1>9. CASE UNCHANGED loopsVars
  BY <1>9 DEF loopsVars
<1> QED BY <1>1, <1>2, <1>3, <1>4, <1>5, <1>6, <1>7, <1>8, <1>9, LoopEnds DEF LoopsNext

\* serve.go:186-221, server.go:93-119: runServerLoops returns the error that came
\* first, and the accept error of a listener closed by the shutdown is never one.
THEOREM FirstErrorIsReturned == LoopsSpec => []FirstErrorWins
<1>1. LoopsInv => FirstErrorWins
  BY DEF LoopsInv
<1> QED BY <1>1, LoopsInitial, LoopsStep, PTL DEF LoopsSpec
==============================================================================
