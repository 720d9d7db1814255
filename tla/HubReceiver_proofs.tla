--------------------------- MODULE HubReceiver_proofs ---------------------------
(***************************************************************************)
(* Proofs about HubReceiver, for every number of sessions, every           *)
(* assignment of flow ids, every ring size and every set of numbers the    *)
(* senders may use, refused ones included.                                 *)
(***************************************************************************)
EXTENDS HubReceiver, AccumulatorOps_proofs

(***************************************************************************)
(* The registry names open channels of live sessions only, and what the    *)
(* drainer holds under the read lock is still registered: no write-locked  *)
(* operation ran in between.                                               *)
(***************************************************************************)
RegistryInv ==
  /\ RegistryMatchesHandles
  /\ drainer.pc = "sending" =>
       /\ drainer.target \in Sessions /\ drainer.seq \in Seqs
       /\ flows[FlowOf[drainer.target]] = drainer.target
  /\ ~panicked

(***************************************************************************)
(* A session that has not registered, or whose Run has not started, has    *)
(* nothing in its books.                                                   *)
(***************************************************************************)
FreshInv ==
  \A s \in Sessions :
    /\ handle[s] = "none" => /\ hist[s] = NothingYet
                             /\ run[s] = "idle" /\ ~done[s]
    /\ run[s] = "idle" => acc[s] = NewAccumulator /\ stat[s] = "idle"

IInv == TypeOK /\ RegistryInv /\ FreshInv /\ AcceptedIsAccounted

-----------------------------------------------------------------------------
\* What overwriting one field of a queue does to the others.
LEMMA QueueFields ==
  ASSUME NEW q \in QueueType
  PROVE  /\ q.ch \in Seq(Seqs) /\ q.localDrops \in Nat /\ q.closed \in BOOLEAN
         /\ \A c \in Seq(Seqs) :
              LET r == [q EXCEPT !.ch = c]
              IN  /\ r \in QueueType /\ r.ch = c
                  /\ r.closed = q.closed /\ r.localDrops = q.localDrops
         /\ \A n \in Nat :
              LET r == [q EXCEPT !.localDrops = n]
              IN  /\ r \in QueueType /\ r.ch = q.ch
                  /\ r.closed = q.closed /\ r.localDrops = n
         /\ LET r == [q EXCEPT !.closed = TRUE]
            IN  /\ r \in QueueType /\ r.ch = q.ch
                /\ r.closed /\ r.localDrops = q.localDrops
BY DEF QueueType

\* Capturing a source leaves the ring, the flag and the drops alone.
LEMMA CaptureEffect ==
  ASSUME NEW q \in QueueType, NEW port \in Ports
  PROVE  LET r == CaptureRemote(q, port)
         IN  /\ r \in QueueType /\ r.ch = q.ch
             /\ r.closed = q.closed /\ r.localDrops = q.localDrops
BY DEF QueueType, CaptureRemote

\* A queue keeps its type, its flag and its books through an Enqueue: the
\* packet is in the ring or among the drops.
LEMMA EnqueueEffect ==
  ASSUME NEW q \in QueueType, NEW s \in Seqs, Len(q.ch) <= RingSize
  PROVE  LET r == Enqueue(q, s)
         IN  /\ r \in QueueType
             /\ Len(r.ch) <= RingSize
             /\ r.closed = q.closed
             /\ Len(r.ch) + r.localDrops = Len(q.ch) + q.localDrops + 1
             /\ r.localDrops >= q.localDrops
<1>1. q.ch \in Seq(Seqs) /\ q.localDrops \in Nat
  BY DEF QueueType
<1>2. Len(q.ch) \in Nat /\ RingSize \in Nat
  BY <1>1, HubAssumption
<1>3. CASE Len(q.ch) < RingSize
  <2>1. PICK c \in Seq(Seqs) : c = Append(q.ch, s)
    <3>1. Append(q.ch, s) \in Seq(Seqs)
      BY <1>1
    <3> QED BY <3>1
  <2>2. PICK r : r = Enqueue(q, s)
    OBVIOUS
  <2>3. r = [q EXCEPT !.ch = c]
    BY <1>3, <2>1, <2>2 DEF Enqueue
  <2>4. /\ r \in QueueType /\ r.ch = c
        /\ r.closed = q.closed /\ r.localDrops = q.localDrops
    BY <2>3 DEF QueueType
  <2>5. /\ Len(r.ch) <= RingSize
        /\ Len(r.ch) + r.localDrops = Len(q.ch) + q.localDrops + 1
        /\ r.localDrops >= q.localDrops
    <3>1. Len(c) = Len(q.ch) + 1
      BY <1>1, <2>1
    <3> QED BY <1>1, <1>2, <1>3, <2>4, <3>1
  <2> QED BY <2>2, <2>4, <2>5
<1>4. CASE ~(Len(q.ch) < RingSize)
  <2>1. q.localDrops + 1 \in Nat
    BY <1>1
  <2>2. PICK r : r = Enqueue(q, s)
    OBVIOUS
  <2>3. r = [q EXCEPT !.localDrops = q.localDrops + 1]
    BY <1>4, <2>2 DEF Enqueue
  <2>4. /\ r \in QueueType /\ r.ch = q.ch
        /\ r.closed = q.closed /\ r.localDrops = q.localDrops + 1
    BY <2>1, <2>3 DEF QueueType
  <2>5. /\ Len(r.ch) <= RingSize
        /\ Len(r.ch) + r.localDrops = Len(q.ch) + q.localDrops + 1
        /\ r.localDrops >= q.localDrops
    BY <1>1, <1>2, <2>4
  <2> QED BY <2>2, <2>4, <2>5
<1> QED BY <1>3, <1>4

LEMMA NewQueueType == NewQueue \in QueueType
BY DEF NewQueue, QueueType

\* A packet is counted, or refused and then counted nowhere.
LEMMA CountedOrRefused ==
  ASSUME NEW a \in AccumulatorType, NEW s \in Seqs, NEW n \in Nat
  PROVE  /\ Observed(a, s) \in AccumulatorType
         /\ Bump(n, Refused(a, s)) \in Nat
         /\ Observed(a, s).localDrops = a.localDrops
         /\ Counted(Observed(a, s)) + Bump(n, Refused(a, s)) = Counted(a) + n + 1
<1>1. s \in Nat
  BY HubAssumption
<1>2. CASE Refused(a, s)
  <2>1. Observed(a, s) = a
    BY <1>2 DEF Observed
  <2>2. Bump(n, Refused(a, s)) = n + 1
    BY <1>2 DEF Bump
  <2>3. Counted(a) \in Nat
    BY CountersAreNumbers DEF Counted
  <2> QED BY <2>1, <2>2, <2>3
<1>3. CASE ~Refused(a, s)
  <2>1. PICK f : f = Observed(a, s)
    OBVIOUS
  <2>2. /\ f \in AccumulatorType
        /\ f.recv + f.duplicates = a.recv + a.duplicates + 1
        /\ f.localDrops = a.localDrops
    BY <1>1, <1>3, <2>1, ObservedEffect
  <2>3. /\ f.recv \in Nat /\ f.duplicates \in Nat /\ f.localDrops \in Nat
        /\ a.recv \in Nat /\ a.duplicates \in Nat /\ a.localDrops \in Nat
    BY <2>2, CountersAreNumbers
  <2>4. Counted(f) = Counted(a) + 1 /\ Counted(a) \in Nat
    BY <2>2, <2>3 DEF Counted
  <2>5. Bump(n, Refused(a, s)) = n
    BY <1>3 DEF Bump
  <2> QED BY <2>1, <2>2, <2>4, <2>5
<1> QED BY <1>2, <1>3

-----------------------------------------------------------------------------
\* The type invariant by the three groups of variables.
HubType ==
  /\ flows \in [Flows -> Sessions \cup {NoSession}]
  /\ queue \in [Sessions -> QueueType]
  /\ \A s \in Sessions : Len(queue[s].ch) <= RingSize
  /\ drainer \in [pc : {"top", "reading", "sending", "closing", "stopped"},
                  target : Sessions \cup {NoSession}, seq : Nat]
  /\ hubDone \in BOOLEAN /\ reads \in 0 .. MaxReads

RcvType ==
  /\ handle \in [Sessions -> {"none", "held", "released"}]
  /\ done \in [Sessions -> BOOLEAN]
  /\ run \in [Sessions -> {"idle", "loop", "ticking", "joining", "returned"}]
  /\ stat \in [Sessions -> {"idle", "loop", "draining", "exited"}]
  /\ acc \in [Sessions -> AccumulatorType]
  /\ final \in [Sessions -> AccumulatorType]

HistType ==
  /\ hist \in [Sessions -> [gated : Nat, seqs : SUBSET Seqs]]
  /\ atCancel \in [Sessions -> [gated : Nat, seqs : SUBSET Seqs]]
  /\ refused \in [Sessions -> Nat]
  /\ panicked \in BOOLEAN

LEMMA TypeParts == TypeOK <=> HubType /\ RcvType /\ HistType
BY DEF TypeOK, HubType, RcvType, HistType

LEMMA InitIInv == Init => IInv
<1> SUFFICES ASSUME Init PROVE IInv
  OBVIOUS
<1>1. TypeOK
  <2>1. HubType
    <3>1. /\ flows \in [Flows -> Sessions \cup {NoSession}]
          /\ queue \in [Sessions -> QueueType]
      BY NewQueueType DEF Init
    <3>2. \A s \in Sessions : Len(queue[s].ch) <= RingSize
      BY HubAssumption DEF Init, NewQueue
    <3>3. drainer \in [pc : {"top", "reading", "sending", "closing", "stopped"},
                      target : Sessions \cup {NoSession}, seq : Nat]
      BY DEF Init, Reading
    <3>4. hubDone \in BOOLEAN
      BY DEF Init
    <3>5. reads \in 0 .. MaxReads
      BY HubAssumption DEF Init
    <3> QED BY <3>1, <3>2, <3>3, <3>4, <3>5 DEF HubType
  <2>2. RcvType
    BY NewAccumulatorType DEF Init, RcvType
  <2>3. HistType
    BY DEF Init, HistType, NothingYet
  <2> QED BY <2>1, <2>2, <2>3, TypeParts
<1>2. RegistryInv
  BY DEF Init, RegistryInv, RegistryMatchesHandles, Reading
<1>3. FreshInv
  BY DEF Init, FreshInv
<1>4. AcceptedIsAccounted
  BY DEF Init, AcceptedIsAccounted, NewQueue, NothingYet, Counted, NewAccumulator
<1> QED BY <1>1, <1>2, <1>3, <1>4 DEF IInv

\* Steps that move a goroutine and touch neither registry nor books.
LEMMA DrainerMoves ==
  ASSUME IInv, DrainerCheck \/ DrainerIdle \/ DrainerFail
  PROVE  IInv'
<1>1. /\ drainer'.pc \in {"top", "reading", "closing"}
      /\ drainer'.target = drainer.target /\ drainer'.seq = drainer.seq
      /\ drainer' \in [pc : {"top", "reading", "sending", "closing", "stopped"},
                       target : Sessions \cup {NoSession}, seq : Nat]
      /\ drainer.pc # "stopped"
  BY DEF IInv, TypeOK, DrainerCheck, DrainerIdle, DrainerFail
<1>2. UNCHANGED <<flows, queue, hubDone, reads, rcvVars, histVars>>
  BY DEF DrainerCheck, DrainerIdle, DrainerFail
<1>3. TypeOK'
  BY <1>1, <1>2 DEF IInv, TypeOK, rcvVars, histVars
<1>4. RegistryInv'
  BY <1>1, <1>2 DEF IInv, RegistryInv, RegistryMatchesHandles, rcvVars, histVars
<1>5. FreshInv' /\ AcceptedIsAccounted'
  BY <1>2 DEF IInv, FreshInv, AcceptedIsAccounted, rcvVars, histVars
<1> QED BY <1>3, <1>4, <1>5 DEF IInv

LEMMA SessionMoves ==
  ASSUME IInv, NEW s \in Sessions,
         \/ TickSnapshot(s) \/ RunCancelled(s) \/ StatCancelled(s)
         \/ StatExit(s) \/ Cancel(s)
  PROVE  IInv'
<1>1. /\ UNCHANGED <<hubVars, handle, acc, final, hist, refused, panicked>>
      /\ RcvType /\ HubType /\ HistType
  BY TypeParts DEF IInv, TickSnapshot, RunCancelled, StatCancelled, StatExit,
                   Cancel, hubVars, histVars
<1>2. /\ \/ UNCHANGED run
         \/ /\ run[s] # "idle"
            /\ \E pc \in {"loop", "joining"} : run' = [run EXCEPT ![s] = pc]
      /\ \/ UNCHANGED stat
         \/ /\ stat[s] # "idle"
            /\ \E pc \in {"draining", "exited"} : stat' = [stat EXCEPT ![s] = pc]
      /\ \/ UNCHANGED done
         \/ done' = [done EXCEPT ![s] = TRUE] /\ handle[s] = "held"
      /\ \/ UNCHANGED atCancel
         \/ atCancel' = [atCancel EXCEPT ![s] = hist[s]]
  BY DEF TickSnapshot, RunCancelled, StatCancelled, StatExit, Cancel, histVars
<1>3. TypeOK'
  <2>1. HubType'
    BY <1>1 DEF HubType, hubVars
  <2>2. RcvType'
    BY <1>1, <1>2 DEF RcvType
  <2>3. HistType'
    BY <1>1, <1>2 DEF HistType
  <2> QED BY <2>1, <2>2, <2>3 DEF TypeOK, HubType, RcvType, HistType
<1>4. RegistryInv'
  BY <1>1 DEF IInv, RegistryInv, RegistryMatchesHandles, hubVars
<1>5. FreshInv'
  BY <1>1, <1>2 DEF IInv, FreshInv, RcvType
<1>6. AcceptedIsAccounted'
  BY <1>1 DEF IInv, AcceptedIsAccounted, hubVars
<1> QED BY <1>3, <1>4, <1>5, <1>6 DEF IInv

-----------------------------------------------------------------------------
\* The read: the target it takes is registered, and capturing the source
\* leaves the ring, the flag and the drops alone.
LEMMA DrainerReadIInv ==
  ASSUME IInv, NEW p \in Packets, DrainerRead(p)
  PROVE  IInv'
<1> DEFINE owner == flows[FlowOf[p.from]]
<1>1. p.from \in Sessions /\ p.port \in Ports /\ p.seq \in Seqs
  BY DEF Packets
<1>2. owner \in Sessions \cup {NoSession} /\ FlowOf[p.from] \in Flows
  BY <1>1, TypeParts DEF IInv, HubType, Flows
<1>3. UNCHANGED <<flows, hubDone, rcvVars, histVars>> /\ reads' = reads + 1
  BY DEF DrainerRead
<1>4. HubType /\ RcvType /\ HistType /\ reads < MaxReads
  BY TypeParts DEF IInv, DrainerRead
<1>5. /\ queue' \in [Sessions -> QueueType]
      /\ \A s \in Sessions : /\ queue'[s].ch = queue[s].ch
                             /\ queue'[s].closed = queue[s].closed
                             /\ queue'[s].localDrops = queue[s].localDrops
  <2>1. CASE owner # NoSession /\ Gate(p, owner)
    <3>1. queue' = [queue EXCEPT ![owner] = CaptureRemote(queue[owner], p.port)]
      BY <2>1 DEF DrainerRead
    <3>2. owner \in Sessions /\ queue[owner] \in QueueType
      BY <1>2, <1>4, <2>1 DEF HubType
    <3>3. LET r == CaptureRemote(queue[owner], p.port)
          IN  /\ r \in QueueType /\ r.ch = queue[owner].ch
              /\ r.closed = queue[owner].closed
              /\ r.localDrops = queue[owner].localDrops
      BY <1>1, <3>2, CaptureEffect
    <3> HIDE DEF owner
    <3> QED BY <1>4, <3>1, <3>2, <3>3 DEF HubType
  <2>2. CASE ~(owner # NoSession /\ Gate(p, owner))
    BY <1>4, <2>2 DEF DrainerRead, HubType
  <2> QED BY <2>1, <2>2
<1>6. \/ /\ drainer' = [pc |-> "sending", target |-> owner, seq |-> p.seq]
         /\ owner \in Sessions
      \/ drainer' = [drainer EXCEPT !.pc = "top"]
  BY <1>2 DEF DrainerRead
<1>7. TypeOK'
  <2>1. drainer' \in [pc : {"top", "reading", "sending", "closing", "stopped"},
                      target : Sessions \cup {NoSession}, seq : Nat]
    <3>1. p.seq \in Nat
      BY <1>1, HubAssumption
    <3> HIDE DEF owner
    <3> QED BY <1>4, <1>6, <3>1 DEF HubType
  <2>2. reads' \in 0 .. MaxReads
    BY <1>3, <1>4, HubAssumption DEF HubType
  <2>3. \A s \in Sessions : Len(queue'[s].ch) <= RingSize
    BY <1>4, <1>5 DEF HubType
  <2> QED BY <1>3, <1>4, <1>5, <2>1, <2>2, <2>3
          DEF TypeOK, HubType, RcvType, HistType, rcvVars, histVars
<1>8. RegistryInv'
  <2>1. RegistryMatchesHandles'
    <3>1. drainer.pc # "stopped"
      BY DEF DrainerRead
    <3> QED BY <1>3, <1>4, <1>5, <3>1
            DEF IInv, RegistryInv, RegistryMatchesHandles, HubType, rcvVars
  <2>2. drainer'.pc = "sending" =>
          /\ drainer'.target \in Sessions /\ drainer'.seq \in Seqs
          /\ flows'[FlowOf[drainer'.target]] = drainer'.target
    <3>1. CASE drainer' = [drainer EXCEPT !.pc = "top"]
      BY <1>4, <3>1 DEF HubType
    <3>2. CASE /\ drainer' = [pc |-> "sending", target |-> owner, seq |-> p.seq]
               /\ owner \in Sessions
      <4>1. FlowOf[owner] = FlowOf[p.from]
        BY <1>2, <3>2, HubAssumption
           DEF IInv, RegistryInv, RegistryMatchesHandles
      <4> QED BY <1>1, <1>3, <3>2, <4>1
    <3> QED BY <1>6, <3>1, <3>2
  <2>3. ~panicked'
    BY <1>3 DEF IInv, RegistryInv, histVars
  <2> QED BY <2>1, <2>2, <2>3 DEF RegistryInv
<1>9. FreshInv'
  BY <1>3 DEF IInv, FreshInv, rcvVars, histVars
<1>10. AcceptedIsAccounted'
  BY <1>3, <1>5 DEF IInv, AcceptedIsAccounted, rcvVars, histVars
<1> QED BY <1>7, <1>8, <1>9, <1>10 DEF IInv

\* The send: into the open ring of the session that is still registered, one
\* packet more in the books on either side.
LEMMA DrainerSendIInv ==
  ASSUME IInv, DrainerSend
  PROVE  IInv'
<1>1. PICK t \in Sessions : /\ t = drainer.target
                            /\ flows[FlowOf[t]] = t
  BY DEF IInv, RegistryInv, DrainerSend
<1>2. drainer.seq \in Seqs
  BY DEF IInv, RegistryInv, DrainerSend
<1>3. HubType /\ RcvType /\ HistType
  BY TypeParts DEF IInv
<1>4. FlowOf[t] \in Flows /\ t # NoSession
  BY HubAssumption DEF Flows
<1>5. ~queue[t].closed /\ handle[t] = "held"
  BY <1>1, <1>4 DEF IInv, RegistryInv, RegistryMatchesHandles
<1>6. /\ queue' = [queue EXCEPT ![t] = Enqueue(queue[t], drainer.seq)]
      /\ panicked' = (panicked \/ queue[t].closed)
      /\ hist' = [hist EXCEPT ![t] = [gated |-> hist[t].gated + 1,
                                      seqs  |-> hist[t].seqs \cup {drainer.seq}]]
      /\ drainer' = [Reading EXCEPT !.pc = "top"]
      /\ UNCHANGED <<flows, hubDone, reads, rcvVars, atCancel, refused>>
  BY <1>1 DEF DrainerSend
<1>7. PICK r : r = Enqueue(queue[t], drainer.seq)
  OBVIOUS
<1>8. /\ r \in QueueType /\ Len(r.ch) <= RingSize
      /\ r.closed = queue[t].closed
      /\ Len(r.ch) + r.localDrops
           = Len(queue[t].ch) + queue[t].localDrops + 1
  BY <1>2, <1>3, <1>7, EnqueueEffect DEF HubType
<1>9. queue' = [queue EXCEPT ![t] = r]
  BY <1>6, <1>7
<1>10. /\ drainer'.pc = "top" /\ drainer.pc = "sending"
       /\ drainer' \in [pc : {"top", "reading", "sending", "closing", "stopped"},
                        target : Sessions \cup {NoSession}, seq : Nat]
  BY <1>6 DEF Reading, DrainerSend
<1>11. TypeOK'
  <2>1. HubType'
    BY <1>3, <1>6, <1>8, <1>9, <1>10 DEF HubType
  <2>2. RcvType'
    BY <1>3, <1>6 DEF RcvType, rcvVars
  <2>3. HistType'
    <3>1. ~panicked'
      BY <1>5, <1>6 DEF IInv, RegistryInv
    <3>2. hist' \in [Sessions -> [gated : Nat, seqs : SUBSET Seqs]]
      BY <1>2, <1>3, <1>6 DEF HistType
    <3>3. panicked' \in BOOLEAN
      BY <1>6
    <3> QED BY <1>3, <1>6, <3>2, <3>3 DEF HistType
  <2> QED BY <2>1, <2>2, <2>3 DEF TypeOK, HubType, RcvType, HistType
<1>12. RegistryInv'
  <2>1. \A s \in Sessions : queue'[s].closed = queue[s].closed
    BY <1>3, <1>8, <1>9 DEF HubType
  <2>2. RegistryMatchesHandles'
    BY <1>3, <1>6, <1>10, <2>1
       DEF IInv, RegistryInv, RegistryMatchesHandles, HubType, rcvVars
  <2>3. ~panicked'
    BY <1>5, <1>6 DEF IInv, RegistryInv
  <2> QED BY <1>10, <2>2, <2>3 DEF RegistryInv
<1>13. FreshInv'
  BY <1>3, <1>5, <1>6 DEF IInv, FreshInv, rcvVars, HistType
<1>14. AcceptedIsAccounted'
  <2>1. ASSUME NEW s \in Sessions
        PROVE  hist'[s].gated =
                 Counted(acc'[s]) + refused'[s] + Len(queue'[s].ch)
                   + queue'[s].localDrops
    <3>1. acc' = acc /\ refused' = refused
      BY <1>6 DEF rcvVars
    <3>2. hist[s].gated =
            Counted(acc[s]) + refused[s] + Len(queue[s].ch)
              + queue[s].localDrops
      BY DEF IInv, AcceptedIsAccounted
    <3>3. CASE s = t
      <4>1. hist'[t].gated = hist[t].gated + 1 /\ queue'[t] = r
        BY <1>3, <1>6, <1>9 DEF HistType, HubType
      <4>2. Counted(acc[t]) \in Nat /\ refused[t] \in Nat
        BY <1>3, CountersAreNumbers DEF RcvType, HistType, Counted
      <4>3. /\ Len(queue[t].ch) \in Nat /\ queue[t].localDrops \in Nat
            /\ Len(r.ch) \in Nat /\ r.localDrops \in Nat
        BY <1>3, <1>8 DEF HubType, QueueType
      <4>4. hist[t].gated + 1
              = Counted(acc[t]) + refused[t] + Len(r.ch) + r.localDrops
        <5>1. PICK l \in Nat : l = Len(queue[t].ch)
          BY <4>3
        <5>2. PICK l2 \in Nat : l2 = Len(r.ch)
          BY <4>3
        <5>3. PICK d \in Nat : d = queue[t].localDrops
          BY <4>3
        <5>4. PICK c \in Nat : c = Counted(acc[t]) + refused[t]
          BY <4>2
        <5>5. hist[t].gated = c + l + d
          BY <3>2, <3>3, <5>1, <5>3, <5>4
        <5>6. l2 + r.localDrops = l + d + 1 /\ r.localDrops \in Nat
          BY <1>8, <4>3, <5>1, <5>2, <5>3
        <5>7. hist[t].gated + 1 = c + l2 + r.localDrops
          BY <5>5, <5>6
        <5> QED BY <5>2, <5>4, <5>7
      <4> QED BY <3>1, <3>3, <4>1, <4>4
    <3>4. CASE s # t
      BY <1>3, <1>6, <1>9, <3>1, <3>2, <3>4 DEF HistType, HubType
    <3> QED BY <3>3, <3>4
  <2> QED BY <2>1 DEF AcceptedIsAccounted
<1> QED BY <1>11, <1>12, <1>13, <1>14 DEF IInv

-----------------------------------------------------------------------------
\* The hub stops: what it closes was open, and the registry forgets all.
LEMMA CloseAllIInv ==
  ASSUME IInv, CloseAll
  PROVE  IInv'
<1>1. HubType /\ RcvType /\ HistType
  BY TypeParts DEF IInv
<1>2. /\ flows' = [f \in Flows |-> NoSession]
      /\ drainer' = [drainer EXCEPT !.pc = "stopped"]
      /\ UNCHANGED <<hubDone, reads, rcvVars, hist, atCancel, refused>>
  BY DEF CloseAll
<1>3. /\ queue' \in [Sessions -> QueueType]
      /\ \A s \in Sessions : /\ queue'[s].ch = queue[s].ch
                             /\ queue'[s].localDrops = queue[s].localDrops
  BY <1>1, QueueFields DEF CloseAll, HubType
<1>4. \A s \in Registered : ~queue[s].closed
  BY DEF Registered, IInv, RegistryInv, RegistryMatchesHandles
<1>5. panicked' = FALSE
  BY <1>4 DEF CloseAll, IInv, RegistryInv
<1>6. /\ drainer'.pc = "stopped"
      /\ drainer' \in [pc : {"top", "reading", "sending", "closing", "stopped"},
                       target : Sessions \cup {NoSession}, seq : Nat]
  BY <1>1, <1>2 DEF HubType
<1>7. TypeOK'
  <2>1. HubType'
    <3>1. flows' \in [Flows -> Sessions \cup {NoSession}]
      BY <1>2
    <3> QED BY <1>1, <1>2, <1>3, <1>6, <3>1 DEF HubType
  <2>2. RcvType' /\ HistType'
    BY <1>1, <1>2, <1>5 DEF RcvType, HistType, rcvVars
  <2> QED BY <2>1, <2>2 DEF TypeOK, HubType, RcvType, HistType
<1>8. RegistryInv'
  BY <1>2, <1>5, <1>6 DEF RegistryInv, RegistryMatchesHandles
<1>9. FreshInv' /\ AcceptedIsAccounted'
  BY <1>2, <1>3 DEF IInv, FreshInv, AcceptedIsAccounted, rcvVars
<1> QED BY <1>7, <1>8, <1>9 DEF IInv

\* A session registers a flow id nobody holds, with a new queue.
LEMMA TryRegisterIInv ==
  ASSUME IInv, NEW s \in Sessions, TryRegister(s)
  PROVE  IInv'
<1>1. HubType /\ RcvType /\ HistType
  BY TypeParts DEF IInv
<1>2. FlowOf[s] \in Flows /\ s # NoSession
  BY HubAssumption DEF Flows
<1>3. /\ handle[s] = "none" /\ drainer.pc # "sending"
      /\ flows[FlowOf[s]] = NoSession
      /\ flows' = [flows EXCEPT ![FlowOf[s]] = s]
      /\ queue' = [queue EXCEPT ![s] = NewQueue]
      /\ handle' = [handle EXCEPT ![s] = "held"]
      /\ UNCHANGED <<drainer, hubDone, reads, done, run, stat, acc, final,
                     histVars>>
  BY DEF TryRegister, ReadLocked, FlowFree
<1>4. /\ NewQueue.ch = <<>> /\ ~NewQueue.closed /\ NewQueue.localDrops = 0
      /\ Len(NewQueue.ch) = 0
  BY DEF NewQueue
<1>5. TypeOK'
  <2>1. HubType'
    <3>1. queue' \in [Sessions -> QueueType]
      BY <1>1, <1>3, NewQueueType DEF HubType
    <3>2. flows' \in [Flows -> Sessions \cup {NoSession}]
      BY <1>1, <1>3 DEF HubType
    <3>3. \A x \in Sessions : Len(queue'[x].ch) <= RingSize
      BY <1>1, <1>3, <1>4, HubAssumption DEF HubType
    <3> QED BY <1>1, <1>3, <3>1, <3>2, <3>3 DEF HubType
  <2>2. RcvType' /\ HistType'
    BY <1>1, <1>3 DEF RcvType, HistType, histVars
  <2> QED BY <2>1, <2>2 DEF TypeOK, HubType, RcvType, HistType
<1>6. RegistryInv'
  <2>1. ASSUME NEW f \in Flows, flows'[f] # NoSession
        PROVE  /\ handle'[flows'[f]] = "held"
               /\ FlowOf[flows'[f]] = f
               /\ ~queue'[flows'[f]].closed
    <3>1. CASE f = FlowOf[s]
      BY <1>1, <1>3, <1>4, <3>1 DEF HubType, RcvType
    <3>2. CASE f # FlowOf[s]
      <4>1. flows'[f] = flows[f] /\ flows[f] \in Sessions
        BY <1>1, <1>3, <2>1, <3>2 DEF HubType
      <4>2. handle[flows[f]] = "held" /\ FlowOf[flows[f]] = f
            /\ ~queue[flows[f]].closed
        BY <2>1, <4>1 DEF IInv, RegistryInv, RegistryMatchesHandles
      <4>3. flows[f] # s
        BY <3>2, <4>2
      <4> QED BY <1>1, <1>3, <4>1, <4>2, <4>3 DEF HubType, RcvType
    <3> QED BY <3>1, <3>2
  <2>2. ASSUME drainer'.pc # "stopped", NEW x \in Sessions, handle'[x] = "held"
        PROVE  flows'[FlowOf[x]] = x
    <3>1. CASE x = s
      BY <1>1, <1>2, <1>3, <3>1 DEF HubType
    <3>2. CASE x # s
      <4>1. flows[FlowOf[x]] = x
        BY <1>1, <1>3, <2>2, <3>2
           DEF RcvType, IInv, RegistryInv, RegistryMatchesHandles
      <4>2. FlowOf[x] # FlowOf[s]
        BY <1>3, <4>1, HubAssumption
      <4> QED BY <1>1, <1>3, <4>1, <4>2 DEF HubType
    <3> QED BY <3>1, <3>2
  <2>3. RegistryMatchesHandles'
    BY <2>1, <2>2 DEF RegistryMatchesHandles
  <2> QED BY <1>3, <2>3 DEF IInv, RegistryInv, histVars
<1>7. FreshInv'
  BY <1>1, <1>3 DEF IInv, FreshInv, RcvType, histVars
<1>8. AcceptedIsAccounted'
  <2>1. hist[s].gated = 0 /\ Counted(acc[s]) = 0
    BY <1>3 DEF IInv, FreshInv, NothingYet, NewAccumulator, Counted
  <2>2. refused[s] = 0
    <3>1. /\ refused[s] \in Nat /\ Len(queue[s].ch) \in Nat
          /\ queue[s].localDrops \in Nat
      BY <1>1 DEF HistType, HubType, QueueType
    <3>2. hist[s].gated = Counted(acc[s]) + refused[s] + Len(queue[s].ch)
                            + queue[s].localDrops
      BY DEF IInv, AcceptedIsAccounted
    <3> QED BY <2>1, <3>1, <3>2
  <2> QED BY <1>1, <1>3, <1>4, <2>1, <2>2
          DEF IInv, AcceptedIsAccounted, HubType, histVars
<1> QED BY <1>5, <1>6, <1>7, <1>8 DEF IInv

\* Release closes an open channel, if the hub has not closed it before.
LEMMA ReleaseIInv ==
  ASSUME IInv, NEW s \in Sessions, Release(s)
  PROVE  IInv'
<1>1. HubType /\ RcvType /\ HistType
  BY TypeParts DEF IInv
<1>2. FlowOf[s] \in Flows /\ s # NoSession
  BY HubAssumption DEF Flows
<1>3. /\ handle[s] = "held" /\ drainer.pc # "sending"
      /\ handle' = [handle EXCEPT ![s] = "released"]
      /\ UNCHANGED <<drainer, hubDone, reads, done, run, stat, acc, final,
                     hist, atCancel, refused>>
  BY DEF Release, ReadLocked
<1>4. CASE flows[FlowOf[s]] = s
  <2>1. /\ flows' = [flows EXCEPT ![FlowOf[s]] = NoSession]
        /\ queue' = [queue EXCEPT ![s].closed = TRUE]
        /\ panicked' = (panicked \/ queue[s].closed)
    BY <1>4 DEF Release, StillRegistered
  <2>2. panicked' = FALSE
    BY <1>2, <1>4, <2>1 DEF IInv, RegistryInv, RegistryMatchesHandles
  <2>3. /\ queue' \in [Sessions -> QueueType]
        /\ \A x \in Sessions : /\ queue'[x].ch = queue[x].ch
                               /\ queue'[x].localDrops = queue[x].localDrops
                               /\ x # s => queue'[x] = queue[x]
    BY <1>1, <2>1, QueueFields DEF HubType
  <2>4. TypeOK'
    BY <1>1, <1>3, <2>1, <2>2, <2>3 DEF TypeOK, HubType, RcvType, HistType
  <2>5. RegistryInv'
    <3>1. ASSUME NEW f \in Flows, flows'[f] # NoSession
          PROVE  /\ handle'[flows'[f]] = "held"
                 /\ FlowOf[flows'[f]] = f
                 /\ ~queue'[flows'[f]].closed
      <4>1. f # FlowOf[s] /\ flows'[f] = flows[f] /\ flows[f] \in Sessions
        BY <1>1, <1>2, <2>1, <3>1 DEF HubType
      <4>2. handle[flows[f]] = "held" /\ FlowOf[flows[f]] = f
            /\ ~queue[flows[f]].closed
        BY <3>1, <4>1 DEF IInv, RegistryInv, RegistryMatchesHandles
      <4>3. flows[f] # s
        BY <4>1, <4>2
      <4> QED BY <1>1, <1>3, <2>3, <4>1, <4>2, <4>3 DEF RcvType
    <3>2. ASSUME drainer'.pc # "stopped", NEW x \in Sessions,
                 handle'[x] = "held"
          PROVE  flows'[FlowOf[x]] = x
      <4>1. x # s /\ flows[FlowOf[x]] = x
        BY <1>1, <1>3, <3>2
           DEF RcvType, IInv, RegistryInv, RegistryMatchesHandles
      <4>2. FlowOf[x] # FlowOf[s]
        BY <1>4, <4>1
      <4> QED BY <1>1, <2>1, <4>1, <4>2 DEF HubType
    <3>3. RegistryMatchesHandles'
      BY <3>1, <3>2 DEF RegistryMatchesHandles
    <3> QED BY <1>3, <2>2, <3>3 DEF RegistryInv
  <2>6. FreshInv'
    BY <1>1, <1>3 DEF IInv, FreshInv, RcvType
  <2>7. AcceptedIsAccounted'
    BY <1>3, <2>3 DEF IInv, AcceptedIsAccounted
  <2> QED BY <2>4, <2>5, <2>6, <2>7 DEF IInv
<1>5. CASE flows[FlowOf[s]] # s
  <2>1. UNCHANGED <<flows, queue, panicked>>
    BY <1>5 DEF Release, StillRegistered
  <2>2. TypeOK'
    BY <1>1, <1>3, <2>1 DEF TypeOK, HubType, RcvType, HistType
  <2>3. RegistryInv'
    <3>1. ASSUME NEW f \in Flows, flows[f] # NoSession
          PROVE  handle'[flows[f]] = "held"
      <4>1. flows[f] \in Sessions /\ handle[flows[f]] = "held"
            /\ FlowOf[flows[f]] = f
        BY <1>1, <3>1 DEF HubType, IInv, RegistryInv, RegistryMatchesHandles
      <4>2. flows[f] # s
        BY <1>5, <4>1
      <4> QED BY <1>1, <1>3, <4>1, <4>2 DEF RcvType
    <3>2. RegistryMatchesHandles'
      BY <1>1, <1>3, <2>1, <3>1
         DEF IInv, RegistryInv, RegistryMatchesHandles, RcvType
    <3> QED BY <1>3, <2>1, <3>2 DEF IInv, RegistryInv
  <2>4. FreshInv' /\ AcceptedIsAccounted'
    BY <1>1, <1>3, <2>1 DEF IInv, FreshInv, AcceptedIsAccounted, RcvType
  <2> QED BY <2>2, <2>3, <2>4 DEF IInv
<1> QED BY <1>4, <1>5

-----------------------------------------------------------------------------
\* Pulling moves the hub's drops into the accumulator's.
LEMMA PullEffect ==
  ASSUME IInv, NEW s \in Sessions, PullLocalDrops(s)
  PROVE  /\ queue' \in [Sessions -> QueueType]
         /\ acc' \in [Sessions -> AccumulatorType]
         /\ \A x \in Sessions : /\ queue'[x].ch = queue[x].ch
                                /\ queue'[x].closed = queue[x].closed
                                /\ x # s => queue'[x] = queue[x] /\ acc'[x] = acc[x]
         /\ queue'[s].localDrops = 0
         /\ Counted(acc'[s]) = Counted(acc[s]) + queue[s].localDrops
<1>1. HubType /\ RcvType
  BY TypeParts DEF IInv
<1>2. /\ queue[s] \in QueueType /\ acc[s] \in AccumulatorType
      /\ queue[s].localDrops \in Nat
  BY <1>1 DEF HubType, RcvType, QueueType
<1>3. PICK a : a = LocalDropAdded(acc[s], queue[s].localDrops)
  OBVIOUS
<1>4. /\ a \in AccumulatorType
      /\ a.recv = acc[s].recv /\ a.duplicates = acc[s].duplicates
      /\ a.localDrops = acc[s].localDrops + queue[s].localDrops
  BY <1>2, <1>3, LocalDropEffect
<1>5. PICK q : q = [queue[s] EXCEPT !.localDrops = 0]
  OBVIOUS
<1>6. /\ q \in QueueType /\ q.ch = queue[s].ch /\ q.closed = queue[s].closed
      /\ q.localDrops = 0
  BY <1>2, <1>5 DEF QueueType
<1>7. queue' = [queue EXCEPT ![s] = q] /\ acc' = [acc EXCEPT ![s] = a]
  BY <1>3, <1>5 DEF PullLocalDrops
<1>8. Counted(a) = Counted(acc[s]) + queue[s].localDrops
  <2>1. /\ acc[s].recv \in Nat /\ acc[s].duplicates \in Nat
        /\ acc[s].localDrops \in Nat
    BY <1>2, CountersAreNumbers
  <2> QED BY <1>2, <1>4, <2>1 DEF Counted
<1> QED BY <1>1, <1>4, <1>6, <1>7, <1>8 DEF HubType, RcvType

LEMMA PullIInv ==
  ASSUME IInv, NEW s \in Sessions, TickPull(s) \/ RunReturn(s)
  PROVE  IInv'
<1>1. HubType /\ RcvType /\ HistType
  BY TypeParts DEF IInv
<1>2. /\ PullLocalDrops(s)
      /\ UNCHANGED <<flows, drainer, hubDone, reads, handle, done, stat,
                     histVars>>
      /\ run[s] # "idle"
      /\ \E pc \in {"ticking", "returned"} : run' = [run EXCEPT ![s] = pc]
  BY DEF TickPull, RunReturn
<1>3. /\ queue' \in [Sessions -> QueueType]
      /\ acc' \in [Sessions -> AccumulatorType]
      /\ \A x \in Sessions : /\ queue'[x].ch = queue[x].ch
                             /\ queue'[x].closed = queue[x].closed
                             /\ x # s => queue'[x] = queue[x] /\ acc'[x] = acc[x]
      /\ queue'[s].localDrops = 0
      /\ Counted(acc'[s]) = Counted(acc[s]) + queue[s].localDrops
  BY <1>2, PullEffect
<1>4. final' \in [Sessions -> AccumulatorType]
  <2>1. final' = final \/ final' = [final EXCEPT ![s] = acc'[s]]
    BY DEF TickPull, RunReturn
  <2>2. acc'[s] \in AccumulatorType
    BY <1>3
  <2>3. final \in [Sessions -> AccumulatorType]
    BY <1>1 DEF RcvType
  <2> QED BY <2>1, <2>2, <2>3
<1>5. TypeOK'
  <2>1. HubType'
    BY <1>1, <1>2, <1>3 DEF HubType
  <2>2. RcvType'
    <3>1. run' \in [Sessions -> {"idle", "loop", "ticking", "joining", "returned"}]
      BY <1>1, <1>2 DEF RcvType
    <3> QED BY <1>1, <1>2, <1>3, <1>4, <3>1 DEF RcvType
  <2>3. HistType'
    BY <1>1, <1>2 DEF HistType, histVars
  <2> QED BY <2>1, <2>2, <2>3 DEF TypeOK, HubType, RcvType, HistType
<1>6. RegistryInv'
  BY <1>1, <1>2, <1>3
     DEF IInv, RegistryInv, RegistryMatchesHandles, HubType, histVars
<1>7. FreshInv'
  BY <1>1, <1>2, <1>3 DEF IInv, FreshInv, RcvType, histVars
<1>8. AcceptedIsAccounted'
  <2>1. ASSUME NEW x \in Sessions
        PROVE  hist'[x].gated =
                 Counted(acc'[x]) + refused'[x] + Len(queue'[x].ch)
                   + queue'[x].localDrops
    <3>1. hist[x].gated =
            Counted(acc[x]) + refused[x] + Len(queue[x].ch)
              + queue[x].localDrops
      BY DEF IInv, AcceptedIsAccounted
    <3>2. hist' = hist /\ refused' = refused
      BY <1>2 DEF histVars
    <3>3. CASE x = s
      <4>1. /\ Counted(acc[s]) \in Nat /\ Len(queue[s].ch) \in Nat
            /\ queue[s].localDrops \in Nat /\ refused[s] \in Nat
        <5>1. acc[s] \in AccumulatorType /\ queue[s] \in QueueType
              /\ refused[s] \in Nat
          BY <1>1 DEF RcvType, HubType, HistType
        <5>2. Counted(acc[s]) \in Nat
          BY <5>1, CountersAreNumbers DEF Counted
        <5> QED BY <5>1, <5>2 DEF QueueType
      <4>2. /\ Len(queue'[s].ch) = Len(queue[s].ch)
            /\ queue'[s].localDrops = 0
            /\ Counted(acc'[s]) = Counted(acc[s]) + queue[s].localDrops
        BY <1>3
      <4>3. hist[s].gated =
              Counted(acc'[s]) + refused[s] + Len(queue'[s].ch)
                   + queue'[s].localDrops
        BY <3>1, <3>3, <4>1, <4>2
      <4> QED BY <3>2, <3>3, <4>3
    <3>4. CASE x # s
      BY <1>3, <3>1, <3>2, <3>4
    <3> QED BY <3>3, <3>4
  <2> QED BY <2>1 DEF AcceptedIsAccounted
<1> QED BY <1>5, <1>6, <1>7, <1>8 DEF IInv

\* Run starts on an empty accumulator, which it had.
LEMMA RunStartIInv ==
  ASSUME IInv, NEW s \in Sessions, RunStart(s)
  PROVE  IInv'
<1>1. HubType /\ RcvType /\ HistType
  BY TypeParts DEF IInv
<1>2. /\ handle[s] = "held" /\ run[s] = "idle"
      /\ run' = [run EXCEPT ![s] = "loop"]
      /\ stat' = [stat EXCEPT ![s] = "loop"]
      /\ acc' = [acc EXCEPT ![s] = NewAccumulator]
      /\ UNCHANGED <<hubVars, handle, done, final, histVars>>
  BY DEF RunStart
<1>3. acc' = acc
  BY <1>1, <1>2 DEF IInv, FreshInv, RcvType
<1>4. TypeOK'
  <2>1. HubType' /\ HistType'
    BY <1>1, <1>2 DEF HubType, HistType, hubVars, histVars
  <2>2. RcvType'
    BY <1>1, <1>2, <1>3 DEF RcvType
  <2> QED BY <2>1, <2>2 DEF TypeOK, HubType, RcvType, HistType
<1>5. RegistryInv'
  BY <1>2 DEF IInv, RegistryInv, RegistryMatchesHandles, hubVars, histVars
<1>6. FreshInv'
  BY <1>1, <1>2, <1>3 DEF IInv, FreshInv, RcvType, histVars
<1>7. AcceptedIsAccounted'
  BY <1>2, <1>3 DEF IInv, AcceptedIsAccounted, hubVars, histVars
<1> QED BY <1>4, <1>5, <1>6, <1>7 DEF IInv

\* A packet leaves the ring and is counted.
LEMMA StatObserveIInv ==
  ASSUME IInv, NEW s \in Sessions, StatObserve(s)
  PROVE  IInv'
<1>1. HubType /\ RcvType /\ HistType
  BY TypeParts DEF IInv
<1>2. /\ queue[s].ch # <<>> /\ stat[s] \in {"loop", "draining"}
      /\ acc' = [acc EXCEPT ![s] = Observed(acc[s], Head(queue[s].ch))]
      /\ queue' = [queue EXCEPT ![s].ch = Tail(queue[s].ch)]
      /\ UNCHANGED <<flows, drainer, hubDone, reads, handle, done, run, stat,
                     final, hist, atCancel, panicked>>
  BY DEF StatObserve
<1>3. queue[s] \in QueueType /\ acc[s] \in AccumulatorType
  BY <1>1 DEF HubType, RcvType
<1>4. queue[s].ch \in Seq(Seqs)
  BY <1>3 DEF QueueType
<1>5. /\ Head(queue[s].ch) \in Seqs /\ Tail(queue[s].ch) \in Seq(Seqs)
      /\ Len(Tail(queue[s].ch)) = Len(queue[s].ch) - 1
      /\ Len(queue[s].ch) \in Nat \ {0}
  BY <1>2, <1>4
<1>6. PICK a : a = Observed(acc[s], Head(queue[s].ch))
  OBVIOUS
<1>7. PICK n \in Nat : /\ refused' = [refused EXCEPT ![s] = n]
                       /\ Counted(a) + n = Counted(acc[s]) + refused[s] + 1
                       /\ a \in AccumulatorType
  <2>1. refused[s] \in Nat
    BY <1>1 DEF HistType
  <2>2. PICK n : n = Bump(refused[s], Refused(acc[s], Head(queue[s].ch)))
    OBVIOUS
  <2>3. /\ n \in Nat /\ a \in AccumulatorType
        /\ Counted(a) + n = Counted(acc[s]) + refused[s] + 1
    BY <1>3, <1>5, <1>6, <2>1, <2>2, CountedOrRefused
  <2>4. refused' = [refused EXCEPT ![s] = n]
    BY <2>2 DEF StatObserve
  <2> QED BY <2>3, <2>4
<1>8. PICK c \in Seq(Seqs) : c = Tail(queue[s].ch)
  BY <1>5
<1>9. PICK q : q = [queue[s] EXCEPT !.ch = c]
  OBVIOUS
<1>10. /\ q \in QueueType /\ q.ch = c /\ q.closed = queue[s].closed
       /\ q.localDrops = queue[s].localDrops
  BY <1>3, <1>9 DEF QueueType
<1>11. queue' = [queue EXCEPT ![s] = q] /\ acc' = [acc EXCEPT ![s] = a]
  BY <1>2, <1>6, <1>8, <1>9
<1>12. /\ Len(q.ch) + 1 = Len(queue[s].ch) /\ Len(q.ch) \in Nat
       /\ queue[s].localDrops \in Nat
  BY <1>3, <1>5, <1>8, <1>10 DEF QueueType
<1>13. TypeOK'
  <2>1. HubType'
    <3>1. Len(q.ch) <= RingSize
      BY <1>1, <1>5, <1>12, HubAssumption DEF HubType
    <3> QED BY <1>1, <1>2, <1>10, <1>11, <3>1 DEF HubType
  <2>2. RcvType' /\ HistType'
    BY <1>1, <1>2, <1>7, <1>11 DEF RcvType, HistType
  <2> QED BY <2>1, <2>2 DEF TypeOK, HubType, RcvType, HistType
<1>14. RegistryInv'
  BY <1>1, <1>2, <1>10, <1>11
     DEF IInv, RegistryInv, RegistryMatchesHandles, HubType
<1>15. FreshInv'
  <2>1. run[s] # "idle"
    BY <1>2 DEF IInv, FreshInv
  <2> QED BY <1>1, <1>2, <1>11, <2>1 DEF IInv, FreshInv, RcvType
<1>16. AcceptedIsAccounted'
  <2>1. ASSUME NEW x \in Sessions
        PROVE  hist'[x].gated =
                 Counted(acc'[x]) + refused'[x] + Len(queue'[x].ch)
                   + queue'[x].localDrops
    <3>1. hist[x].gated =
            Counted(acc[x]) + refused[x] + Len(queue[x].ch)
              + queue[x].localDrops
      BY DEF IInv, AcceptedIsAccounted
    <3>2. hist' = hist
      BY <1>2
    <3>3. CASE x = s
      <4>1. queue'[s] = q /\ acc'[s] = a /\ refused'[s] = n
        BY <1>1, <1>7, <1>11 DEF HubType, RcvType, HistType
      <4>2. Counted(acc[s]) \in Nat /\ Counted(a) \in Nat
            /\ refused[s] \in Nat
        <5>1. Counted(acc[s]) \in Nat
          BY <1>3, CountersAreNumbers DEF Counted
        <5>2. Counted(a) \in Nat
          BY <1>7, CountersAreNumbers DEF Counted
        <5> QED BY <1>1, <5>1, <5>2 DEF HistType
      <4>3. hist[s].gated = Counted(a) + n + Len(q.ch) + queue[s].localDrops
        <5>1. PICK l \in Nat : l = Len(queue[s].ch)
          BY <1>5
        <5>2. PICK l2 \in Nat : l2 = Len(q.ch)
          BY <1>12
        <5>3. PICK d \in Nat : d = queue[s].localDrops
          BY <1>12
        <5>4. PICK b \in Nat : b = Counted(acc[s]) + refused[s]
          BY <4>2
        <5>5. hist[s].gated = b + l + d
          BY <3>1, <3>3, <5>1, <5>3, <5>4
        <5>6. l2 + 1 = l
          BY <1>12, <5>1, <5>2
        <5>7. PICK e \in Nat : e = Counted(a) + n
          BY <4>2
        <5>8. e = b + 1
          BY <1>7, <5>4, <5>7
        <5>9. hist[s].gated = e + l2 + d
          BY <5>5, <5>6, <5>8
        <5> QED BY <4>2, <5>2, <5>3, <5>7, <5>9
      <4> QED BY <1>10, <3>2, <3>3, <4>1, <4>3
    <3>4. CASE x # s
      BY <1>1, <1>7, <1>11, <3>1, <3>2, <3>4 DEF HubType, RcvType, HistType
    <3> QED BY <3>3, <3>4
  <2> QED BY <2>1 DEF AcceptedIsAccounted
<1> QED BY <1>13, <1>14, <1>15, <1>16 DEF IInv

-----------------------------------------------------------------------------
LEMMA StepIInv == IInv /\ [Next]_vars => IInv'
<1> SUFFICES ASSUME IInv, [Next]_vars PROVE IInv'
  OBVIOUS
<1>1. CASE Drainer
  <2>1. CASE DrainerCheck \/ DrainerIdle \/ DrainerFail
    BY <2>1, DrainerMoves
  <2>2. ASSUME NEW p \in Packets, DrainerRead(p) PROVE IInv'
    BY <2>2, DrainerReadIInv
  <2>3. CASE DrainerSend
    BY <2>3, DrainerSendIInv
  <2>4. CASE CloseAll
    BY <2>4, CloseAllIInv
  <2> QED BY <1>1, <2>1, <2>2, <2>3, <2>4 DEF Drainer
<1>2. CASE CancelHub
  <2>1. hubDone' = TRUE
        /\ UNCHANGED <<flows, queue, drainer, reads, rcvVars, histVars>>
    BY <1>2 DEF CancelHub
  <2>2. TypeOK'
    BY <2>1 DEF IInv, TypeOK, rcvVars, histVars
  <2> QED BY <2>1, <2>2
          DEF IInv, RegistryInv, RegistryMatchesHandles, FreshInv,
              AcceptedIsAccounted, rcvVars, histVars
<1>3. ASSUME NEW s \in Sessions,
             \/ TryRegister(s) \/ Cancel(s) \/ RunStart(s)
             \/ Release(s) \/ Run(s) \/ Stat(s)
      PROVE  IInv'
  <2>1. CASE TryRegister(s)
    BY <2>1, TryRegisterIInv
  <2>2. CASE Release(s)
    BY <2>2, ReleaseIInv
  <2>3. CASE RunStart(s)
    BY <2>3, RunStartIInv
  <2>4. CASE TickPull(s) \/ RunReturn(s)
    BY <2>4, PullIInv
  <2>5. CASE StatObserve(s)
    BY <2>5, StatObserveIInv
  <2>6. CASE \/ TickSnapshot(s) \/ RunCancelled(s) \/ StatCancelled(s)
             \/ StatExit(s) \/ Cancel(s)
    BY <2>6, SessionMoves
  <2> QED BY <1>3, <2>1, <2>2, <2>3, <2>4, <2>5, <2>6 DEF Run, Stat
<1>4. CASE UNCHANGED vars
  BY <1>4 DEF IInv, TypeOK, RegistryInv, RegistryMatchesHandles, FreshInv,
              AcceptedIsAccounted, vars, hubVars, rcvVars, histVars
<1> QED BY <1>1, <1>2, <1>3, <1>4 DEF Next

LEMMA Invariance == Spec => []IInv
BY InitIInv, StepIInv, PTL DEF Spec

(* A ring never holds more than its capacity, a counter is never negative: *)
(* every variable keeps its type.                                          *)
THEOREM TypeCorrect == Spec => []TypeOK
<1>1. IInv => TypeOK
  BY DEF IInv
<1> QED BY <1>1, Invariance, PTL

(* The drainer never sends on a closed channel and no channel is closed    *)
(* twice, however sessions come and go and whenever the hub stops.         *)
THEOREM ChannelSafety == Spec => []NoChannelPanic
<1>1. IInv => NoChannelPanic
  BY DEF IInv, RegistryInv, NoChannelPanic
<1> QED BY <1>1, Invariance, PTL

(* A registered flow id leads to the open channel of the session that      *)
(* holds it, and a session that holds a handle is registered.              *)
THEOREM RegistrySound == Spec => []RegistryMatchesHandles
<1>1. IInv => RegistryMatchesHandles
  BY DEF IInv, RegistryInv
<1> QED BY <1>1, Invariance, PTL

(* On its way through the ring, or past it, into the accumulator, a        *)
(* datagram the hub accepted is counted exactly once; only one whose       *)
(* number the accumulator refuses is counted by none of its counters.      *)
THEOREM Accounting == Spec => []AcceptedIsAccounted
<1>1. IInv => AcceptedIsAccounted
  BY DEF IInv
<1> QED BY <1>1, Invariance, PTL

-----------------------------------------------------------------------------
(***************************************************************************)
(* Why the final snapshot covers the cancel.  statHub leaves only an empty *)
(* ring behind: after the cancel, or with the channel closed, when nothing *)
(* can be added to it any more.  What the books hold then, with the drops  *)
(* still at the hub, is all that was accepted; Run pulls those drops.      *)
(***************************************************************************)
Booked(s) == Counted(acc[s]) + refused[s] + queue[s].localDrops

ShutEmpty(s) == queue[s].closed /\ queue[s].ch = <<>>

Covered(s) ==
  /\ done[s] => atCancel[s].gated <= hist[s].gated
  /\ run[s] \in {"joining", "returned"} => done[s]
  /\ stat[s] = "draining" => done[s]
  /\ stat[s] = "exited" /\ ~done[s] => ShutEmpty(s)
  /\ stat[s] = "exited" /\ done[s] => atCancel[s].gated <= Booked(s)
  /\ run[s] = "returned" => Counted(final[s]) + refused[s] >= atCancel[s].gated
  /\ run[s] = "returned" => stat[s] = "exited"

CoverInv == \A s \in Sessions : Covered(s)

\* The books are numbers, and with an empty ring they are all there is.
LEMMA BookedFacts ==
  ASSUME IInv, NEW s \in Sessions
  PROVE  /\ Booked(s) \in Nat /\ Counted(acc[s]) \in Nat
         /\ Counted(final[s]) \in Nat /\ refused[s] \in Nat
         /\ hist[s].gated \in Nat /\ atCancel[s].gated \in Nat
         /\ queue[s].ch = <<>> => hist[s].gated = Booked(s)
<1>1. HubType /\ RcvType /\ HistType
  BY TypeParts DEF IInv
<1>2. /\ Counted(acc[s]) \in Nat /\ Counted(final[s]) \in Nat
      /\ queue[s].localDrops \in Nat
  <2>1. acc[s] \in AccumulatorType /\ final[s] \in AccumulatorType
    BY <1>1 DEF RcvType
  <2>2. Counted(acc[s]) \in Nat
    BY <2>1, CountersAreNumbers DEF Counted
  <2>3. Counted(final[s]) \in Nat
    BY <2>1, CountersAreNumbers DEF Counted
  <2>4. queue[s].localDrops \in Nat
    BY <1>1 DEF HubType, QueueType
  <2> QED BY <2>2, <2>3, <2>4
<1>3. /\ hist[s].gated \in Nat /\ atCancel[s].gated \in Nat
      /\ refused[s] \in Nat
  BY <1>1 DEF HistType
<1>4. ASSUME queue[s].ch = <<>> PROVE hist[s].gated = Booked(s)
  <2>1. Len(queue[s].ch) = 0
    BY <1>4
  <2>2. hist[s].gated
          = Counted(acc[s]) + refused[s] + Len(queue[s].ch)
              + queue[s].localDrops
    BY DEF IInv, AcceptedIsAccounted
  <2> QED BY <1>2, <1>3, <2>1, <2>2 DEF Booked
<1>5. Booked(s) \in Nat
  BY <1>2, <1>3 DEF Booked
<1> QED BY <1>2, <1>3, <1>4, <1>5

\* A step that leaves a session's goroutines where they are, its closed and
\* empty ring closed and empty, and takes nothing from the books.
LEMMA CoverFrame ==
  ASSUME IInv, IInv', NEW x \in Sessions, Covered(x),
         done'[x] = done[x], run'[x] = run[x], stat'[x] = stat[x],
         atCancel'[x] = atCancel[x], final'[x] = final[x],
         refused'[x] = refused[x], hist'[x].gated >= hist[x].gated,
         Booked(x)' >= Booked(x),
         stat[x] = "exited" /\ ShutEmpty(x) => ShutEmpty(x)'
  PROVE  Covered(x)'
<1>1. /\ Booked(x) \in Nat /\ hist[x].gated \in Nat
      /\ atCancel[x].gated \in Nat
  BY BookedFacts
<1>2. Booked(x)' \in Nat /\ hist'[x].gated \in Nat
  <2>1. HubType' /\ RcvType' /\ HistType'
    BY DEF IInv, TypeOK, HubType, RcvType, HistType
  <2>2. acc'[x] \in AccumulatorType /\ queue'[x].localDrops \in Nat
    BY <2>1 DEF RcvType, HubType, QueueType
  <2>3. Counted(acc'[x]) \in Nat
    BY <2>2, CountersAreNumbers DEF Counted
  <2>4. refused'[x] \in Nat
    BY <2>1 DEF HistType
  <2> QED BY <2>1, <2>2, <2>3, <2>4 DEF Booked, HistType
<1>3. done'[x] => atCancel'[x].gated <= hist'[x].gated
  BY <1>1, <1>2 DEF Covered
<1>4. stat'[x] = "exited" /\ done'[x] => atCancel'[x].gated <= Booked(x)'
  BY <1>1, <1>2 DEF Covered
<1>5. /\ run'[x] \in {"joining", "returned"} => done'[x]
      /\ stat'[x] = "draining" => done'[x]
      /\ stat'[x] = "exited" /\ ~done'[x] => ShutEmpty(x)'
      /\ run'[x] = "returned" =>
           Counted(final'[x]) + refused'[x] >= atCancel'[x].gated
      /\ run'[x] = "returned" => stat'[x] = "exited"
  BY DEF Covered
<1> QED BY <1>3, <1>4, <1>5 DEF Covered

\* Nothing of a session changes, or only its registration and its source.
LEMMA CoverUntouched ==
  ASSUME IInv, IInv', NEW x \in Sessions, Covered(x),
         done'[x] = done[x], run'[x] = run[x], stat'[x] = stat[x],
         atCancel'[x] = atCancel[x], final'[x] = final[x],
         hist'[x] = hist[x], acc'[x] = acc[x], refused'[x] = refused[x],
         queue'[x].ch = queue[x].ch,
         queue'[x].localDrops = queue[x].localDrops,
         queue[x].closed => queue'[x].closed
  PROVE  Covered(x)'
<1>1. Booked(x)' = Booked(x) /\ Booked(x) \in Nat /\ hist[x].gated \in Nat
  BY BookedFacts DEF Booked
<1>2. Booked(x)' >= Booked(x) /\ hist'[x].gated >= hist[x].gated
  BY <1>1
<1>3. ShutEmpty(x) => ShutEmpty(x)'
  BY DEF ShutEmpty
<1> QED BY <1>2, <1>3, CoverFrame

LEMMA CoverInit == Init => CoverInv
<1> SUFFICES ASSUME Init, NEW s \in Sessions PROVE Covered(s)
  BY DEF CoverInv
<1>1. ~done[s] /\ run[s] = "idle" /\ stat[s] = "idle"
  BY DEF Init
<1> QED BY <1>1 DEF Covered

\* Reading, idling and closing leave the rings' contents and drops alone.
LEMMA DrainerKeepsBooks ==
  ASSUME HubType, Drainer, ~DrainerSend, NEW x \in Sessions
  PROVE  /\ queue'[x].ch = queue[x].ch
         /\ queue'[x].localDrops = queue[x].localDrops
         /\ queue[x].closed => queue'[x].closed
<1>1. CASE CloseAll
  BY <1>1, QueueFields DEF CloseAll, HubType
<1>2. ASSUME NEW p \in Packets, DrainerRead(p)
      PROVE  /\ queue'[x].ch = queue[x].ch
             /\ queue'[x].localDrops = queue[x].localDrops
             /\ queue[x].closed => queue'[x].closed
  <2> DEFINE owner == flows[FlowOf[p.from]]
  <2>1. p.port \in Ports
    BY DEF Packets
  <2>2. \/ queue' = [queue EXCEPT ![owner] = CaptureRemote(queue[owner], p.port)]
        \/ UNCHANGED queue
    BY <1>2 DEF DrainerRead
  <2>3. CASE UNCHANGED queue
    BY <2>3
  <2>4. CASE queue' = [queue EXCEPT ![owner] = CaptureRemote(queue[owner], p.port)]
    <3>1. queue[x] \in QueueType
      BY DEF HubType
    <3>2. LET r == CaptureRemote(queue[x], p.port)
          IN  /\ r.ch = queue[x].ch /\ r.closed = queue[x].closed
              /\ r.localDrops = queue[x].localDrops
      BY <2>1, <3>1, CaptureEffect
    <3> HIDE DEF owner
    <3>3. queue'[x] = queue[x] \/ queue'[x] = CaptureRemote(queue[x], p.port)
      BY <2>4 DEF HubType
    <3> QED BY <3>2, <3>3
  <2> QED BY <2>2, <2>3, <2>4
<1>3. CASE DrainerCheck \/ DrainerIdle \/ DrainerFail
  BY <1>3 DEF DrainerCheck, DrainerIdle, DrainerFail
<1> QED BY <1>1, <1>2, <1>3 DEF Drainer

\* The drainer: only a send changes a session's books, and only with its
\* channel open.
LEMMA CoverDrainer ==
  ASSUME IInv, IInv', CoverInv, Drainer, NEW x \in Sessions
  PROVE  Covered(x)'
<1>1. HubType /\ RcvType /\ HistType /\ Covered(x)
  BY TypeParts DEF IInv, CoverInv
<1>2. UNCHANGED <<rcvVars, atCancel, refused>>
  BY DEF Drainer, DrainerCheck, DrainerIdle, DrainerFail, DrainerRead,
         DrainerSend, CloseAll, histVars
<1>3. CASE DrainerSend
  <2>1. PICK t \in Sessions : /\ t = drainer.target
                              /\ flows[FlowOf[t]] = t
    BY <1>3 DEF IInv, RegistryInv, DrainerSend
  <2>2. drainer.seq \in Seqs
    BY <1>3 DEF IInv, RegistryInv, DrainerSend
  <2>3. FlowOf[t] \in Flows /\ t # NoSession
    BY HubAssumption DEF Flows
  <2>4. ~queue[t].closed
    BY <2>1, <2>3 DEF IInv, RegistryInv, RegistryMatchesHandles
  <2>5. PICK r : r = Enqueue(queue[t], drainer.seq)
    OBVIOUS
  <2>6. r \in QueueType /\ r.localDrops >= queue[t].localDrops
    BY <1>1, <2>2, <2>5, EnqueueEffect DEF HubType
  <2>7. /\ queue' = [queue EXCEPT ![t] = r]
        /\ hist' = [hist EXCEPT ![t] = [gated |-> hist[t].gated + 1,
                                        seqs |-> hist[t].seqs \cup {drainer.seq}]]
    BY <1>3, <2>1, <2>5 DEF DrainerSend
  <2>8. CASE x = t
    <3>1. queue'[x] = r /\ hist'[x].gated = hist[x].gated + 1
      BY <1>1, <2>7, <2>8 DEF HubType, HistType
    <3>2. /\ hist[x].gated \in Nat /\ Counted(acc[x]) \in Nat
          /\ queue[x].localDrops \in Nat /\ r.localDrops \in Nat
          /\ refused[x] \in Nat
      BY <1>1, <2>6, BookedFacts DEF HubType, QueueType
    <3>3. hist'[x].gated >= hist[x].gated
      BY <3>1, <3>2
    <3>4. Booked(x)' = Counted(acc[x]) + refused[x] + r.localDrops
      BY <1>2, <3>1 DEF Booked, rcvVars
    <3>5. Booked(x)' >= Booked(x)
      <4>1. Booked(x) = Counted(acc[x]) + refused[x] + queue[x].localDrops
        BY DEF Booked
      <4> QED BY <2>6, <2>8, <3>2, <3>4, <4>1
    <3>6. ~ShutEmpty(x)
      BY <2>4, <2>8 DEF ShutEmpty
    <3> QED BY <1>1, <1>2, <3>3, <3>5, <3>6, CoverFrame DEF rcvVars
  <2>9. CASE x # t
    <3>1. queue'[x] = queue[x] /\ hist'[x] = hist[x]
      BY <1>1, <2>7, <2>9 DEF HubType, HistType
    <3> QED BY <1>1, <1>2, <3>1, CoverUntouched DEF rcvVars
  <2> QED BY <2>8, <2>9
<1>4. CASE ~DrainerSend
  <2>1. hist' = hist
    BY <1>4 DEF Drainer, DrainerCheck, DrainerIdle, DrainerFail, DrainerRead,
                CloseAll, histVars
  <2> QED BY <1>1, <1>2, <1>4, <2>1, DrainerKeepsBooks, CoverUntouched DEF rcvVars
<1> QED BY <1>3, <1>4

\* A step of one session leaves the variables of every other alone.
LEMMA OthersUntouched ==
  ASSUME IInv, NEW s \in Sessions, NEW x \in Sessions, x # s,
         \/ TryRegister(s) \/ Cancel(s) \/ RunStart(s)
         \/ Release(s) \/ Run(s) \/ Stat(s)
  PROVE  /\ done'[x] = done[x] /\ run'[x] = run[x] /\ stat'[x] = stat[x]
         /\ atCancel'[x] = atCancel[x] /\ final'[x] = final[x]
         /\ hist'[x] = hist[x] /\ refused'[x] = refused[x]
         /\ acc'[x] = acc[x] /\ queue'[x] = queue[x]
<1>0. HubType /\ RcvType /\ HistType
  BY TypeParts DEF IInv
<1>1. CASE TryRegister(s)
  BY <1>0, <1>1 DEF TryRegister, histVars, HubType
<1>2. CASE Cancel(s)
  BY <1>0, <1>2 DEF Cancel, hubVars, RcvType, HistType
<1>3. CASE RunStart(s)
  BY <1>0, <1>3 DEF RunStart, hubVars, histVars, RcvType
<1>4. CASE Release(s)
  BY <1>0, <1>4 DEF Release, HubType
<1>5. CASE TickPull(s)
  BY <1>0, <1>5, PullEffect DEF TickPull, histVars, RcvType
<1>6. CASE TickSnapshot(s) \/ RunCancelled(s)
  BY <1>0, <1>6 DEF TickSnapshot, RunCancelled, hubVars, histVars, RcvType
<1>7. CASE RunReturn(s)
  BY <1>0, <1>7, PullEffect DEF RunReturn, histVars, RcvType
<1>8. CASE StatObserve(s)
  BY <1>0, <1>8 DEF StatObserve, HubType, RcvType, HistType
<1>9. CASE StatCancelled(s) \/ StatExit(s)
  BY <1>0, <1>9 DEF StatCancelled, StatExit, hubVars, histVars, RcvType
<1> QED BY <1>1, <1>2, <1>3, <1>4, <1>5, <1>6, <1>7, <1>8, <1>9 DEF Run, Stat

LEMMA CoverOthers ==
  ASSUME IInv, IInv', CoverInv, NEW s \in Sessions, NEW x \in Sessions, x # s,
         \/ TryRegister(s) \/ Cancel(s) \/ RunStart(s)
         \/ Release(s) \/ Run(s) \/ Stat(s)
  PROVE  Covered(x)'
<1>1. Covered(x)
  BY DEF CoverInv
<1>2. /\ done'[x] = done[x] /\ run'[x] = run[x] /\ stat'[x] = stat[x]
      /\ atCancel'[x] = atCancel[x] /\ final'[x] = final[x]
      /\ hist'[x] = hist[x] /\ refused'[x] = refused[x]
      /\ acc'[x] = acc[x] /\ queue'[x] = queue[x]
  BY OthersUntouched
<1> QED BY <1>1, <1>2, CoverUntouched

\* Registration and Run's start: statHub has not exited yet.
LEMMA CoverOpens ==
  ASSUME IInv, IInv', CoverInv, NEW s \in Sessions,
         TryRegister(s) \/ RunStart(s) \/ Release(s)
  PROVE  Covered(s)'
<1>1. HubType /\ RcvType /\ HistType /\ Covered(s)
  BY TypeParts DEF IInv, CoverInv
<1>2. CASE TryRegister(s)
  <2>1. run[s] = "idle" /\ ~done[s] /\ stat[s] = "idle"
    BY <1>2 DEF TryRegister, IInv, FreshInv
  <2>2. run'[s] = "idle" /\ ~done'[s] /\ stat'[s] = "idle"
    BY <1>2, <2>1 DEF TryRegister
  <2> QED BY <2>2 DEF Covered
<1>3. CASE RunStart(s)
  <2>1. run'[s] = "loop" /\ stat'[s] = "loop"
    BY <1>1, <1>3 DEF RunStart, RcvType
  <2>2. UNCHANGED <<done, hist, atCancel>>
    BY <1>3 DEF RunStart, histVars
  <2> QED BY <1>1, <2>1, <2>2 DEF Covered
<1>4. CASE Release(s)
  <2>1. /\ queue'[s].ch = queue[s].ch
        /\ queue'[s].localDrops = queue[s].localDrops
        /\ queue[s].closed => queue'[s].closed
    <3>1. CASE StillRegistered(s)
      <4>1. queue' = [queue EXCEPT ![s].closed = TRUE]
        BY <1>4, <3>1 DEF Release
      <4> QED BY <1>1, <4>1, QueueFields DEF HubType
    <3>2. CASE ~StillRegistered(s)
      <4>1. UNCHANGED queue
        BY <1>4, <3>2 DEF Release
      <4> QED BY <4>1
    <3> QED BY <3>1, <3>2
  <2>2. UNCHANGED <<done, run, stat, acc, final, hist, atCancel, refused>>
    BY <1>4 DEF Release
  <2> QED BY <1>1, <2>1, <2>2, CoverUntouched
<1> QED BY <1>2, <1>3, <1>4

\* The cancel: if statHub is gone, the channel was closed and empty, so the
\* books already hold all that was accepted.
LEMMA CoverCancel ==
  ASSUME IInv, IInv', CoverInv, NEW s \in Sessions, Cancel(s)
  PROVE  Covered(s)'
<1>1. RcvType /\ HistType /\ Covered(s)
  BY TypeParts DEF IInv, CoverInv
<1>2. /\ ~done[s] /\ done'[s]
      /\ atCancel'[s] = hist[s]
      /\ UNCHANGED <<queue, run, stat, acc, final, hist, refused>>
  BY <1>1 DEF Cancel, hubVars, RcvType, HistType
<1>3. run[s] # "returned"
  BY <1>1, <1>2 DEF Covered
<1>4. stat[s] = "exited" => hist[s].gated = Booked(s)
  BY <1>1, <1>2, BookedFacts DEF Covered, ShutEmpty
<1>5. Booked(s)' = Booked(s) /\ Booked(s) \in Nat /\ hist[s].gated \in Nat
  BY <1>2, BookedFacts DEF Booked
<1>6. /\ atCancel'[s].gated <= hist'[s].gated
      /\ stat'[s] = "exited" => atCancel'[s].gated <= Booked(s)'
  BY <1>2, <1>4, <1>5
<1> QED BY <1>2, <1>3, <1>6 DEF Covered

\* Run: a pull moves drops inside the books, the last one into the result.
LEMMA CoverRun ==
  ASSUME IInv, IInv', CoverInv, NEW s \in Sessions, Run(s)
  PROVE  Covered(s)'
<1>1. RcvType /\ Covered(s)
  BY TypeParts DEF IInv, CoverInv
<1>2. CASE TickSnapshot(s) \/ RunCancelled(s)
  <2>1. /\ run'[s] = "loop" \/ (run'[s] = "joining" /\ done[s])
        /\ UNCHANGED <<done, stat, acc, queue, hist, atCancel, refused>>
    BY <1>1, <1>2
       DEF TickSnapshot, RunCancelled, hubVars, histVars, RcvType
  <2>2. Booked(s)' = Booked(s) /\ ShutEmpty(s)' = ShutEmpty(s)
    BY <2>1 DEF Booked, ShutEmpty
  <2> QED BY <1>1, <2>1, <2>2 DEF Covered
<1>3. CASE TickPull(s) \/ RunReturn(s)
  <2>1. PullLocalDrops(s) /\ UNCHANGED <<done, stat, hist, atCancel, refused>>
    BY <1>3 DEF TickPull, RunReturn, histVars
  <2>2. /\ queue'[s].ch = queue[s].ch /\ queue'[s].closed = queue[s].closed
        /\ queue'[s].localDrops = 0
        /\ Counted(acc'[s]) = Counted(acc[s]) + queue[s].localDrops
    BY <2>1, PullEffect
  <2>3. /\ Booked(s) \in Nat /\ atCancel[s].gated \in Nat
        /\ Counted(acc[s]) \in Nat /\ refused[s] \in Nat
        /\ queue[s].localDrops \in Nat
    <3>1. HubType
      BY TypeParts DEF IInv
    <3> QED BY <3>1, BookedFacts DEF HubType, QueueType
  <2>4. Counted(acc'[s]) + refused[s] = Booked(s) /\ Booked(s)' = Booked(s)
    <3>1. Counted(acc'[s]) + refused[s] = Booked(s)
      BY <2>2, <2>3 DEF Booked
    <3>2. Booked(s)' = Counted(acc'[s]) + refused[s] + 0
      BY <2>1, <2>2 DEF Booked
    <3> QED BY <2>3, <3>1, <3>2
  <2>5. ShutEmpty(s)' <=> ShutEmpty(s)
    BY <2>2 DEF ShutEmpty
  <2>6. CASE TickPull(s)
    <3>1. run'[s] = "ticking"
      BY <1>1, <2>6 DEF TickPull, RcvType
    <3> QED BY <1>1, <2>1, <2>4, <2>5, <3>1 DEF Covered
  <2>7. CASE RunReturn(s)
    <3>1. /\ run[s] = "joining" /\ stat[s] = "exited"
          /\ run'[s] = "returned" /\ final'[s] = acc'[s]
      BY <1>1, <2>7 DEF RunReturn, RcvType
    <3>2. done[s] /\ atCancel[s].gated <= Booked(s)
      BY <1>1, <3>1 DEF Covered
    <3>3. Counted(final'[s]) + refused'[s] >= atCancel'[s].gated
      BY <2>1, <2>3, <2>4, <3>1, <3>2
    <3> QED BY <1>1, <2>1, <2>4, <3>1, <3>2, <3>3 DEF Covered
  <2> QED BY <1>3, <2>6, <2>7
<1> QED BY <1>2, <1>3 DEF Run

\* statHub: it exits with nothing left, by a close or after the cancel.
LEMMA CoverStat ==
  ASSUME IInv, IInv', CoverInv, NEW s \in Sessions, Stat(s)
  PROVE  Covered(s)'
<1>1. RcvType /\ Covered(s)
  BY TypeParts DEF IInv, CoverInv
<1>2. UNCHANGED <<done, run, final, hist, atCancel>>
  BY DEF Stat, StatObserve, StatCancelled, StatExit, histVars
<1>3. run'[s] # "returned"
  <2>1. stat[s] \in {"loop", "draining"}
    BY DEF Stat, StatObserve, StatCancelled, StatExit
  <2> QED BY <1>1, <1>2, <2>1 DEF Covered
<1>4. CASE StatObserve(s)
  BY <1>3, <1>1, <1>2, <1>4 DEF StatObserve, Covered
<1>5. CASE StatCancelled(s)
  <2>1. stat'[s] = "draining" /\ done[s]
    BY <1>1, <1>5 DEF StatCancelled, RcvType
  <2> QED BY <1>3, <1>1, <1>2, <2>1 DEF Covered
<1>6. CASE StatExit(s)
  <2>1. /\ queue[s].ch = <<>> /\ (stat[s] = "draining" \/ queue[s].closed)
        /\ UNCHANGED <<queue, acc, refused>>
    BY <1>6 DEF StatExit, StatDone, NothingLeft, hubVars, histVars
  <2>2. /\ hist[s].gated = Booked(s)
        /\ Booked(s)' = Booked(s) /\ ShutEmpty(s)' = ShutEmpty(s)
    BY <2>1, BookedFacts DEF Booked, ShutEmpty
  <2>3. ~done[s] => ShutEmpty(s)
    BY <1>1, <2>1 DEF Covered, ShutEmpty
  <2>4. stat'[s] = "exited"
    BY <1>1, <1>6 DEF StatExit, RcvType
  <2> QED BY <1>3, <1>1, <1>2, <2>2, <2>3, <2>4 DEF Covered
<1> QED BY <1>4, <1>5, <1>6 DEF Stat

LEMMA CoverStep == IInv /\ IInv' /\ CoverInv /\ [Next]_vars => CoverInv'
<1> SUFFICES ASSUME IInv, IInv', CoverInv, [Next]_vars, NEW x \in Sessions
             PROVE  Covered(x)'
  BY DEF CoverInv
<1>1. CASE Drainer
  BY <1>1, CoverDrainer
<1>2. ASSUME NEW s \in Sessions,
             \/ TryRegister(s) \/ Cancel(s) \/ RunStart(s)
             \/ Release(s) \/ Run(s) \/ Stat(s)
      PROVE  Covered(x)'
  <2>1. CASE x = s
    BY <1>2, <2>1, CoverOpens, CoverCancel, CoverRun, CoverStat
  <2>2. CASE x # s
    BY <1>2, <2>2, CoverOthers
  <2> QED BY <2>1, <2>2
<1>3. CASE CancelHub \/ UNCHANGED vars
  <2>1. UNCHANGED <<queue, done, run, stat, acc, final, hist, atCancel, refused>>
    BY <1>3 DEF CancelHub, vars, hubVars, rcvVars, histVars
  <2> QED BY <2>1 DEF CoverInv, Covered, Booked, ShutEmpty
<1> QED BY <1>1, <1>2, <1>3 DEF Next

(* The snapshot Run returns counts every datagram the hub had accepted     *)
(* when the session was cancelled, except those whose number was refused:  *)
(* none is left in the ring or among the drops the hub holds.              *)
THEOREM FinalCovers == Spec => []FinalCoversCancel
<1>1. Spec => []CoverInv
  BY Invariance, CoverInit, CoverStep, PTL DEF Spec
<1>2. CoverInv => FinalCoversCancel
  BY DEF CoverInv, Covered, FinalCoversCancel
<1> QED BY <1>1, <1>2, PTL

-----------------------------------------------------------------------------
(***************************************************************************)
(* Why the loss a session reports is honest.  Of the numbers accepted, D   *)
(* are those observed: lost never exceeds the gaps of D, and as long as D  *)
(* fits the map it is exactly those gaps.  What was accepted but neither   *)
(* observed nor still in the ring was dropped or refused, packet by        *)
(* packet.  The state does not say what D is once the map is full: the     *)
(* invariant is that there is such a D.                                    *)
(***************************************************************************)
InRing(s) == {queue[s].ch[i] : i \in DOMAIN queue[s].ch}

Uncounted(s, D) == hist[s].seqs \ (D \cup InRing(s))

Unseen(s) == acc[s].localDrops + queue[s].localDrops + refused[s]

Honest(s, D) ==
  /\ Books(acc[s], D)
  /\ D \subseteq hist[s].seqs /\ InRing(s) \subseteq hist[s].seqs
  /\ atCancel[s].seqs \subseteq hist[s].seqs
  /\ Cardinality(Uncounted(s, D)) <= Unseen(s)
  /\ stat[s] = "exited" /\ done[s] =>
       Cardinality(atCancel[s].seqs \ D) <= Unseen(s)
  /\ run[s] = "returned" =>
       /\ stat[s] = "exited" /\ final[s] = acc[s]
       /\ Cardinality(atCancel[s].seqs \ D) <= final[s].localDrops + refused[s]

HonestInv == \A s \in Sessions : \E D \in SUBSET Seqs : Honest(s, D)

\* Whatever is made of sequence numbers is finite.
LEMMA SeqsFinite ==
  /\ IsFiniteSet(Seqs) /\ Cardinality(Seqs) \in Nat
  /\ \A S \in SUBSET Seqs : /\ IsFiniteSet(S) /\ Cardinality(S) \in Nat
                            /\ Cardinality(S) <= Cardinality(Seqs)
                            /\ \A T \in SUBSET S : Cardinality(T) <= Cardinality(S)
<1>1. IsFiniteSet(Seqs) /\ Cardinality(Seqs) \in Nat
  BY HubAssumption, FS_CardinalityType
<1>2. ASSUME NEW S \in SUBSET Seqs
      PROVE  /\ IsFiniteSet(S) /\ Cardinality(S) \in Nat
             /\ Cardinality(S) <= Cardinality(Seqs)
             /\ \A T \in SUBSET S : Cardinality(T) <= Cardinality(S)
  <2>1. IsFiniteSet(S) /\ Cardinality(S) <= Cardinality(Seqs)
    BY <1>1, FS_Subset
  <2> QED BY <2>1, FS_Subset, FS_CardinalityType
<1> QED BY <1>1, <1>2

\* The sets and the counts of a session.
LEMMA HonestFacts ==
  ASSUME IInv, NEW s \in Sessions, NEW D \in SUBSET Seqs
  PROVE  /\ hist[s].seqs \in SUBSET Seqs /\ atCancel[s].seqs \in SUBSET Seqs
         /\ acc[s].localDrops \in Nat /\ queue[s].localDrops \in Nat
         /\ refused[s] \in Nat /\ Unseen(s) \in Nat
         /\ Uncounted(s, D) \in SUBSET Seqs
         /\ queue[s].ch = <<>> => Uncounted(s, D) = hist[s].seqs \ D
<1>1. HubType /\ RcvType /\ HistType
  BY TypeParts DEF IInv
<1>2. hist[s].seqs \in SUBSET Seqs /\ atCancel[s].seqs \in SUBSET Seqs
  BY <1>1 DEF HistType
<1>3. /\ acc[s].localDrops \in Nat /\ queue[s].localDrops \in Nat
      /\ refused[s] \in Nat
  BY <1>1, CountersAreNumbers DEF RcvType, HubType, QueueType, HistType
<1>4. Unseen(s) \in Nat
  BY <1>3 DEF Unseen
<1>5. Uncounted(s, D) \in SUBSET Seqs
  BY <1>2 DEF Uncounted
<1>6. ASSUME queue[s].ch = <<>> PROVE Uncounted(s, D) = hist[s].seqs \ D
  <2>1. InRing(s) = {}
    BY <1>6 DEF InRing
  <2> QED BY <2>1 DEF Uncounted
<1> QED BY <1>2, <1>3, <1>4, <1>5, <1>6

\* A step that moves no goroutine of a session, takes nothing out of its
\* history, and counts as dropped whatever it loses.
LEMMA HonestFrame ==
  ASSUME IInv, IInv', NEW x \in Sessions, NEW D \in SUBSET Seqs, Honest(x, D),
         done'[x] = done[x], run'[x] = run[x], stat'[x] = stat[x],
         atCancel'[x] = atCancel[x], final'[x] = final[x], acc'[x] = acc[x],
         refused'[x] = refused[x], hist[x].seqs \subseteq hist'[x].seqs,
         InRing(x)' \subseteq hist'[x].seqs,
         Unseen(x)' >= Unseen(x),
         Cardinality(Uncounted(x, D)') <= Unseen(x)'
  PROVE  Honest(x, D)'
<1>1. Unseen(x) \in Nat /\ atCancel[x].seqs \in SUBSET Seqs
  BY HonestFacts
<1>2. Unseen(x)' \in Nat
  <2>1. HubType' /\ RcvType' /\ HistType'
    BY DEF IInv, TypeOK, HubType, RcvType, HistType
  <2>2. /\ acc'[x] \in AccumulatorType /\ queue'[x].localDrops \in Nat
        /\ refused'[x] \in Nat
    BY <2>1 DEF RcvType, HubType, HistType, QueueType
  <2>3. acc'[x].localDrops \in Nat
    BY <2>2, CountersAreNumbers
  <2> QED BY <2>2, <2>3 DEF Unseen
<1>3. Cardinality(atCancel[x].seqs \ D) \in Nat
  <2>1. atCancel[x].seqs \ D \in SUBSET Seqs
    BY <1>1
  <2> QED BY <2>1, SeqsFinite
<1>4. stat'[x] = "exited" /\ done'[x] =>
        Cardinality(atCancel'[x].seqs \ D) <= Unseen(x)'
  BY <1>1, <1>2, <1>3 DEF Honest
<1>5. /\ Books(acc'[x], D)
      /\ D \subseteq hist'[x].seqs
      /\ atCancel'[x].seqs \subseteq hist'[x].seqs
      /\ run'[x] = "returned" =>
           /\ stat'[x] = "exited" /\ final'[x] = acc'[x]
           /\ Cardinality(atCancel'[x].seqs \ D)
                <= final'[x].localDrops + refused'[x]
  BY DEF Honest
<1> QED BY <1>4, <1>5 DEF Honest

\* Nothing changes but the registration, the source or the closed flag.
LEMMA HonestUntouched ==
  ASSUME IInv, IInv', NEW x \in Sessions, NEW D \in SUBSET Seqs, Honest(x, D),
         done'[x] = done[x], run'[x] = run[x], stat'[x] = stat[x],
         atCancel'[x] = atCancel[x], final'[x] = final[x],
         hist'[x] = hist[x], acc'[x] = acc[x], refused'[x] = refused[x],
         queue'[x].ch = queue[x].ch,
         queue'[x].localDrops = queue[x].localDrops
  PROVE  Honest(x, D)'
<1>1. /\ InRing(x)' = InRing(x) /\ Unseen(x)' = Unseen(x)
      /\ Uncounted(x, D)' = Uncounted(x, D)
  BY DEF InRing, Unseen, Uncounted
<1>2. Unseen(x) \in Nat
  BY HonestFacts
<1>3. Unseen(x)' >= Unseen(x) /\ Cardinality(Uncounted(x, D)') <= Unseen(x)'
  BY <1>1, <1>2 DEF Honest
<1>4. hist[x].seqs \subseteq hist'[x].seqs /\ InRing(x)' \subseteq hist'[x].seqs
  BY <1>1 DEF Honest
<1> QED BY <1>3, <1>4, HonestFrame

LEMMA HonestInit == Init => HonestInv
<1> SUFFICES ASSUME Init, NEW s \in Sessions PROVE Honest(s, {})
  BY DEF HonestInv
<1>1. /\ acc[s] = NewAccumulator /\ queue[s] = NewQueue
      /\ hist[s] = NothingYet /\ atCancel[s] = NothingYet
      /\ run[s] = "idle" /\ stat[s] = "idle" /\ refused[s] = 0
  BY DEF Init
<1>2. InRing(s) = {} /\ Uncounted(s, {}) = {} /\ Unseen(s) = 0
  BY <1>1 DEF InRing, Uncounted, Unseen, NewQueue, NewAccumulator, NothingYet
<1>3. atCancel[s].seqs \subseteq hist[s].seqs
  BY <1>1 DEF NothingYet
<1> QED BY <1>1, <1>2, <1>3, NewBooks, FS_EmptySet DEF Honest

\* A packet goes into the ring, or the number of drops grows with the set.
LEMMA HonestSend ==
  ASSUME IInv, IInv', DrainerSend, NEW x \in Sessions, NEW D \in SUBSET Seqs,
         Honest(x, D)
  PROVE  Honest(x, D)'
<1>1. HubType /\ RcvType /\ HistType
  BY TypeParts DEF IInv
<1>2. PICK t \in Sessions : t = drainer.target
  BY DEF IInv, RegistryInv, DrainerSend
<1>3. PICK n \in Seqs : n = drainer.seq
  BY DEF IInv, RegistryInv, DrainerSend
<1>4. PICK r : r = Enqueue(queue[t], n)
  OBVIOUS
<1>5. /\ queue' = [queue EXCEPT ![t] = r]
      /\ hist' = [hist EXCEPT ![t] = [gated |-> hist[t].gated + 1,
                                      seqs |-> hist[t].seqs \cup {n}]]
      /\ UNCHANGED <<handle, done, run, stat, acc, final, atCancel, refused>>
  BY <1>2, <1>3, <1>4 DEF DrainerSend, rcvVars
<1>6. CASE x # t
  <2>1. queue'[x] = queue[x] /\ hist'[x] = hist[x]
    BY <1>1, <1>5, <1>6 DEF HubType, HistType
  <2> QED BY <1>1, <1>5, <2>1, HonestUntouched
<1>7. CASE x = t
  <2>1. queue'[x] = r /\ hist'[x].seqs = hist[x].seqs \cup {n}
    BY <1>1, <1>5, <1>7 DEF HubType, HistType
  <2>2. /\ Unseen(x) \in Nat /\ acc[x].localDrops \in Nat
        /\ queue[x].localDrops \in Nat /\ Uncounted(x, D) \in SUBSET Seqs
    BY HonestFacts
  <2>3. queue[x] \in QueueType /\ queue[x].ch \in Seq(Seqs)
    BY <1>1 DEF HubType, QueueType
  <2>4. PICK d \in Nat : d = acc[x].localDrops + refused[x]
    <3>1. acc[x].localDrops \in Nat /\ refused[x] \in Nat
      BY HonestFacts
    <3>2. acc[x].localDrops + refused[x] \in Nat
      BY <3>1
    <3> QED BY <3>2
  <2>5. Unseen(x) = d + queue[x].localDrops /\ Unseen(x)' = d + r.localDrops
    <3>1. PICK b \in Nat : b = queue[x].localDrops
      BY <2>2
    <3>2. PICK e \in Nat : e = r.localDrops
      BY <1>1, <1>3, <1>4, <1>7, EnqueueEffect DEF HubType, QueueType
    <3>3. PICK l \in Nat : l = acc[x].localDrops
      BY <2>2
    <3>4. PICK f \in Nat : f = refused[x]
      BY HonestFacts
    <3>5. Unseen(x) = l + b + f /\ Unseen(x)' = l + e + f
      BY <1>5, <2>1, <3>1, <3>2, <3>3, <3>4 DEF Unseen
    <3> QED BY <2>4, <3>1, <3>2, <3>3, <3>4, <3>5
  <2>6. PICK u : u = Uncounted(x, D)
    OBVIOUS
  <2>7. /\ IsFiniteSet(u) /\ Cardinality(u) \in Nat
        /\ Cardinality(u) <= d + queue[x].localDrops
    BY <1>1, <2>2, <2>5, <2>6, SeqsFinite DEF Honest
  <2>8. CASE Len(queue[x].ch) < RingSize
    <3>1. PICK c : c = Append(queue[x].ch, n)
      OBVIOUS
    <3>2. r = [queue[x] EXCEPT !.ch = c]
      BY <1>4, <1>7, <2>8, <3>1 DEF Enqueue
    <3>3. r.ch = c /\ r.localDrops = queue[x].localDrops
      BY <2>3, <3>2 DEF QueueType
    <3>4. {c[i] : i \in DOMAIN c} = InRing(x) \cup {n}
      <4>1. /\ c \in Seq(Seqs) /\ Len(queue[x].ch) \in Nat
            /\ DOMAIN queue[x].ch = 1 .. Len(queue[x].ch)
            /\ DOMAIN c = 1 .. Len(queue[x].ch) + 1
            /\ \A i \in 1 .. Len(queue[x].ch) : c[i] = queue[x].ch[i]
            /\ c[Len(queue[x].ch) + 1] = n
        BY <2>3, <3>1
      <4>2. \A i \in 1 .. Len(queue[x].ch) + 1 :
              i \in 1 .. Len(queue[x].ch) \/ i = Len(queue[x].ch) + 1
        BY <4>1
      <4>3. 1 .. Len(queue[x].ch) \subseteq 1 .. Len(queue[x].ch) + 1
            /\ Len(queue[x].ch) + 1 \in 1 .. Len(queue[x].ch) + 1
        BY <4>1
      <4> QED BY <4>1, <4>2, <4>3 DEF InRing
    <3>5. InRing(x)' = InRing(x) \cup {n}
      BY <2>1, <3>3, <3>4 DEF InRing
    <3>6. Uncounted(x, D)' \in SUBSET u
      BY <1>5, <2>1, <2>6, <3>5 DEF Uncounted
    <3>7. Cardinality(Uncounted(x, D)') <= Cardinality(u)
          /\ Cardinality(Uncounted(x, D)') \in Nat
      BY <2>7, <3>6, FS_Subset, FS_CardinalityType
    <3>8. Unseen(x)' = Unseen(x)
      BY <2>5, <3>3
    <3>9. Cardinality(Uncounted(x, D)') <= Unseen(x)' /\ Unseen(x)' >= Unseen(x)
      BY <2>2, <2>5, <2>7, <3>7, <3>8
    <3>10. hist[x].seqs \subseteq hist'[x].seqs /\ InRing(x)' \subseteq hist'[x].seqs
      BY <1>1, <2>1, <3>5 DEF Honest
    <3> QED BY <1>1, <1>5, <3>9, <3>10, HonestFrame
  <2>9. CASE ~(Len(queue[x].ch) < RingSize)
    <3>1. r = [queue[x] EXCEPT !.localDrops = queue[x].localDrops + 1]
      BY <1>4, <1>7, <2>9 DEF Enqueue
    <3>2. r.ch = queue[x].ch /\ r.localDrops = queue[x].localDrops + 1
      BY <2>3, <3>1 DEF QueueType
    <3>3. InRing(x)' = InRing(x)
      BY <2>1, <3>2 DEF InRing
    <3>4. Uncounted(x, D)' \in SUBSET (u \cup {n})
      BY <1>5, <2>1, <2>6, <3>3 DEF Uncounted
    <3>5. /\ IsFiniteSet(u \cup {n})
          /\ \/ Cardinality(u \cup {n}) = Cardinality(u)
             \/ Cardinality(u \cup {n}) = Cardinality(u) + 1
      BY <2>7, FS_AddElement
    <3>6. Cardinality(Uncounted(x, D)') <= Cardinality(u \cup {n})
          /\ Cardinality(Uncounted(x, D)') \in Nat
      BY <3>4, <3>5, FS_Subset, FS_CardinalityType
    <3>7. Unseen(x)' = Unseen(x) + 1
      BY <2>2, <2>5, <3>2
    <3>8. Cardinality(Uncounted(x, D)') <= Unseen(x)' /\ Unseen(x)' >= Unseen(x)
      BY <2>2, <2>5, <2>7, <3>5, <3>6, <3>7
    <3>9. hist[x].seqs \subseteq hist'[x].seqs /\ InRing(x)' \subseteq hist'[x].seqs
      BY <1>1, <2>1, <3>3 DEF Honest
    <3> QED BY <1>1, <1>5, <3>8, <3>9, HonestFrame
  <2> QED BY <2>8, <2>9
<1> QED BY <1>6, <1>7

\* The rest of the drainer's steps touch no books.
LEMMA HonestDrainer ==
  ASSUME IInv, IInv', Drainer, ~DrainerSend, NEW x \in Sessions,
         NEW D \in SUBSET Seqs, Honest(x, D)
  PROVE  Honest(x, D)'
<1>1. HubType /\ RcvType /\ HistType
  BY TypeParts DEF IInv
<1>2. UNCHANGED <<rcvVars, hist, atCancel, refused>>
  BY DEF Drainer, DrainerCheck, DrainerIdle, DrainerFail, DrainerRead, CloseAll,
         histVars
<1>3. queue'[x].ch = queue[x].ch /\ queue'[x].localDrops = queue[x].localDrops
  BY <1>1, DrainerKeepsBooks
<1> QED BY <1>1, <1>2, <1>3, HonestUntouched DEF rcvVars

\* Registration and Run's start find empty books; Release closes a channel.
LEMMA HonestOpens ==
  ASSUME IInv, IInv', NEW s \in Sessions, NEW D \in SUBSET Seqs, Honest(s, D),
         TryRegister(s) \/ RunStart(s) \/ Release(s)
  PROVE  Honest(s, D)'
<1>1. HubType /\ RcvType /\ HistType
  BY TypeParts DEF IInv
<1>2. CASE TryRegister(s)
  <2>1. /\ hist[s] = NothingYet /\ acc[s] = NewAccumulator
        /\ run[s] = "idle" /\ stat[s] = "idle"
    BY <1>2 DEF TryRegister, IInv, FreshInv
  <2>2. /\ queue'[s] = NewQueue
        /\ UNCHANGED <<done, run, stat, acc, final, hist, atCancel, refused>>
    BY <1>1, <1>2 DEF TryRegister, HubType, histVars
  <2>3. InRing(s)' = {} /\ Uncounted(s, D)' = {} /\ Unseen(s)' = refused[s]
    <3>1. refused[s] \in Nat
      BY HonestFacts
    <3> QED BY <2>1, <2>2, <3>1
            DEF InRing, Uncounted, Unseen, NewQueue, NewAccumulator, NothingYet
  <2>4. refused[s] \in Nat
    BY HonestFacts
  <2> QED BY <1>1, <2>1, <2>2, <2>3, <2>4, FS_EmptySet DEF Honest
<1>3. CASE RunStart(s)
  <2>1. run'[s] = "loop" /\ stat'[s] = "loop"
    BY <1>1, <1>3 DEF RunStart, RcvType
  <2>2. acc' = acc
    BY <1>1, <1>3 DEF RunStart, IInv, FreshInv, RcvType
  <2>3. UNCHANGED <<queue, hist, atCancel, refused>>
    BY <1>3 DEF RunStart, hubVars, histVars
  <2>4. /\ InRing(s)' = InRing(s) /\ Unseen(s)' = Unseen(s)
        /\ Uncounted(s, D)' = Uncounted(s, D)
    BY <2>2, <2>3 DEF InRing, Unseen, Uncounted
  <2> QED BY <1>1, <2>1, <2>2, <2>3, <2>4 DEF Honest
<1>4. CASE Release(s)
  <2>1. /\ queue'[s].ch = queue[s].ch
        /\ queue'[s].localDrops = queue[s].localDrops
    <3>1. CASE StillRegistered(s)
      <4>1. queue' = [queue EXCEPT ![s].closed = TRUE]
        BY <1>4, <3>1 DEF Release
      <4> QED BY <1>1, <4>1, QueueFields DEF HubType
    <3>2. CASE ~StillRegistered(s)
      <4>1. UNCHANGED queue
        BY <1>4, <3>2 DEF Release
      <4> QED BY <4>1
    <3> QED BY <3>1, <3>2
  <2>2. UNCHANGED <<done, run, stat, acc, final, hist, atCancel, refused>>
    BY <1>4 DEF Release
  <2> QED BY <1>1, <2>1, <2>2, HonestUntouched
<1> QED BY <1>2, <1>3, <1>4

\* The cancel: if statHub has exited, it left an empty, closed ring.
LEMMA HonestCancel ==
  ASSUME IInv, IInv', CoverInv, NEW s \in Sessions, NEW D \in SUBSET Seqs,
         Honest(s, D), Cancel(s)
  PROVE  Honest(s, D)'
<1>1. RcvType /\ HistType /\ Covered(s)
  BY TypeParts DEF IInv, CoverInv
<1>2. /\ ~done[s] /\ done'[s]
      /\ atCancel'[s] = hist[s]
      /\ UNCHANGED <<queue, run, stat, acc, final, hist, refused>>
  BY <1>1 DEF Cancel, hubVars, RcvType, HistType
<1>3. run[s] # "returned"
  BY <1>1, <1>2 DEF Covered
<1>4. stat[s] = "exited" => Uncounted(s, D) = hist[s].seqs \ D
  BY <1>1, <1>2, HonestFacts DEF Covered, ShutEmpty
<1>5. /\ InRing(s)' = InRing(s) /\ Unseen(s)' = Unseen(s)
      /\ Uncounted(s, D)' = Uncounted(s, D)
  BY <1>2 DEF InRing, Unseen, Uncounted
<1> QED BY <1>1, <1>2, <1>3, <1>4, <1>5 DEF Honest

\* Run: a pull moves drops from the hub to the accumulator, and sees nothing.
LEMMA HonestRun ==
  ASSUME IInv, IInv', CoverInv, NEW s \in Sessions, NEW D \in SUBSET Seqs,
         Honest(s, D), Run(s)
  PROVE  Honest(s, D)'
<1>1. HubType /\ RcvType /\ Covered(s)
  BY TypeParts DEF IInv, CoverInv
<1>2. CASE TickSnapshot(s) \/ RunCancelled(s)
  <2>1. /\ run'[s] # "returned"
        /\ UNCHANGED <<done, stat, acc, queue, hist, atCancel, refused>>
    BY <1>1, <1>2
       DEF TickSnapshot, RunCancelled, hubVars, histVars, RcvType
  <2>2. /\ InRing(s)' = InRing(s) /\ Unseen(s)' = Unseen(s)
        /\ Uncounted(s, D)' = Uncounted(s, D)
    BY <2>1 DEF InRing, Unseen, Uncounted
  <2> QED BY <1>1, <2>1, <2>2 DEF Honest
<1>3. CASE TickPull(s) \/ RunReturn(s)
  <2>1. PullLocalDrops(s) /\ UNCHANGED <<done, stat, hist, atCancel, refused>>
    BY <1>3 DEF TickPull, RunReturn, histVars
  <2>2. PICK q : q = queue[s]
    OBVIOUS
  <2>3. PICK a : a = LocalDropAdded(acc[s], q.localDrops)
    OBVIOUS
  <2>4. /\ acc[s] \in AccumulatorType /\ q \in QueueType
        /\ acc[s].localDrops \in Nat /\ q.localDrops \in Nat
    BY <1>1, <2>2, CountersAreNumbers DEF RcvType, HubType, QueueType
  <2>5. /\ a.seen = acc[s].seen /\ a.lost = acc[s].lost /\ a.recv = acc[s].recv
        /\ a.expectedSeq = acc[s].expectedSeq
        /\ a.localDrops = acc[s].localDrops + q.localDrops
    BY <2>3, <2>4, LocalDropKeepsBooks, LocalDropEffect
  <2>6. acc'[s] = a
    BY <1>1, <2>1, <2>2, <2>3 DEF PullLocalDrops, RcvType
  <2>7. queue'[s].ch = queue[s].ch /\ queue'[s].localDrops = 0
    BY <2>1, PullEffect
  <2>8. Unseen(s) = a.localDrops + refused[s] /\ Unseen(s)' = Unseen(s)
    <3>1. Unseen(s) = acc[s].localDrops + q.localDrops + refused[s]
      BY <2>2 DEF Unseen
    <3>2. Unseen(s)' = a.localDrops + 0 + refused[s]
      BY <2>1, <2>6, <2>7 DEF Unseen
    <3>3. refused[s] \in Nat
      BY HonestFacts
    <3> QED BY <2>4, <2>5, <3>1, <3>2, <3>3
  <2>9. InRing(s)' = InRing(s) /\ Uncounted(s, D)' = Uncounted(s, D)
    BY <2>1, <2>5, <2>6, <2>7 DEF InRing, Uncounted
  <2>10. Books(a, D)
    BY <1>1, <2>5 DEF Honest, Books
  <2>11. CASE TickPull(s)
    <3>1. run'[s] = "ticking"
      BY <1>1, <2>11 DEF TickPull, RcvType
    <3> QED BY <1>1, <2>1, <2>5, <2>6, <2>8, <2>9, <2>10, <3>1 DEF Honest
  <2>12. CASE RunReturn(s)
    <3>1. /\ run[s] = "joining" /\ stat[s] = "exited"
          /\ final'[s] = acc'[s]
      BY <1>1, <2>12 DEF RunReturn, RcvType
    <3>2. Cardinality(atCancel[s].seqs \ D) <= a.localDrops + refused[s]
      BY <1>1, <2>5, <2>8, <3>1 DEF Covered, Honest
    <3> QED BY <1>1, <2>1, <2>5, <2>6, <2>8, <2>9, <2>10, <3>1, <3>2 DEF Honest
  <2> QED BY <1>3, <2>11, <2>12
<1> QED BY <1>2, <1>3 DEF Run

\* What statHub takes out of the ring belongs to D then, or is refused.
LEMMA HonestObserve ==
  ASSUME IInv, IInv', NEW s \in Sessions, NEW D \in SUBSET Seqs,
         Honest(s, D), StatObserve(s)
  PROVE  \E E \in SUBSET Seqs : Honest(s, E)'
<1>1. HubType /\ RcvType /\ HistType
  BY TypeParts DEF IInv
<1>2. PICK q : q = queue[s].ch
  OBVIOUS
<1>3. q \in Seq(Seqs) /\ q # <<>> /\ stat[s] # "exited"
  BY <1>1, <1>2 DEF HubType, QueueType, StatObserve
<1>4. PICK n \in Seqs : n = Head(q)
  BY <1>3
<1>5. PICK E \in SUBSET Seqs :
        E = IF Refused(acc[s], n) THEN D ELSE D \cup {n}
  OBVIOUS
<1>6. PICK a : a = Observed(acc[s], n)
  OBVIOUS
<1>7. /\ acc'[s] = a /\ queue'[s].ch = Tail(q)
      /\ queue'[s].localDrops = queue[s].localDrops
      /\ refused'[s] = Bump(refused[s], Refused(acc[s], n))
      /\ UNCHANGED <<done, run, stat, final, hist, atCancel>>
  BY <1>1, <1>2, <1>4, <1>6
     DEF StatObserve, HubType, RcvType, HistType, QueueType
<1>8. /\ InRing(s) = {q[i] : i \in DOMAIN q}
      /\ InRing(s)' = {Tail(q)[i] : i \in DOMAIN Tail(q)}
  BY <1>2, <1>7 DEF InRing
<1>9. /\ n \in InRing(s) /\ InRing(s)' \subseteq InRing(s)
      /\ InRing(s) \subseteq {n} \cup InRing(s)'
  <2>1. /\ Len(q) \in Nat \ {0} /\ DOMAIN q = 1 .. Len(q) /\ q[1] = n
        /\ DOMAIN Tail(q) = 1 .. Len(q) - 1
        /\ \A i \in 1 .. Len(q) - 1 : Tail(q)[i] = q[i + 1]
    BY <1>3, <1>4
  <2>2. \A i \in DOMAIN q :
          q[i] = n \/ \E j \in DOMAIN Tail(q) : q[i] = Tail(q)[j]
    <3>1. SUFFICES ASSUME NEW i \in 1 .. Len(q), i # 1
                   PROVE  \E j \in 1 .. Len(q) - 1 : q[i] = Tail(q)[j]
      BY <2>1
    <3>2. i - 1 \in 1 .. Len(q) - 1 /\ (i - 1) + 1 = i
      BY <2>1, <3>1
    <3> QED BY <2>1, <3>2
  <2>3. \A j \in DOMAIN Tail(q) : \E i \in DOMAIN q : Tail(q)[j] = q[i]
    <3>1. \A j \in 1 .. Len(q) - 1 : j + 1 \in 1 .. Len(q)
      BY <2>1
    <3> QED BY <2>1, <3>1
  <2>4. n \in InRing(s)
    BY <1>8, <2>1
  <2> QED BY <1>8, <2>2, <2>3, <2>4
<1>10. acc[s] \in AccumulatorType /\ n \in Nat
  BY <1>1, HubAssumption DEF RcvType
<1>11. Books(a, E)
  <2>1. CASE Refused(acc[s], n)
    <3>1. a = acc[s] /\ E = D
      BY <1>5, <1>6, <2>1 DEF Observed
    <3> QED BY <3>1 DEF Honest
  <2>2. CASE ~Refused(acc[s], n)
    <3>1. E = D \cup {n}
      BY <1>5, <2>2
    <3> QED BY <1>6, <1>10, <2>2, <3>1, ObservedKeepsBooks DEF Honest
  <2> QED BY <2>1, <2>2
<1>12. PICK U : U = Uncounted(s, D)
  OBVIOUS
<1>13. /\ IsFiniteSet(U) /\ Cardinality(U) \in Nat
       /\ Cardinality(U) <= Unseen(s) /\ Unseen(s) \in Nat
  <2>1. U \in SUBSET Seqs /\ Unseen(s) \in Nat
    BY <1>12, HonestFacts
  <2> QED BY <1>12, <2>1, SeqsFinite DEF Honest
<1>14. Cardinality(Uncounted(s, E)') <= Unseen(s)'
  <2>1. /\ acc[s].localDrops \in Nat /\ queue[s].localDrops \in Nat
        /\ refused[s] \in Nat
    BY HonestFacts
  <2>2. a.localDrops = acc[s].localDrops
    <3>1. CASE Refused(acc[s], n)
      BY <1>6, <3>1 DEF Observed
    <3>2. CASE ~Refused(acc[s], n)
      BY <1>6, <1>10, <3>2, ObservedEffect
    <3> QED BY <3>1, <3>2
  <2>3. Unseen(s)' = acc[s].localDrops + queue[s].localDrops
                       + Bump(refused[s], Refused(acc[s], n))
    BY <1>7, <2>2 DEF Unseen
  <2>4. Unseen(s) = acc[s].localDrops + queue[s].localDrops + refused[s]
    BY DEF Unseen
  <2>5. CASE Refused(acc[s], n)
    <3>1. Uncounted(s, E)' \in SUBSET (U \cup {n})
      BY <1>5, <1>7, <1>9, <1>12, <2>5 DEF Uncounted
    <3>2. /\ IsFiniteSet(U \cup {n})
          /\ \/ Cardinality(U \cup {n}) = Cardinality(U)
             \/ Cardinality(U \cup {n}) = Cardinality(U) + 1
      BY <1>13, FS_AddElement
    <3>3. /\ Cardinality(Uncounted(s, E)') <= Cardinality(U \cup {n})
          /\ Cardinality(Uncounted(s, E)') \in Nat
      BY <3>1, <3>2, FS_Subset, FS_CardinalityType
    <3>4. Bump(refused[s], Refused(acc[s], n)) = refused[s] + 1
      BY <2>5 DEF Bump
    <3>5. Unseen(s)' = Unseen(s) + 1
      BY <2>1, <2>3, <2>4, <3>4
    <3> QED BY <1>13, <3>2, <3>3, <3>5
  <2>6. CASE ~Refused(acc[s], n)
    <3>1. Uncounted(s, E)' \in SUBSET U
      BY <1>5, <1>7, <1>9, <1>12, <2>6 DEF Uncounted
    <3>2. /\ Cardinality(Uncounted(s, E)') <= Cardinality(U)
          /\ Cardinality(Uncounted(s, E)') \in Nat
      BY <1>13, <3>1, FS_Subset, FS_CardinalityType
    <3>3. Unseen(s)' = Unseen(s)
      BY <2>3, <2>4, <2>6 DEF Bump
    <3> QED BY <1>13, <3>2, <3>3
  <2> QED BY <2>5, <2>6
<1>15. E \subseteq hist'[s].seqs /\ InRing(s)' \subseteq hist'[s].seqs
       /\ atCancel'[s].seqs \subseteq hist'[s].seqs
  BY <1>5, <1>7, <1>9 DEF Honest
<1>16. stat'[s] # "exited" /\ run'[s] # "returned"
  BY <1>3, <1>7 DEF Honest
<1>17. Honest(s, E)'
  BY <1>7, <1>11, <1>14, <1>15, <1>16 DEF Honest
<1> QED BY <1>17

\* Once cancelled, statHub exits when nothing is left in the ring.
LEMMA HonestStat ==
  ASSUME IInv, IInv', NEW s \in Sessions, NEW D \in SUBSET Seqs,
         Honest(s, D), StatCancelled(s) \/ StatExit(s)
  PROVE  Honest(s, D)'
<1>1. RcvType /\ HistType
  BY TypeParts DEF IInv
<1>2. UNCHANGED <<queue, done, run, final, acc, hist, atCancel, refused>>
  BY DEF StatCancelled, StatExit, hubVars, histVars
<1>3. /\ InRing(s)' = InRing(s) /\ Unseen(s)' = Unseen(s)
      /\ Uncounted(s, D)' = Uncounted(s, D)
  BY <1>2 DEF InRing, Unseen, Uncounted
<1>4. stat[s] \in {"loop", "draining"}
  BY DEF StatCancelled, StatExit
<1>5. run[s] # "returned"
  BY <1>4 DEF Honest
<1>6. CASE StatCancelled(s)
  <2>1. stat'[s] = "draining"
    BY <1>1, <1>6 DEF StatCancelled, RcvType
  <2> QED BY <1>2, <1>3, <1>5, <2>1 DEF Honest
<1>7. CASE StatExit(s)
  <2>1. queue[s].ch = <<>>
    BY <1>7 DEF StatExit, StatDone, NothingLeft
  <2>2. Uncounted(s, D) = hist[s].seqs \ D
    BY <2>1, HonestFacts
  <2>3. Cardinality(atCancel[s].seqs \ D) <= Unseen(s)
    <3>1. /\ Uncounted(s, D) \in SUBSET Seqs /\ Unseen(s) \in Nat
          /\ atCancel[s].seqs \ D \in SUBSET Uncounted(s, D)
      BY <2>2, HonestFacts DEF Honest
    <3>2. /\ Cardinality(atCancel[s].seqs \ D) <= Cardinality(Uncounted(s, D))
          /\ Cardinality(Uncounted(s, D)) \in Nat
      BY <3>1, SeqsFinite
    <3>3. Cardinality(atCancel[s].seqs \ D) \in Nat
      <4>1. atCancel[s].seqs \ D \in SUBSET Seqs
        BY <3>1
      <4> QED BY <4>1, SeqsFinite
    <3> QED BY <3>1, <3>2, <3>3 DEF Honest
  <2> QED BY <1>2, <1>3, <1>5, <2>3 DEF Honest
<1> QED BY <1>6, <1>7

LEMMA HonestStep ==
  IInv /\ IInv' /\ CoverInv /\ HonestInv /\ [Next]_vars => HonestInv'
<1> SUFFICES ASSUME IInv, IInv', CoverInv, HonestInv, [Next]_vars,
                    NEW x \in Sessions
             PROVE  \E E \in SUBSET Seqs : Honest(x, E)'
  BY DEF HonestInv
<1>1. PICK D \in SUBSET Seqs : Honest(x, D)
  BY DEF HonestInv
<1>2. CASE Drainer
  <2>1. Honest(x, D)'
    BY <1>1, <1>2, HonestSend, HonestDrainer
  <2> QED BY <2>1
<1>3. ASSUME NEW s \in Sessions,
             \/ TryRegister(s) \/ Cancel(s) \/ RunStart(s)
             \/ Release(s) \/ Run(s) \/ Stat(s)
      PROVE  \E E \in SUBSET Seqs : Honest(x, E)'
  <2>1. CASE x = s /\ ~StatObserve(s)
    <3>1. StatCancelled(s) \/ StatExit(s) \/ ~Stat(s)
      BY <2>1 DEF Stat
    <3>2. Honest(x, D)'
      BY <1>1, <1>3, <2>1, <3>1, HonestOpens, HonestCancel, HonestRun, HonestStat
    <3> QED BY <3>2
  <2>2. CASE x = s /\ StatObserve(s)
    BY <1>1, <2>2, HonestObserve
  <2>3. CASE x # s
    <3>1. /\ done'[x] = done[x] /\ run'[x] = run[x] /\ stat'[x] = stat[x]
          /\ atCancel'[x] = atCancel[x] /\ final'[x] = final[x]
          /\ hist'[x] = hist[x] /\ refused'[x] = refused[x]
          /\ acc'[x] = acc[x] /\ queue'[x] = queue[x]
      BY <1>3, <2>3, OthersUntouched
    <3>2. Honest(x, D)'
      BY <1>1, <3>1, HonestUntouched
    <3> QED BY <3>2
  <2> QED BY <2>1, <2>2, <2>3
<1>4. CASE CancelHub \/ UNCHANGED vars
  <2>1. UNCHANGED <<queue, done, run, stat, acc, final, hist, atCancel, refused>>
    BY <1>4 DEF CancelHub, vars, hubVars, rcvVars, histVars
  <2>2. Honest(x, D)'
    BY <1>1, <2>1 DEF Honest, InRing, Uncounted, Unseen
  <2> QED BY <2>2
<1> QED BY <1>2, <1>3, <1>4 DEF Next

\* A ring holds no more numbers than packets.
LEMMA RingHolds ==
  ASSUME NEW q \in Seq(Seqs)
  PROVE  /\ IsFiniteSet({q[i] : i \in DOMAIN q})
         /\ Cardinality({q[i] : i \in DOMAIN q}) \in Nat
         /\ Cardinality({q[i] : i \in DOMAIN q}) <= Len(q)
<1>1. PICK k \in Nat : k = Len(q)
  OBVIOUS
<1>2. PICK T : T = {q[i] : i \in DOMAIN q}
  OBVIOUS
<1>3. DOMAIN q = 1 .. k /\ q \in [1 .. k -> T]
  BY <1>1, <1>2
<1>4. \A y \in T : \E i \in 1 .. k : q[i] = y
  BY <1>2, <1>3
<1>5. q \in Surjection(1 .. k, T)
  BY <1>3, <1>4 DEF Surjection
<1>6. IsFiniteSet(1 .. k) /\ Cardinality(1 .. k) = k
  BY FS_Interval
<1>7. IsFiniteSet(T) /\ Cardinality(T) <= k
  BY <1>5, <1>6, FS_Surjection
<1> QED BY <1>1, <1>2, <1>7, FS_CardinalityType

LEMMA UnionBound ==
  ASSUME NEW S, IsFiniteSet(S), NEW T, IsFiniteSet(T)
  PROVE  /\ IsFiniteSet(S \cup T) /\ Cardinality(S \cup T) \in Nat
         /\ Cardinality(S \cup T) <= Cardinality(S) + Cardinality(T)
<1>1. IsFiniteSet(S \cap T)
  BY FS_Subset
<1>2. /\ Cardinality(S) \in Nat /\ Cardinality(T) \in Nat
      /\ Cardinality(S \cap T) \in Nat
  BY <1>1, FS_CardinalityType
<1>3. /\ IsFiniteSet(S \cup T)
      /\ Cardinality(S \cup T)
           = Cardinality(S) + Cardinality(T) - Cardinality(S \cap T)
  BY FS_Union
<1>4. Cardinality(S \cup T) \in Nat
  BY <1>3, FS_CardinalityType
<1> QED BY <1>2, <1>3, <1>4

\* Observations of a number beyond the first are repeats the hub accepted:
\* received beyond D is no more than accepted beyond the numbers accepted.
LEMMA RepeatsAreAccepted ==
  ASSUME IInv, NEW s \in Sessions, NEW D \in SUBSET Seqs, Honest(s, D)
  PROVE  /\ Repeats(s) \in Int
         /\ acc[s].recv - Cardinality(D) <= Repeats(s)
<1>1. HubType /\ RcvType /\ HistType
  BY TypeParts DEF IInv
<1>2. queue[s].ch \in Seq(Seqs) /\ acc[s] \in AccumulatorType
      /\ hist[s].gated \in Nat /\ hist[s].seqs \in SUBSET Seqs
  BY <1>1 DEF HubType, QueueType, RcvType, HistType
<1>3. PICK R : R = InRing(s)
  OBVIOUS
<1>4. PICK k \in Nat : k = Len(queue[s].ch)
  BY <1>2
<1>5. IsFiniteSet(R) /\ Cardinality(R) \in Nat /\ Cardinality(R) <= k
  BY <1>2, <1>3, <1>4, RingHolds DEF InRing
<1>6. PICK U : U = Uncounted(s, D)
  OBVIOUS
<1>7. IsFiniteSet(U) /\ Cardinality(U) \in Nat /\ Cardinality(U) <= Unseen(s)
  BY <1>6, HonestFacts, SeqsFinite DEF Honest
<1>8. IsFiniteSet(D) /\ Cardinality(D) \in Nat
  BY SeqsFinite
<1>9. PICK V : V = R \cup U
  OBVIOUS
<1>10. /\ IsFiniteSet(V) /\ Cardinality(V) \in Nat
       /\ Cardinality(V) <= Cardinality(R) + Cardinality(U)
  BY <1>5, <1>7, <1>9, UnionBound
<1>11. /\ IsFiniteSet(D \cup V) /\ Cardinality(D \cup V) \in Nat
       /\ Cardinality(D \cup V) <= Cardinality(D) + Cardinality(V)
  BY <1>8, <1>10, UnionBound
<1>12. hist[s].seqs \in SUBSET (D \cup V)
  BY <1>3, <1>6, <1>9 DEF Uncounted
<1>13. Cardinality(hist[s].seqs) <= Cardinality(D \cup V)
       /\ Cardinality(hist[s].seqs) \in Nat
  BY <1>2, <1>11, <1>12, FS_Subset, SeqsFinite
<1>14. /\ acc[s].recv \in Nat /\ acc[s].duplicates \in Nat
       /\ acc[s].localDrops \in Nat /\ queue[s].localDrops \in Nat
       /\ refused[s] \in Nat
  BY <1>1, <1>2, CountersAreNumbers DEF HubType, QueueType, HistType
<1>15. hist[s].gated = acc[s].recv + acc[s].duplicates + acc[s].localDrops
                         + refused[s] + k + queue[s].localDrops
  BY <1>4 DEF IInv, AcceptedIsAccounted, Counted
<1>16. Unseen(s) = acc[s].localDrops + queue[s].localDrops + refused[s]
  BY DEF Unseen
<1>17. Repeats(s) = hist[s].gated - Cardinality(hist[s].seqs)
  BY DEF Repeats
<1>18. PICK d \in Nat : d = Cardinality(D)
  BY <1>8
<1>19. PICK h \in Nat : h = Cardinality(hist[s].seqs)
  BY <1>13
<1>20. PICK g \in Nat : g = hist[s].gated
  BY <1>2
<1>21. PICK p \in Nat : p = acc[s].recv
  BY <1>14
<1>22. PICK x \in Nat :
         x = acc[s].localDrops + queue[s].localDrops + refused[s]
  BY <1>14
<1>23. h <= d + k + x
  BY <1>5, <1>7, <1>10, <1>11, <1>13, <1>16, <1>18, <1>19, <1>22
<1>24. g >= p + k + x
  BY <1>14, <1>15, <1>20, <1>21, <1>22
<1>25. Repeats(s) = g - h
  BY <1>17, <1>19, <1>20
<1>26. p - d <= g - h
  BY <1>23, <1>24
<1> QED BY <1>18, <1>21, <1>25, <1>26

(* The loss in the final snapshot is never less than what did not reach    *)
(* the hub, except for the repeats of a session with more numbers than the *)
(* duplicate map has entries; and more than was missing at the cancel by   *)
(* at most the drops the snapshot itself reports and the packets whose     *)
(* number was refused; for every ring and map size, set of numbers, drop   *)
(* pattern and moment of cancel.                                           *)
THEOREM LossIsHonest == Spec => []FinalLossIsHonest
<1>1. Spec => []CoverInv
  BY Invariance, CoverInit, CoverStep, PTL DEF Spec
<1>2. Spec => [](IInv /\ HonestInv)
  BY <1>1, HonestStep, Invariance, HonestInit, PTL DEF Spec
<1>3. IInv /\ HonestInv => FinalLossIsHonest
  <2> SUFFICES ASSUME IInv, HonestInv, NEW s \in Sessions, run[s] = "returned"
               PROVE  /\ Cardinality(Missing(final[s], hist[s].seqs))
                           <= final[s].lost
                                + (IF Cardinality(hist[s].seqs) <= MaxSeenEntries
                                   THEN 0 ELSE Repeats(s))
                      /\ final[s].lost
                           <= Cardinality(Missing(final[s], atCancel[s].seqs))
                                + final[s].localDrops + refused[s]
    BY DEF FinalLossIsHonest
  <2>1. PICK D \in SUBSET Seqs : Honest(s, D)
    BY DEF HonestInv
  <2>2. PICK a \in AccumulatorType : a = final[s] /\ a = acc[s]
    <3>1. final[s] = acc[s]
      BY <2>1 DEF Honest
    <3>2. RcvType
      BY TypeParts DEF IInv
    <3> QED BY <3>1, <3>2 DEF RcvType
  <2>3. Books(a, D) /\ D \subseteq hist[s].seqs
        /\ Cardinality(atCancel[s].seqs \ D) <= a.localDrops + refused[s]
    BY <2>1, <2>2 DEF Honest
  <2>4. hist[s].seqs \in SUBSET Seqs /\ atCancel[s].seqs \in SUBSET Seqs
    BY HonestFacts
  <2>5. IsFiniteSet(hist[s].seqs) /\ IsFiniteSet(atCancel[s].seqs)
    BY <2>4, SeqsFinite
  <2>6. PICK d \in Nat : d = Cardinality(D)
    BY SeqsFinite
  <2>7. PICK h \in Nat : h = Cardinality(hist[s].seqs) /\ d <= h
    BY <2>3, <2>4, <2>6, SeqsFinite
  <2>8. PICK m \in Nat :
          /\ m = Cardinality(Missing(a, hist[s].seqs))
          /\ m + d <= a.expectedSeq
    BY <2>3, <2>5, <2>6, LossBrackets
  <2>9. PICK c \in Nat :
          /\ c = Cardinality(Missing(a, atCancel[s].seqs))
          /\ a.lost <= c + Cardinality(atCancel[s].seqs \ D)
    BY <2>3, <2>5, LossBrackets
  <2>10. /\ a.lost \in Nat /\ a.localDrops \in Nat /\ a.expectedSeq \in Nat
         /\ a.recv \in Nat /\ refused[s] \in Nat
    BY CountersAreNumbers, HonestFacts
  <2>11. a.lost <= c + a.localDrops + refused[s]
    <3>1. PICK k \in Nat : k = Cardinality(atCancel[s].seqs \ D)
      <4>1. atCancel[s].seqs \ D \in SUBSET Seqs
        BY <2>4
      <4> QED BY <4>1, SeqsFinite
    <3> QED BY <2>3, <2>9, <2>10, <3>1
  <2>12. CASE h <= MaxSeenEntries
    <3>1. a.expectedSeq <= a.lost + d
      BY <2>3, <2>6, <2>7, <2>12, AccumulatorAssumption DEF Books
    <3>2. m <= a.lost + 0
      BY <2>8, <2>10, <3>1
    <3> QED BY <2>2, <2>7, <2>8, <2>9, <2>11, <2>12, <3>2
  <2>13. CASE ~(h <= MaxSeenEntries)
    <3>1. PICK r \in Int : r = Repeats(s) /\ a.recv - d <= r
      BY <2>1, <2>2, <2>6, RepeatsAreAccepted
    <3>2. a.expectedSeq <= a.lost + a.recv
      BY <2>3 DEF Books
    <3>3. m <= a.lost + r
      BY <2>8, <2>10, <3>1, <3>2
    <3> QED BY <2>2, <2>7, <2>8, <2>9, <2>11, <2>13, <3>1, <3>3
  <2> QED BY <2>12, <2>13
<1> QED BY <1>2, <1>3, PTL
=============================================================================
