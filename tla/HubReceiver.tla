------------------------------ MODULE HubReceiver ------------------------------
(***************************************************************************)
(* internal/stream/hub.go and receiver.go (hub-fed mode): the one drainer  *)
(* that demultiplexes the UDP socket into per-flow rings, and per session  *)
(* the Run goroutine and the statHub goroutine that empty the ring.        *)
(*                                                                         *)
(* Goroutines interleave between the steps the code leaves unprotected.    *)
(* The drainer's read lock spans lookup to send: it is held exactly while  *)
(* drainer.pc = "sending", and no write-locked operation runs then.        *)
(*                                                                         *)
(* A session's token and peer IP are abstracted to the session itself: a   *)
(* packet says whose it is, and the gate compares that with the owner of   *)
(* the flow.  Two sessions may use the same flow id one after the other,   *)
(* so stragglers of the first reach the socket while the second owns it.   *)
(***************************************************************************)
EXTENDS AccumulatorOps, Sequences

CONSTANTS
  Sessions,     \* the HubFlow handles, one per control session
  FlowOf,       \* the flow id each session asks for
  NoSession,    \* no session: an unregistered flow id, no drainer target
  Ports,        \* source ports a session's packets come from
  NoPort,       \* no source address captured yet
  Seqs,         \* sequence numbers the senders use
  RingSize,     \* capacity of a flow's channel
  MaxReads      \* bound: datagrams the socket delivers in a behaviour

ASSUME HubAssumption ==
  /\ FlowOf \in [Sessions -> {FlowOf[s] : s \in Sessions}]
  /\ NoSession \notin Sessions
  /\ NoPort \notin Ports
  /\ RingSize \in Nat \ {0}
  /\ MaxReads \in Nat
  /\ Seqs \subseteq Nat /\ IsFiniteSet(Seqs)

VARIABLES
  \* The hub.
  flows,     \* h.flows: flow id -> the session whose queue it names
  queue,     \* session -> its flowQueue: ch, closed, localDrops, remote
  drainer,   \* Run: pc, the queue looked up and the datagram in hand
  hubDone,   \* the hub's context is cancelled
  reads,     \* datagrams read so far (bounded by MaxReads)
  \* The sessions and their receivers.
  handle,    \* the HubFlow: "none", "held" or "released"
  done,      \* the session's context is cancelled
  run,       \* Receiver.Run: "idle", "loop", "ticking", "joining", "returned"
  stat,      \* statHub: "idle", "loop", "draining", "exited"
  acc,       \* the session's Accumulator
  final,     \* the snapshot Run returned
  \* History.
  hist,      \* what the hub accepted for a session: how many, which seqs
  atCancel,  \* hist when the session's context was cancelled
  refused,   \* how many the accumulator refused, which no counter of it shows
  panicked   \* a send on, or a close of, a closed channel happened

hubVars == <<flows, queue, drainer, hubDone, reads>>
rcvVars == <<handle, done, run, stat, acc, final>>
histVars == <<hist, atCancel, refused, panicked>>
vars == <<hubVars, rcvVars, histVars>>

Flows == {FlowOf[s] : s \in Sessions}
Packets == [from : Sessions, port : Ports, seq : Seqs]

NewQueue == [ch |-> <<>>, closed |-> FALSE, localDrops |-> 0, remote |-> NoPort]
Reading == [pc |-> "reading", target |-> NoSession, seq |-> 0]
NothingYet == [gated |-> 0, seqs |-> {}]

Init ==
  /\ flows = [f \in Flows |-> NoSession]
  /\ queue = [s \in Sessions |-> NewQueue]
  /\ drainer = [Reading EXCEPT !.pc = "top"]
  /\ hubDone = FALSE
  /\ reads = 0
  /\ handle = [s \in Sessions |-> "none"]
  /\ done = [s \in Sessions |-> FALSE]
  /\ run = [s \in Sessions |-> "idle"]
  /\ stat = [s \in Sessions |-> "idle"]
  /\ acc = [s \in Sessions |-> NewAccumulator]
  /\ final = [s \in Sessions |-> NewAccumulator]
  /\ hist = [s \in Sessions |-> NothingYet]
  /\ atCancel = [s \in Sessions |-> NothingYet]
  /\ refused = [s \in Sessions |-> 0]
  /\ panicked = FALSE

-----------------------------------------------------------------------------
(* The hub's drainer. *)

\* Slip: the read lock is given up before the send.
ReadUnlocked == FALSE

ReadLocked == drainer.pc = "sending"

\* Run, loop head: the context check.
DrainerCheck ==
  /\ drainer.pc = "top"
  /\ drainer' = [drainer EXCEPT !.pc = IF hubDone THEN "closing" ELSE "reading"]
  /\ UNCHANGED <<flows, queue, hubDone, reads, rcvVars, histVars>>

\* The read deadline passes, or the datagram is short or undecodable.
DrainerIdle ==
  /\ drainer.pc = "reading"
  /\ drainer' = [drainer EXCEPT !.pc = "top"]
  /\ UNCHANGED <<flows, queue, hubDone, reads, rcvVars, histVars>>

\* The socket is closed or fails: Run returns, with or without an error.
DrainerFail ==
  /\ drainer.pc = "reading"
  /\ drainer' = [drainer EXCEPT !.pc = "closing"]
  /\ UNCHANGED <<flows, queue, hubDone, reads, rcvVars, histVars>>

\* captureRemote: the first accepted source sticks (remoteOnce).
CaptureRemote(q, port) ==
  [q EXCEPT !.remote = IF @ = NoPort THEN port ELSE @]

\* The source-IP and token gate: the datagram is the owner's.
Gate(p, owner) == p.from = owner

\* A datagram is read: RLock, look the flow up, gate it, capture its source.
DrainerRead(p) ==
  LET owner == flows[FlowOf[p.from]]
  IN  /\ drainer.pc = "reading"
      /\ handle[p.from] # "none"
      /\ reads < MaxReads
      /\ reads' = reads + 1
      /\ IF owner # NoSession /\ Gate(p, owner)
         THEN /\ drainer' = [pc |-> "sending", target |-> owner, seq |-> p.seq]
              /\ queue' = [queue EXCEPT ![owner] = CaptureRemote(@, p.port)]
         ELSE /\ drainer' = [drainer EXCEPT !.pc = "top"]
              /\ UNCHANGED queue
      /\ UNCHANGED <<flows, hubDone, rcvVars, histVars>>

\* Slip: a full ring loses the packet without counting it.
EnqueueSilently(q, s) ==
  IF Len(q.ch) < RingSize THEN [q EXCEPT !.ch = Append(@, s)] ELSE q

\* The non-blocking send: into the ring, or counted as a local drop.
Enqueue(q, s) ==
  IF Len(q.ch) < RingSize
  THEN [q EXCEPT !.ch = Append(@, s)]
  ELSE [q EXCEPT !.localDrops = @ + 1]

DrainerSend ==
  LET t == drainer.target
  IN  /\ drainer.pc = "sending"
      /\ queue' = [queue EXCEPT ![t] = Enqueue(@, drainer.seq)]
      /\ panicked' = (panicked \/ queue[t].closed)
      /\ hist' = [hist EXCEPT ![t] = [gated |-> @.gated + 1,
                                      seqs  |-> @.seqs \cup {drainer.seq}]]
      /\ drainer' = [Reading EXCEPT !.pc = "top"]
      /\ UNCHANGED <<flows, hubDone, reads, rcvVars, atCancel, refused>>

Registered == {flows[f] : f \in Flows} \ {NoSession}

\* closeAll, deferred by Run: close every registered channel, forget all.
CloseAll ==
  /\ drainer.pc = "closing"
  /\ queue' = [s \in Sessions |->
                 IF s \in Registered THEN [queue[s] EXCEPT !.closed = TRUE]
                                     ELSE queue[s]]
  /\ panicked' = (panicked \/ \E s \in Registered : queue[s].closed)
  /\ flows' = [f \in Flows |-> NoSession]
  /\ drainer' = [drainer EXCEPT !.pc = "stopped"]
  /\ UNCHANGED <<hubDone, reads, rcvVars, hist, atCancel, refused>>

CancelHub ==
  /\ ~hubDone
  /\ hubDone' = TRUE
  /\ UNCHANGED <<flows, queue, drainer, reads, rcvVars, histVars>>

-----------------------------------------------------------------------------
(* The session: TryRegister, cancellation, Release. *)

\* TryRegister's look at the registry; slip: it does not look.
FlowFreeUnchecked(s) == TRUE
FlowFree(s) == flows[FlowOf[s]] = NoSession

\* TryRegister succeeds; on a collision it leaves everything as it was.
TryRegister(s) ==
  /\ handle[s] = "none"
  /\ ~ReadLocked
  /\ FlowFree(s)
  /\ flows' = [flows EXCEPT ![FlowOf[s]] = s]
  /\ queue' = [queue EXCEPT ![s] = NewQueue]
  /\ handle' = [handle EXCEPT ![s] = "held"]
  /\ UNCHANGED <<drainer, hubDone, reads, done, run, stat, acc, final, histVars>>

\* The session's deadline, its peer's disconnect or the server's shutdown.
Cancel(s) ==
  /\ handle[s] = "held"
  /\ ~done[s]
  /\ done' = [done EXCEPT ![s] = TRUE]
  /\ atCancel' = [atCancel EXCEPT ![s] = hist[s]]
  /\ UNCHANGED <<hubVars, handle, run, stat, acc, final, hist, refused, panicked>>

\* Release closes the queue only while the hub still knows it.
StillRegistered(s) == flows[FlowOf[s]] = s

\* Release, deferred by the session: after Run returned, or instead of it.
Release(s) ==
  /\ handle[s] = "held"
  /\ run[s] \in {"idle", "returned"}
  /\ ~ReadLocked
  /\ handle' = [handle EXCEPT ![s] = "released"]
  /\ IF StillRegistered(s)
     THEN /\ flows' = [flows EXCEPT ![FlowOf[s]] = NoSession]
          /\ queue' = [queue EXCEPT ![s].closed = TRUE]
          /\ panicked' = (panicked \/ queue[s].closed)
     ELSE UNCHANGED <<flows, queue, panicked>>
  /\ UNCHANGED <<drainer, hubDone, reads, done, run, stat, acc, final,
                 hist, atCancel, refused>>

-----------------------------------------------------------------------------
(* Receiver.Run and statHub. *)

RunStart(s) ==
  /\ handle[s] = "held"
  /\ run[s] = "idle"
  /\ run' = [run EXCEPT ![s] = "loop"]
  /\ stat' = [stat EXCEPT ![s] = "loop"]
  /\ acc' = [acc EXCEPT ![s] = NewAccumulator]
  /\ UNCHANGED <<hubVars, handle, done, final, histVars>>

\* Slip: the hub's counter is read and not reset.
ReadLocalDrops(s) ==
  /\ acc' = [acc EXCEPT ![s] = LocalDropAdded(@, queue[s].localDrops)]
  /\ UNCHANGED queue

\* applyHubLocalDrops: PullLocalDrops, then AddLocalDrop.
PullLocalDrops(s) ==
  /\ queue' = [queue EXCEPT ![s].localDrops = 0]
  /\ acc' = [acc EXCEPT ![s] = LocalDropAdded(@, queue[s].localDrops)]

\* A tick: pull, sample, snapshot.  statHub may run between the pull and the
\* snapshot, which the tick offers to a consumer that may not take it.
TickPull(s) ==
  /\ run[s] = "loop"
  /\ run' = [run EXCEPT ![s] = "ticking"]
  /\ PullLocalDrops(s)
  /\ UNCHANGED <<flows, drainer, hubDone, reads, handle, done, stat, final,
                 histVars>>

TickSnapshot(s) ==
  /\ run[s] = "ticking"
  /\ run' = [run EXCEPT ![s] = "loop"]
  /\ UNCHANGED <<hubVars, handle, done, stat, acc, final, histVars>>

RunCancelled(s) ==
  /\ run[s] = "loop"
  /\ done[s]
  /\ run' = [run EXCEPT ![s] = "joining"]
  /\ UNCHANGED <<hubVars, handle, done, stat, acc, final, histVars>>

\* statsWG.Wait returns; the last pull and the final snapshot follow.
RunReturn(s) ==
  /\ run[s] = "joining"
  /\ stat[s] = "exited"
  /\ PullLocalDrops(s)
  /\ final' = [final EXCEPT ![s] = acc'[s]]
  /\ run' = [run EXCEPT ![s] = "returned"]
  /\ UNCHANGED <<flows, drainer, hubDone, reads, handle, done, stat, histVars>>

\* One receive from the ring, in the main loop or in the drain after cancel.
StatObserve(s) ==
  /\ stat[s] \in {"loop", "draining"}
  /\ queue[s].ch # <<>>
  /\ acc' = [acc EXCEPT ![s] = Observed(@, Head(queue[s].ch))]
  /\ queue' = [queue EXCEPT ![s].ch = Tail(@)]
  /\ refused' = [refused EXCEPT ![s] = Bump(@, Refused(acc[s], Head(queue[s].ch)))]
  /\ UNCHANGED <<flows, drainer, hubDone, reads, handle, done, run, stat,
                 final, hist, atCancel, panicked>>

StatCancelled(s) ==
  /\ stat[s] = "loop"
  /\ done[s]
  /\ stat' = [stat EXCEPT ![s] = "draining"]
  /\ UNCHANGED <<hubVars, handle, done, run, acc, final, histVars>>

\* When statHub exits: the ring is empty, and closed or being drained.
NothingLeft(s) ==
  /\ queue[s].ch = <<>>
  /\ stat[s] = "draining" \/ queue[s].closed

\* Slips: statHub leaves the tail of the ring, or waits for the close.
LeaveTail(s) == stat[s] = "draining" \/ NothingLeft(s)
WaitForClose(s) == queue[s].ch = <<>> /\ queue[s].closed

StatDone(s) == NothingLeft(s)

StatExit(s) ==
  /\ stat[s] \in {"loop", "draining"}
  /\ StatDone(s)
  /\ stat' = [stat EXCEPT ![s] = "exited"]
  /\ UNCHANGED <<hubVars, handle, done, run, acc, final, histVars>>

-----------------------------------------------------------------------------
Drainer == \/ DrainerCheck \/ DrainerIdle \/ DrainerFail
           \/ (\E p \in Packets : DrainerRead(p))
           \/ DrainerSend \/ CloseAll

Run(s) == \/ TickPull(s) \/ TickSnapshot(s) \/ RunCancelled(s) \/ RunReturn(s)

Stat(s) == StatObserve(s) \/ StatCancelled(s) \/ StatExit(s)

Next ==
  \/ Drainer
  \/ CancelHub
  \/ \E s \in Sessions : \/ TryRegister(s) \/ Cancel(s) \/ RunStart(s)
                         \/ Release(s) \/ Run(s) \/ Stat(s)

\* Goroutines that can run do.  Nobody promises to cancel a context, to send
\* a datagram or to open a session.  The socket read returns within its
\* deadline, and select serves ctx.Done among ready cases.
Fairness ==
  /\ WF_vars(DrainerCheck) /\ WF_vars(DrainerSend) /\ WF_vars(CloseAll)
  /\ WF_vars(DrainerIdle)
  /\ \A s \in Sessions :
       /\ WF_vars(TickSnapshot(s)) /\ SF_vars(RunCancelled(s))
       /\ WF_vars(RunReturn(s)) /\ WF_vars(Stat(s))

Spec == Init /\ [][Next]_vars /\ Fairness

-----------------------------------------------------------------------------
QueueType == [ch : Seq(Seqs), closed : BOOLEAN, localDrops : Nat,
              remote : Ports \cup {NoPort}]

TypeOK ==
  /\ flows \in [Flows -> Sessions \cup {NoSession}]
  /\ queue \in [Sessions -> QueueType]
  /\ \A s \in Sessions : Len(queue[s].ch) <= RingSize
  /\ drainer \in [pc : {"top", "reading", "sending", "closing", "stopped"},
                  target : Sessions \cup {NoSession}, seq : Nat]
  /\ hubDone \in BOOLEAN /\ reads \in 0 .. MaxReads
  /\ handle \in [Sessions -> {"none", "held", "released"}]
  /\ done \in [Sessions -> BOOLEAN]
  /\ run \in [Sessions -> {"idle", "loop", "ticking", "joining", "returned"}]
  /\ stat \in [Sessions -> {"idle", "loop", "draining", "exited"}]
  /\ acc \in [Sessions -> AccumulatorType]
  /\ final \in [Sessions -> AccumulatorType]
  /\ hist \in [Sessions -> [gated : Nat, seqs : SUBSET Seqs]]
  /\ atCancel \in [Sessions -> [gated : Nat, seqs : SUBSET Seqs]]
  /\ refused \in [Sessions -> Nat]
  /\ panicked \in BOOLEAN

(* The drainer never sends on a channel that Release or closeAll closed,   *)
(* and no channel is closed twice (hub.go: the read lock spans lookup and  *)
(* send; Release and closeAll close only what is still registered).        *)
NoChannelPanic == ~panicked

(* A flow id names the queue of a session that holds its handle, asked for *)
(* that id and has an open channel; and until the hub stops, every session *)
(* that holds a handle is registered.                                      *)
RegistryMatchesHandles ==
  /\ \A f \in Flows : flows[f] # NoSession =>
       /\ handle[flows[f]] = "held"
       /\ FlowOf[flows[f]] = f
       /\ ~queue[flows[f]].closed
  /\ drainer.pc # "stopped" =>
       \A s \in Sessions : handle[s] = "held" => flows[FlowOf[s]] = s

Counted(a) == a.recv + a.duplicates + a.localDrops

(* Every datagram the hub accepted for a session is counted once: observed *)
(* (fresh or duplicate), still in the ring, or a local drop, whether the   *)
(* hub still holds that drop or the receiver pulled it; unless the         *)
(* accumulator refused its number (stats.go:126-136), which counts it      *)
(* nowhere.                                                                *)
AcceptedIsAccounted ==
  \A s \in Sessions :
    hist[s].gated = Counted(acc[s]) + refused[s] + Len(queue[s].ch)
                      + queue[s].localDrops

(* The snapshot Run returns covers everything the hub had accepted when    *)
(* the session was cancelled, but for what was refused: the tail in the    *)
(* ring and the drops the hub still held (statHub's drain, the pull after  *)
(* the join).                                                              *)
FinalCoversCancel ==
  \A s \in Sessions :
    run[s] = "returned" => Counted(final[s]) + refused[s] >= atCancel[s].gated

\* How many of a session's accepted datagrams repeat an earlier one.
Repeats(s) == hist[s].gated - Cardinality(hist[s].seqs)

(* Loss in the final snapshot is never less than what really did not reach *)
(* the hub, but for the repeats of a session that outgrew the map; and it  *)
(* exceeds what had not reached the hub by the cancel by no more than the  *)
(* reported local drops and the refused packets, which look like losses    *)
(* once a later number is accepted.                                        *)
FinalLossIsHonest ==
  \A s \in Sessions : run[s] = "returned" =>
    /\ Cardinality(Missing(final[s], hist[s].seqs))
         <= final[s].lost + (IF Cardinality(hist[s].seqs) <= MaxSeenEntries
                             THEN 0 ELSE Repeats(s))
    /\ final[s].lost <= Cardinality(Missing(final[s], atCancel[s].seqs))
                          + final[s].localDrops + refused[s]

(* A cancelled receiver returns its final snapshot: statHub drains and     *)
(* exits even though the hub keeps the channel open.  A stopping hub       *)
(* unblocks the readers of every channel registered when it stops          *)
(* (closeAll), so a statHub without a cancelled context ends too.          *)
ReceiverReturns ==
  \A s \in Sessions :
    /\ (done[s] /\ run[s] = "loop") ~> run[s] = "returned"
    /\ (drainer.pc = "closing" /\ flows[FlowOf[s]] = s /\ stat[s] = "loop")
         ~> stat[s] = "exited"
=============================================================================
