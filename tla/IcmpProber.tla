------------------------------ MODULE IcmpProber ------------------------------
(***************************************************************************)
(* internal/probe/probe_unix.go: the ICMP prober.  Run sweeps the TTLs on  *)
(* a ticker, recvLoop folds replies into the hop counters, both under one  *)
(* mutex that neither holds across I/O: a reply may come in between a      *)
(* probe's registration and its write, or be in recvLoop's hands while     *)
(* emit gives its probe up.                                                *)
(*                                                                         *)
(* The network loses, delays and repeats replies, up to MaxDelay ticks     *)
(* after the probe; whether a TTL reaches the target is open for every     *)
(* reply (routes change).  Snapshots are sent without blocking and change  *)
(* nothing here; what becomes of them is in ReversePath.  A raw socket is  *)
(* also handed the replies to everybody else's pings: same sequence        *)
(* numbers, another identifier.                                            *)
(***************************************************************************)
EXTENDS HopBooks

CONSTANTS
  SeqSpace,      \* sequence numbers before the counter wraps (65535)
  MaxDelay,      \* bound: ticks after which a probe has no reply any more
  MaxSweeps,     \* bound: sweeps in a behaviour
  SendThreshold, \* sendErrBackoffThreshold
  Foreign        \* the id of a probe that is not this prober's

ASSUME IcmpAssumption ==
  /\ MaxDelay \in Nat /\ MaxSweeps \in Nat
  /\ SendThreshold \in Nat \ {0}
  \* minMTRInterval: a number comes round only after its probe is settled.
  /\ SeqSpace \in Nat
  /\ SeqSpace >= MaxHops * (MaxDelay + 1) /\ SeqSpace >= MaxHops * (Window + 2)
  /\ Foreign \notin Nat

VARIABLES
  \* The prober.
  nextSeq, inflight, hops, terminus,
  conn,      \* the raw socket is open
  run,       \* Run: pc, the sweep's limit, failures, ttl and seq, consecBadSweeps
  recv,      \* recvLoop: "reading", "exited"
  done,      \* the context is cancelled
  \* The environment and history.
  wire,      \* probes that left and may still be answered
  issued,    \* probes registered so far: the id of the next one
  sweeps,    \* sweeps completed
  lastOut,   \* the last sweep in which a probe left
  strayed    \* a reply was credited to another probe than its own

proberVars == <<nextSeq, inflight, hops, terminus, conn, run, recv, done>>
vars == <<proberVars, wire, issued, sweeps, lastOut, strayed>>

\* A sweep begins, the first one with Run itself.
Sweeping(term, bad) ==
  [pc |-> "send", ttl |-> 1, limit |-> SweepLimit(term), failures |-> 0,
   bad |-> bad, fatal |-> FALSE]

Init ==
  /\ nextSeq = 1 /\ inflight = {} /\ terminus = 0
  /\ hops = [t \in TTLs |-> NewHop]
  /\ conn = TRUE /\ done = FALSE
  /\ run = Sweeping(0, 0)
  /\ recv = "reading"
  /\ wire = {} /\ issued = 0 /\ sweeps = 0 /\ lastOut = 0 /\ strayed = FALSE

-----------------------------------------------------------------------------
(* Run. *)

\* The sequence counter skips zero when it wraps.
SeqAfter(s) == IF s = SeqSpace THEN 1 ELSE s + 1

\* send: under the mutex the number is taken and the probe registered, over an
\* entry the number may still have; then it leaves, or the error counts
\* towards the sweep's failures and shows as a probe nobody answers.  What
\* recvLoop does in between commutes with the write.
Send(ok) ==
  LET failures == run.failures + (IF ok THEN 0 ELSE 1)
  IN  /\ run.pc = "send"
      /\ inflight' = {p \in inflight : p.seq # nextSeq}
           \cup {[seq |-> nextSeq, ttl |-> run.ttl, id |-> issued, age |-> 0]}
      /\ nextSeq' = SeqAfter(nextSeq)
      /\ hops' = [hops EXCEPT ![run.ttl] = Registered(@)]
      /\ issued' = issued + 1
      /\ wire' = IF ok THEN wire \cup {[seq |-> nextSeq, id |-> issued, age |-> 0]}
                 ELSE wire
      /\ lastOut' = IF ok THEN sweeps + 1 ELSE lastOut
      /\ IF run.ttl < run.limit
         THEN /\ run' = [run EXCEPT !.ttl = @ + 1, !.failures = failures]
              /\ UNCHANGED sweeps
         ELSE /\ run' = [run EXCEPT !.pc = "emit", !.failures = failures]
              /\ sweeps' = sweeps + 1
      /\ UNCHANGED <<terminus, conn, recv, done, strayed>>

\* Slip: a sweep that got through leaves the count of bad ones alone.
BadSweepsKept(n) == IF run.failures = run.limit THEN n + 1 ELSE n

\* consecBadSweeps after a sweep.
BadSweeps(n) == IF run.failures = run.limit THEN n + 1 ELSE 0

\* emit, then Run's count of bad sweeps: too many in a row end the prober.
\* The first sweep is not compared; it cannot reach the threshold.
Emit(cut) ==
  LET gone == Expired(inflight, cut)
      bad == BadSweeps(run.bad)
      fatal == bad > SendThreshold
  IN  /\ run.pc = "emit"
      /\ inflight' = inflight \ gone
      /\ hops' = AfterPrune(hops, gone)
      /\ run' = [run EXCEPT !.pc = IF fatal THEN "closing" ELSE "waiting",
                            !.bad = bad, !.fatal = fatal]
      /\ conn' = ~fatal
      /\ UNCHANGED <<nextSeq, terminus, recv, done, wire, issued, sweeps,
                 lastOut, strayed>>

\* The select: a tick starts a sweep, whose limit is read once.  Everything is
\* one interval older by then; a sweep's writes do not block, so the tick
\* finds Run waiting and none is lost.
Tick ==
  /\ run.pc = "waiting"
  /\ sweeps < MaxSweeps
  /\ run' = Sweeping(terminus, run.bad)
  /\ inflight' = Older(inflight)
  /\ wire' = {[w EXCEPT !.age = @ + 1] : w \in {v \in wire : v.age < MaxDelay}}
  /\ UNCHANGED <<nextSeq, hops, terminus, conn, recv, done, issued, sweeps,
                 lastOut, strayed>>

\* The select: a done context closes the socket.
SeeDone ==
  /\ run.pc = "waiting" /\ done
  /\ conn' = FALSE
  /\ run' = [run EXCEPT !.pc = "closing"]
  /\ UNCHANGED <<nextSeq, inflight, hops, terminus, recv, done, wire,
                 issued, sweeps,
                 lastOut, strayed>>

\* wg.Wait: Run returns once recvLoop has.
Return ==
  /\ run.pc = "closing" /\ recv = "exited"
  /\ run' = [run EXCEPT !.pc = "returned"]
  /\ UNCHANGED <<nextSeq, inflight, hops, terminus, conn, recv, done,
                 wire, issued, sweeps,
                 lastOut, strayed>>

-----------------------------------------------------------------------------
(* recvLoop. *)

\* Slip: only a done context ends recvLoop.
GoneUnlessDone == done

\* A read error ends recvLoop when the socket is closed or the context done.
\* Otherwise it reads again, at once or after a pause that a done context cuts
\* short: a reply that waits longer, no more.
Gone == ~conn \/ done

RecvExit ==
  /\ recv = "reading" /\ Gone
  /\ recv' = "exited"
  /\ UNCHANGED <<nextSeq, inflight, hops, terminus, conn, run, done, wire,
                 issued, sweeps, lastOut, strayed>>

\* What the socket may be handed: an EchoReply, or a TimeExceeded with the probe
\* it answers in it; for a probe of this prober or of another one.
Messages ==
  [kind : {"EchoReply", "TimeExceeded"},
   answers : wire \cup [seq : 1 .. SeqSpace, id : {Foreign}]]

\* Slip: the identifier is not compared.
ParseAny(m) == m.kind

\* parseReply: what carries another identifier is ignored.
ParseReply(m) == IF m.answers.id = Foreign THEN "ignore" ELSE m.kind

\* A reply is read and folded in, unless nobody waits for its number any more.
\* The mutex is taken only after the read: that emit gives the probe up in
\* between is as if the reply had come later.
Fold(m) ==
  LET w == m.answers
      mine == {p \in inflight : p.seq = w.seq}
      echo == ParseReply(m) = "EchoReply"
  IN  /\ recv = "reading" /\ conn
      /\ ParseReply(m) # "ignore"
      /\ inflight' = inflight \ mine
      /\ hops' = [t \in TTLs |-> IF \E p \in mine : p.ttl = t THEN Recorded(hops[t])
                                                              ELSE hops[t]]
      /\ terminus' = IF echo /\ mine # {}
                     THEN Nearest(terminus, (CHOOSE p \in mine : TRUE).ttl)
                     ELSE terminus
      /\ strayed' = (strayed \/ \E p \in mine : p.id # w.id)
      /\ UNCHANGED <<nextSeq, conn, run, recv, done, wire, issued, sweeps,
                     lastOut>>

-----------------------------------------------------------------------------
(* The environment. *)

\* The session ends.
Cancel ==
  /\ ~done
  /\ done' = TRUE
  /\ UNCHANGED <<nextSeq, inflight, hops, terminus, conn, run, recv, wire,
                 issued, sweeps,
                 lastOut, strayed>>

RunStep ==
  \/ Send(TRUE) \/ Send(FALSE)
  \/ (\E cut \in 0 .. issued : Emit(cut))
  \/ SeeDone \/ Return

RecvStep ==
  \/ \E m \in Messages : Fold(m)
  \/ RecvExit

Next == RunStep \/ RecvStep \/ Tick \/ Cancel

\* Both goroutines run; Go's select takes a done context sooner or later
\* although ticks keep coming; a closed socket fails the pending read.
Fairness ==
  /\ WF_vars(RunStep) /\ SF_vars(SeeDone)
  /\ WF_vars(~conn /\ RecvExit)

Spec == Init /\ [][Next]_vars /\ Fairness

-----------------------------------------------------------------------------
(* Properties. *)

Ledger == INSTANCE HopLedger WITH
  Hops <- TTLs, Settle <- Window,
  open <- {[id |-> p.id, ttl |-> p.ttl, age |-> p.age] : p \in inflight},
  sent <- [t \in TTLs |-> hops[t].sent],
  recv <- [t \in TTLs |-> hops[t].recv],
  lost <- [t \in TTLs |-> Lost(hops[t])]

\* probe_unix.go:46-60, 284-343: whatever the interleaving of sweeps, replies
\* and pruning, with the sequence counter wrapping around, the table keeps the
\* promise of HopLedger.
ImplementsHopLedger == Ledger!LedgerSpec

\* probe_unix.go:19-25, 202-214, 278-302: a reply is credited only to the probe it
\* answers, also when its number was in use before, and never one to another
\* prober's probe, although every raw socket is handed those too.
RepliesCreditTheirProbe == ~strayed

\* The sweeps completed since one of which a probe left.
Blackout == sweeps - lastOut

TypeOK ==
  /\ nextSeq \in 1 .. SeqSpace /\ terminus \in 0 .. MaxHops
  /\ \A t \in TTLs : Lost(hops[t]) >= 0 /\ hops[t].inflight >= 0
  /\ \A p, q \in inflight : p.seq = q.seq => p = q

\* probe_unix.go:134-165: the prober gives up exactly when more sweeps than the
\* threshold failed in a row and nothing went out in between; and its table is
\* well-formed all along.
BlackoutEscalates ==
  /\ TypeOK
  /\ run.fatal => Blackout > SendThreshold
  /\ run.pc \in {"waiting", "send"} => Blackout <= SendThreshold

\* probe_unix.go:149-161, 253-256: cancelled or given up, Run comes back: closing
\* the socket is what gets recvLoop out of its read.
ProberReturns == (done \/ run.fatal) ~> run.pc = "returned"
=============================================================================
