------------------------------ MODULE TraceClient ------------------------------
(***************************************************************************)
(* cmd/dropline/trace.go and internal/tui/model.go: traceRun after Ready,  *)
(* with its goroutines, the aggregator they share, the channel to the      *)
(* terminal UI and the report, in TUI mode and in report mode.             *)
(*                                                                         *)
(* An aggregator call is two steps, as in the code: the update and the     *)
(* snapshot under the lock, the send on the channel after it.  Of the      *)
(* aggregator's state the module keeps the suspect marks of the hop tables *)
(* and the reverse stream's count; of a snapshot, that it is sent.  The    *)
(* sender and the TCP corroboration probe are left out: nothing here reads *)
(* what they do.                                                           *)
(***************************************************************************)
EXTENDS Integers, Sequences, FiniteSets

CONSTANTS
  Probers,     \* the hop probers of the session
  SnapsCap,    \* capacity of the channel to the TUI
  Nothing,     \* no message, no report, nobody
  MaxNet,      \* bound: control messages under way, the last one aside
  MaxReverse   \* bound: packets of the reverse stream

\* What a report says of the path and of the reverse stream, -1 before it has.
Reports == [suspects : SUBSET Probers, marked : SUBSET Probers, rev : -1 .. MaxReverse]

ASSUME TraceAssumption ==
  /\ SnapsCap \in Nat \ {0}
  /\ MaxNet \in Nat /\ MaxReverse \in Nat
  /\ Probers \subseteq {"icmp", "tcp"}
  /\ Nothing \notin Reports \cup {"final", "error", "lost", "ok"}

Streams == Probers \cup {"reverse"}
Emitters == Streams \cup {"control", "builder", "keys"}

VARIABLES
  mode,      \* "tui" or "report"
  signalled, \* the caller's context is done (SIGINT, SIGTERM)
  cancelled, \* workerCancel was called
  \* The server.
  conn,      \* the control connection: "open", "ended" by it, "closed" by us
  net,       \* control messages under way
  \* Goroutines.
  recv,      \* runRecvLoop and what follows it
  worker,    \* stream -> its prober or receiver: "running" or "gone"
  drainer,   \* stream -> the goroutine that ingests its snapshots
  revRecv,   \* packets the reverse receiver counted
  main,      \* traceRun itself
  \* Shared state.
  agg,       \* the aggregator: marked tables, known tables, reverse count
  pend,      \* who is between the lock and the send of an aggregator call
  snaps,     \* the channel to the TUI: its length len, and whether closed
  tui,       \* pc, and whether it is on its test-complete view
  \* Results.
  got,       \* what ended the receive loop: Nothing, "final", "error", "lost"
  todo,      \* tables buildReportData has yet to mark
  report,    \* the report.Data it built, or Nothing
  built,     \* builtData was stored
  result,    \* what traceRun returned: Nothing, "ok" or "error"
  panicked   \* who sent on the closed channel

control == <<conn, net>>
workers == <<worker, drainer, revRecv>>
shared == <<agg, pend, snaps>>
reporting == <<todo, report, built>>
vars == <<mode, signalled, cancelled, control, recv, workers,
          main, shared, tui, got, reporting, result, panicked>>

Init ==
  /\ mode \in {"tui", "report"}
  /\ signalled = FALSE /\ cancelled = FALSE
  /\ conn = "open" /\ net = <<>>
  /\ recv = "reading"
  /\ worker = [w \in Streams |-> "running"]
  /\ drainer = [w \in Streams |-> "running"]
  /\ revRecv = 0
  /\ main = "waiting"
  /\ agg = [marked |-> {}, known |-> {}, rev |-> 0]
  /\ pend = {}
  /\ snaps = [len |-> 0, closed |-> FALSE]
  /\ tui = [pc |-> IF mode = "tui" THEN "running" ELSE "off",
            done |-> FALSE]
  /\ got = Nothing
  /\ todo = {} /\ report = Nothing /\ built = FALSE
  /\ result = Nothing /\ panicked = Nothing

\* workerCtx is a child of the caller's context.
Stopping == cancelled \/ signalled

-----------------------------------------------------------------------------
(* The aggregator. *)

\* The locked half of an aggregator call.  Without a TUI there is no channel.
Update(e, a) ==
  /\ e \notin pend
  /\ agg' = a
  /\ pend' = IF mode = "tui" THEN pend \cup {e} ELSE pend

\* A send that never blocks: a full channel drops the value.
Offered(len, cap) == IF len < cap THEN len + 1 ELSE len

\* emit; a send on a closed channel panics.
Emit(e) ==
  /\ e \in pend
  /\ pend' = pend \ {e}
  /\ IF snaps.closed
     THEN panicked' = e /\ UNCHANGED snaps
     ELSE /\ snaps' = [snaps EXCEPT !.len = Offered(@, SnapsCap)]
          /\ UNCHANGED panicked
  /\ UNCHANGED <<mode, signalled, cancelled, control, recv, workers, main,
                 agg, tui, got, reporting, result>>

-----------------------------------------------------------------------------
(* The server, as the client sees it. *)

\* Stats, ReverseHopUpdate and ReverseTCPHopUpdate.
ServerUpdate ==
  /\ conn = "open" /\ Len(net) < MaxNet
  /\ net' = Append(net, "update")
  /\ UNCHANGED <<mode, signalled, cancelled, conn, recv, workers, main,
                 shared, tui, got, reporting, result, panicked>>

\* Final, Error, or the connection is lost: the last of the session.
ServerEnds ==
  /\ conn = "open"
  /\ conn' = "ended"
  /\ \E last \in {<<"final">>, <<"error">>, <<>>} : net' = net \o last
  /\ UNCHANGED <<mode, signalled, cancelled, recv, workers, main, shared,
                 tui, got, reporting, result, panicked>>

-----------------------------------------------------------------------------
(* The control connection. *)

\* runRecvLoop, one message.
RecvMessage ==
  /\ recv = "reading" /\ "control" \notin pend
  /\ conn # "closed" /\ net # <<>>
  /\ net' = Tail(net)
  /\ IF Head(net) = "update"
     THEN Update("control", agg) /\ UNCHANGED <<recv, got>>
     ELSE /\ recv' = "grace"
          /\ got' = Head(net)
          /\ UNCHANGED <<agg, pend>>
  /\ UNCHANGED <<mode, signalled, cancelled, conn, workers, main, snaps,
                 tui, reporting, result, panicked>>

RecvFails ==
  /\ recv = "reading" /\ "control" \notin pend
  /\ conn = "closed" \/ (conn = "ended" /\ net = <<>>)
  /\ recv' = "grace" /\ got' = "lost"
  /\ UNCHANGED <<mode, signalled, cancelled, control, workers, main, shared,
                 tui, reporting, result, panicked>>

\* The 200 ms for reverse packets still under way end.
GraceOver ==
  /\ recv = "grace"
  /\ recv' = IF mode = "tui" /\ got = "final" THEN "building"
                                              ELSE "cancelling"
  /\ UNCHANGED <<mode, signalled, cancelled, control, workers, main, shared,
                 tui, got, reporting, result, panicked>>

Publish ==
  /\ recv = "publishing"
  /\ built' = TRUE
  /\ recv' = "cancelling"
  /\ UNCHANGED <<mode, signalled, cancelled, control, workers, main, shared,
                 tui, got, todo, report, result, panicked>>

WorkerCancel == cancelled' = TRUE

RecvCancels ==
  /\ recv = "cancelling"
  /\ WorkerCancel
  /\ recv' = "gone"
  /\ UNCHANGED <<mode, signalled, control, workers, main, shared, tui, got,
                 reporting, result, panicked>>

\* Slip: the connection is left open.
LeaveOpen == UNCHANGED conn
CloseConn == conn' = "closed"

\* The watcher closes the connection, which ends a blocked Recv.
Watcher ==
  /\ Stopping /\ conn # "closed"
  /\ CloseConn
  /\ UNCHANGED <<mode, signalled, cancelled, net, recv, workers, main,
                 shared, tui, got, reporting, result, panicked>>

-----------------------------------------------------------------------------
(* Probers, the reverse receiver, and the goroutines that ingest what they *)
(* emit.  Their channels drop snapshots when full, so a drainer may get    *)
(* any, and finds one there after its worker has gone.                     *)

\* The context is done, or every send of a prober failed for a while.
WorkerExits(w) ==
  /\ worker[w] = "running"
  /\ w = "reverse" => Stopping
  /\ worker' = [worker EXCEPT ![w] = "gone"]
  /\ UNCHANGED <<mode, signalled, cancelled, control, recv, drainer,
                 revRecv, main, shared, tui, got, reporting, result,
                 panicked>>

DrainerExits(w) ==
  /\ drainer[w] = "running" /\ Stopping /\ w \notin pend
  /\ drainer' = [drainer EXCEPT ![w] = "gone"]
  /\ UNCHANGED <<mode, signalled, cancelled, control, recv, worker, revRecv,
                 main, shared, tui, got, reporting, result, panicked>>

\* IngestForwardHop rebuilds the hop table, without marks.
DrainHops(p) ==
  /\ drainer[p] = "running"
  /\ Update(p, [agg EXCEPT !.marked = @ \ {p}, !.known = @ \cup {p}])
  /\ UNCHANGED <<mode, signalled, cancelled, control, recv, worker, drainer,
                 revRecv, main, snaps, tui, got, reporting, result, panicked>>

\* A reverse packet arrives and is counted, before the Final or after it.
ReverseArrives ==
  /\ worker["reverse"] = "running" /\ revRecv < MaxReverse
  /\ revRecv' = revRecv + 1
  /\ UNCHANGED <<mode, signalled, cancelled, control, recv, worker, drainer,
                 main, shared, tui, got, reporting, result, panicked>>

\* IngestReverseStream, of the count at some tick.  Nobody ingests the final
\* snapshot Run returns.
DrainReverse ==
  /\ drainer["reverse"] = "running" /\ agg.rev < revRecv
  /\ \E count \in agg.rev + 1 .. revRecv :
       Update("reverse", [agg EXCEPT !.rev = count])
  /\ UNCHANGED <<mode, signalled, cancelled, control, recv, workers, main,
                 snaps, tui, got, reporting, result, panicked>>

-----------------------------------------------------------------------------
(* buildReportData. *)

Building == recv = "building" \/ main = "building"

\* Correlate blames hops of tables it was given, or none.
Correlate ==
  /\ Building /\ report = Nothing
  /\ \E blamed \in SUBSET agg.known :
       /\ todo' = blamed
       /\ report' = [suspects |-> blamed, marked |-> {}, rev |-> -1]
  /\ UNCHANGED <<mode, signalled, cancelled, control, recv, workers, main,
                 shared, tui, got, built, result, panicked>>

\* MarkSuspects, then MarkTCPSuspects; neither without suspects.
Mark(p) ==
  /\ Building /\ p \in todo
  /\ p = "tcp" => "icmp" \notin todo
  /\ todo' = todo \ {p}
  /\ Update("builder", [agg EXCEPT !.marked = @ \cup {p}])
  /\ UNCHANGED <<mode, signalled, cancelled, control, recv, workers, main,
                 snaps, tui, got, report, built, result, panicked>>

\* The last look at the aggregator.
Collect ==
  /\ Building /\ report # Nothing
  /\ todo = {} /\ "builder" \notin pend
  /\ report' = [report EXCEPT !.marked = agg.marked, !.rev = agg.rev]
  /\ IF mode = "tui"
     THEN recv' = "publishing" /\ UNCHANGED <<main, result>>
     ELSE main' = "returned" /\ result' = "ok" /\ UNCHANGED recv
  /\ UNCHANGED <<mode, signalled, cancelled, control, workers, shared, tui,
                 got, todo, built, panicked>>

-----------------------------------------------------------------------------
(* The terminal UI. *)

Idle == tui.pc = "running" /\ "keys" \notin pend /\ panicked = Nothing

TuiShows ==
  /\ Idle /\ snaps.len > 0
  /\ snaps' = [snaps EXCEPT !.len = @ - 1]
  /\ UNCHANGED <<mode, signalled, cancelled, control, recv, workers, main,
                 agg, pend, tui, got, reporting, result, panicked>>

\* The channel is closed and empty: the test-complete view.
TuiDone ==
  /\ Idle /\ snaps.closed /\ snaps.len = 0 /\ ~tui.done
  /\ tui' = [tui EXCEPT !.done = TRUE]
  /\ UNCHANGED <<mode, signalled, cancelled, control, recv, workers, main,
                 shared, got, reporting, result, panicked>>

\* [r]: aggregator.Reset, from the UI's own goroutine.
PressReset ==
  /\ Idle /\ ~tui.done
  /\ Update("keys", [agg EXCEPT !.marked = {}])
  /\ UNCHANGED <<mode, signalled, cancelled, control, recv, workers, main,
                 snaps, tui, got, reporting, result, panicked>>

PressQuit ==
  /\ Idle
  /\ tui' = [tui EXCEPT !.pc = "quit"]
  /\ UNCHANGED <<mode, signalled, cancelled, control, recv, workers, main,
                 shared, got, reporting, result, panicked>>

\* tui.Run returns an error when the caller's context ends, and when the
\* event loop panicked: bubbletea recovers that panic.
TuiKilled ==
  /\ \/ Idle /\ signalled
     \/ tui.pc = "running" /\ panicked = "keys"
  /\ tui' = [tui EXCEPT !.pc = "killed"]
  /\ UNCHANGED <<mode, signalled, cancelled, control, recv, workers, main,
                 shared, got, reporting, result, panicked>>

-----------------------------------------------------------------------------
(* traceRun. *)

StreamsGone == \A w \in Streams : worker[w] = "gone" /\ drainer[w] = "gone"

\* workersWG is at zero.
WorkersGone == StreamsGone /\ (mode = "tui" => recv = "gone")

\* Slips: only the receive loop is waited for, or only its last read.
RecvGone == recv = "gone"
ReadAndGone == StreamsGone /\ recv # "reading"

\* The closer goroutine's workersWG.Wait.
AllSent == WorkersGone

\* traceRun's: <-recvDone, or its own receive loop, and workersWG.Wait.
Joined == recv = "gone" /\ WorkersGone

CloseSnaps ==
  /\ mode = "tui" /\ AllSent /\ ~snaps.closed
  /\ snaps' = [snaps EXCEPT !.closed = TRUE]
  /\ UNCHANGED <<mode, signalled, cancelled, control, recv, workers, main,
                 agg, pend, tui, got, reporting, result, panicked>>

\* The UI has gone, or in report mode the receive loop has ended.
StopWaiting ==
  /\ main = "waiting"
  /\ IF mode = "tui" THEN tui.pc \in {"quit", "killed"} ELSE recv = "gone"
  /\ main' = IF tui.pc = "killed" THEN "abandoning" ELSE "joining"
  /\ cancelled' = (cancelled \/ mode = "tui")
  /\ UNCHANGED <<mode, signalled, control, recv, workers, shared, tui, got,
                 reporting, result, panicked>>

\* Slip: how the receive loop ended is not looked at.
AlwaysOK == "ok"
Verdict == IF got = "final" THEN "ok" ELSE "error"

Join ==
  /\ main \in {"joining", "abandoning"}
  /\ Joined
  /\ IF main = "joining" /\ mode = "report" /\ Verdict = "ok"
     THEN main' = "building" /\ UNCHANGED result
     ELSE /\ main' = "returned"
          /\ result' = IF main = "abandoning" THEN "error" ELSE Verdict
  /\ UNCHANGED <<mode, signalled, cancelled, control, recv, workers, shared,
                 tui, got, reporting, panicked>>

Signal ==
  /\ ~signalled
  /\ signalled' = TRUE
  /\ UNCHANGED <<mode, cancelled, control, recv, workers, main, shared, tui,
                 got, reporting, result, panicked>>

-----------------------------------------------------------------------------
RecvLoop == RecvMessage \/ RecvFails \/ GraceOver \/ Publish \/ RecvCancels
Builder == Correlate \/ Collect \/ \E p \in Probers : Mark(p)
Screen == TuiShows \/ TuiDone
Driver == StopWaiting \/ Join

Step ==
  \/ ServerUpdate \/ ServerEnds \/ ReverseArrives
  \/ RecvLoop \/ Watcher \/ Builder \/ CloseSnaps \/ Driver
  \/ Screen \/ PressReset \/ PressQuit \/ TuiKilled \/ Signal
  \/ DrainReverse \/ \E p \in Probers : DrainHops(p)
  \/ \E w \in Streams : WorkerExits(w) \/ DrainerExits(w)
  \/ \E e \in Emitters : Emit(e)

\* The process ends when traceRun returns and when a worker panics.
Alive == panicked \in {Nothing, "keys"} /\ main # "returned"

Next == Alive /\ Step

\* Goroutines run, and workers look at their context.  Neither the server nor
\* the user is assumed to do anything.
Fairness ==
  /\ WF_vars(Alive /\ RecvLoop) /\ WF_vars(Alive /\ Watcher)
  /\ WF_vars(Alive /\ Builder) /\ WF_vars(Alive /\ CloseSnaps)
  /\ WF_vars(Alive /\ Driver) /\ SF_vars(Alive /\ Screen)
  /\ SF_vars(Alive /\ TuiKilled)
  /\ \A w \in Streams :
       /\ WF_vars(Alive /\ WorkerExits(w) /\ Stopping)
       /\ SF_vars(Alive /\ DrainerExits(w))
  /\ \A e \in Emitters : WF_vars(Alive /\ Emit(e))

Spec == Init /\ [][Next]_vars /\ Fairness

-----------------------------------------------------------------------------
(* Properties. *)

\* Every variable has its type and no channel holds more than its capacity.
TypeOK ==
  /\ mode \in {"tui", "report"} /\ signalled \in BOOLEAN
  /\ cancelled \in BOOLEAN
  /\ conn \in {"open", "ended", "closed"}
  /\ net \in Seq({"update", "final", "error"}) /\ Len(net) <= MaxNet + 1
  /\ revRecv \in 0..MaxReverse
  /\ recv \in {"reading", "grace", "building", "publishing", "cancelling",
              "gone"}
  /\ worker \in [Streams -> {"running", "gone"}]
  /\ drainer \in [Streams -> {"running", "gone"}]
  /\ main \in {"waiting", "joining", "abandoning", "building", "returned"}
  /\ agg \in [marked : SUBSET Probers, known : SUBSET Probers,
             rev : 0..MaxReverse]
  /\ agg.marked \subseteq agg.known
  /\ pend \subseteq Emitters
  /\ snaps \in [len : 0..SnapsCap, closed : BOOLEAN]
  /\ tui \in [pc : {"off", "running", "quit", "killed"}, done : BOOLEAN]
  /\ got \in {Nothing, "final", "error", "lost"} /\ built \in BOOLEAN
  /\ result \in {Nothing, "ok", "error"}
  /\ panicked \in Emitters \cup {Nothing}

\* Whenever the TUI offers [s] and [c] after a Final, the report they write is
\* there: recvLoop publishes builtData before anything can close the channel.
SaveReady == TypeOK /\ (tui.done /\ got = "final" => built)

\* traceRun succeeds only with the server's Final and a complete report, on
\* every way out of the receive loop, of the UI and of the workers; and in report
\* mode the hops it blames are marked as suspects: no drainer is left to rebuild
\* a hop table between MarkSuspects and the last Snapshot.
SuccessHasReport ==
  result = "ok" => /\ got = "final"
                   /\ report # Nothing /\ report.rev >= 0
                   /\ mode = "tui" => built
                   /\ mode = "report" => report.suspects \subseteq report.marked

\* The channel to the TUI is closed after the last worker's send, wherever an
\* ingest was between unlock and send when the workers were told to stop.
WorkersNeverPanic == panicked \in {Nothing, "keys"}

\* SIGINT or SIGTERM ends traceRun, whatever the server, the probers and the
\* channels are at.  And a Final ends the test: the TUI shows the test-complete
\* view unless the user has left it, and without a TUI traceRun returns.
TestEnds ==
  /\ signalled ~> ~Alive
  /\ got = "final" ~> (tui.done \/ tui.pc \in {"quit", "killed"} \/ ~Alive)

\* What the closer goroutine is said to ensure: the channel is closed once all
\* senders have exited (the UI itself is a sender, through [r]).
ClosedAfterSenders == panicked = Nothing

\* What the 200 ms of grace are said to ensure: the report counts what the
\* reverse receiver counted.
HonestReverseCount == result = "ok" => report.rev = revRecv
=============================================================================
