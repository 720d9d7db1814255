--------------------------- MODULE TraceClient_proofs ---------------------------
(***************************************************************************)
(* Proofs about TraceClient, with any probers, any capacity of the channel *)
(* to the UI and any number of messages and reverse packets.               *)
(***************************************************************************)
EXTENDS TraceClient, TLAPS

\* What is under way, in the report and left to mark is what it may be.
ShapeInv ==
  /\ conn = "open" => Len(net) <= MaxNet
  /\ report = Nothing \/ report \in Reports
  /\ todo \subseteq agg.known

\* Who may be between an aggregator's lock and its send: nobody that has gone, so
\* once the channel is closed only the UI's own goroutine.
SendersInv ==
  /\ mode = "report" => pend = {} /\ ~snaps.closed /\ tui.pc = "off"
  /\ \A w \in Streams : drainer[w] = "gone" => w \notin pend
  /\ "control" \in pend => recv = "reading"
  /\ "builder" \in pend => recv = "building"
  /\ snaps.closed => WorkersGone /\ recv = "gone"
  /\ tui.done => snaps.closed
  /\ WorkersNeverPanic

\* A Final leads through the report to the end of the receive loop with a TUI,
\* and without one through the end of the workers to the report.
StagesInv ==
  /\ recv \in {"building", "publishing"} => mode = "tui" /\ got = "final"
  /\ mode = "tui" /\ got = "final" /\ recv \in {"cancelling", "gone"} => built
  /\ recv = "publishing" \/ built => report # Nothing /\ report.rev >= 0
  /\ built => recv \in {"cancelling", "gone"}
  /\ main = "building" =>
       mode = "report" /\ got = "final" /\ recv = "gone" /\ WorkersGone

\* Without a TUI nobody is left to rebuild a table while the report is built.
ReportInv ==
  /\ mode = "report" /\ report # Nothing =>
       /\ main \in {"building", "returned"}
       /\ main = "building" => report.suspects \subseteq agg.marked \cup todo
  /\ result = "ok" => main = "returned" /\ SuccessHasReport

IInv == TypeOK /\ ShapeInv /\ SendersInv /\ StagesInv /\ ReportInv

-----------------------------------------------------------------------------
(* The records of the aggregator and the report.                           *)

Aggs == [marked : SUBSET Probers, known : SUBSET Probers, rev : 0 .. MaxReverse]

\* What the updates of the aggregator and the report leave of their records.
LEMMA AggSteps ==
  ASSUME NEW a \in Aggs, a.marked \subseteq a.known
  PROVE  /\ \A m \in SUBSET a.known :
              LET b == [a EXCEPT !.marked = m] IN b \in Aggs
                /\ b.marked \subseteq b.known
         /\ \A p \in Probers :
              LET b == [a EXCEPT !.marked = @ \ {p}, !.known = @ \cup {p}]
              IN  b \in Aggs /\ b.marked \subseteq b.known
BY DEF Aggs

LEMMA ReportSteps ==
  ASSUME NEW r \in Reports, NEW m \in SUBSET Probers, NEW n \in 0 .. MaxReverse
  PROVE  LET s == [r EXCEPT !.marked = m, !.rev = n]
         IN  /\ s \in Reports /\ s # Nothing
             /\ s.marked = m /\ s.rev >= 0 /\ s.suspects = r.suspects
<1> DEFINE s == [r EXCEPT !.marked = m, !.rev = n]
<1>1. n \in -1 .. MaxReverse /\ n >= 0
  BY TraceAssumption
<1>2. s.marked = m /\ s.rev = n /\ s.suspects = r.suspects
  BY DEF Reports
<1>3. s \in Reports
  BY <1>1 DEF Reports
<1>4. Nothing \notin Reports
  BY TraceAssumption
<1> HIDE DEF s
<1>5. s # Nothing
  BY <1>3, <1>4
<1>6. /\ s \in Reports /\ s # Nothing
      /\ s.marked = m /\ s.rev >= 0 /\ s.suspects = r.suspects
  BY <1>1, <1>2, <1>3, <1>5
<1> QED BY <1>6 DEF s

-----------------------------------------------------------------------------
(* Types.                                                                  *)

LEMMA TypeOKStep ==
  ASSUME IInv, main # "returned", Step
  PROVE  TypeOK'
<1> USE TraceAssumption
<1>1. ASSUME ServerUpdate PROVE TypeOK'
  BY <1>1 DEF IInv, TypeOK, ServerUpdate, workers, shared, reporting
<1>2. ASSUME ServerEnds PROVE TypeOK'
  <2> DEFINE M == {"update", "final", "error"}
  <2>1. PICK last \in {<<"final">>, <<"error">>, <<>>} : net' = net \o last
    BY <1>2 DEF ServerEnds
  <2>2. last \in Seq(M) /\ Len(last) <= 1 /\ Len(last) \in Nat
    <3>1. CASE last = <<>>
      BY <3>1
    <3>2. CASE last = <<"final">>
      BY <3>2
    <3>3. CASE last = <<"error">>
      BY <3>3
    <3> QED BY <2>1, <3>1, <3>2, <3>3
  <2>3. net \in Seq(M) /\ Len(net) <= MaxNet /\ Len(net) \in Nat
    BY <1>2 DEF IInv, TypeOK, ShapeInv, ServerEnds
  <2>4. net' \in Seq(M) /\ Len(net') = Len(net) + Len(last)
    BY <2>1, <2>2, <2>3
  <2>5. net' \in Seq(M) /\ Len(net') <= MaxNet + 1
    BY <2>2, <2>3, <2>4
  <2>6. conn' \in {"open", "ended", "closed"}
    BY <1>2 DEF ServerEnds
  <2> QED BY <1>2, <2>5, <2>6
          DEF IInv, TypeOK, ServerEnds, workers, shared, reporting
<1>3. ASSUME ReverseArrives PROVE TypeOK'
  BY <1>3 DEF IInv, TypeOK, ReverseArrives, control, shared, reporting
<1>4. ASSUME RecvMessage PROVE TypeOK'
  <2> DEFINE M == {"update", "final", "error"}
  <2>1. net \in Seq(M) /\ net # <<>> /\ Len(net) <= MaxNet + 1 /\ net' = Tail(net)
    BY <1>4 DEF IInv, TypeOK, RecvMessage
  <2>2. Head(net) \in M /\ Tail(net) \in Seq(M) /\ Len(Tail(net)) = Len(net) - 1
        /\ Len(net) \in Nat
    BY <2>1
  <2>3. net' \in Seq(M) /\ Len(net') <= MaxNet + 1
    BY <2>1, <2>2
  <2>4. /\ agg' = agg /\ (pend' = pend \/ pend' = pend \cup {"control"})
        /\ (recv' = recv \/ recv' = "grace")
        /\ (got' = got \/ (got' = Head(net) /\ Head(net) # "update"))
    BY <1>4 DEF RecvMessage, Update
  <2>5. pend' \subseteq Emitters
    BY <2>4 DEF IInv, TypeOK, Emitters
  <2>6. got' \in {Nothing, "final", "error", "lost"}
    BY <2>2, <2>4 DEF IInv, TypeOK
  <2>7. recv' \in {"reading", "grace", "building", "publishing", "cancelling", "gone"}
    BY <2>4 DEF IInv, TypeOK
  <2> QED BY <1>4, <2>3, <2>4, <2>5, <2>6, <2>7
          DEF IInv, TypeOK, RecvMessage, workers, reporting
<1>5. ASSUME RecvFails PROVE TypeOK'
  BY <1>5 DEF IInv, TypeOK, RecvFails, control, workers, shared, reporting
<1>6. ASSUME GraceOver PROVE TypeOK'
  BY <1>6 DEF IInv, TypeOK, GraceOver, control, workers, shared, reporting
<1>7. ASSUME Publish PROVE TypeOK'
  BY <1>7 DEF IInv, TypeOK, Publish, control, workers, shared
<1>8. ASSUME RecvCancels PROVE TypeOK'
  BY <1>8 DEF IInv, TypeOK, RecvCancels, control, workers, shared, reporting, WorkerCancel
<1>9. ASSUME Watcher PROVE TypeOK'
  BY <1>9 DEF IInv, TypeOK, Watcher, workers, shared, reporting, CloseConn
<1>10. ASSUME Correlate PROVE TypeOK'
  BY <1>10 DEF IInv, TypeOK, Correlate, control, workers, shared
<1>11. ASSUME Collect PROVE TypeOK'
  BY <1>11 DEF IInv, TypeOK, Collect, control, workers, shared
<1>12. ASSUME NEW p \in Probers, Mark(p) PROVE TypeOK'
  <2>1. agg' = [agg EXCEPT !.marked = @ \cup {p}]
        /\ (pend' = pend \/ pend' = pend \cup {"builder"})
    BY <1>12 DEF Mark, Update
  <2>2. agg \in Aggs /\ agg.marked \subseteq agg.known
    BY DEF IInv, TypeOK, Aggs
  <2>3. agg' \in Aggs /\ agg'.marked \subseteq agg'.known
    <3>1. p \in agg.known
      BY <1>12 DEF IInv, ShapeInv, Mark
    <3>2. agg.marked \cup {p} \in SUBSET Probers
      BY <2>2, <3>1 DEF Aggs
    <3> QED BY <2>1, <2>2, <3>1, <3>2, AggSteps
  <2>4. pend' \subseteq Emitters
    BY <2>1 DEF IInv, TypeOK, Emitters, Streams
  <2> QED BY <1>12, <2>3, <2>4
          DEF IInv, TypeOK, Aggs, Mark, control, workers, reporting
<1>13. ASSUME CloseSnaps PROVE TypeOK'
  <2>1. snaps' \in [len : 0..SnapsCap, closed : BOOLEAN]
    <3>1. snaps \in [len : 0..SnapsCap, closed : BOOLEAN]
      BY DEF IInv, TypeOK
    <3>2. snaps' = [snaps EXCEPT !.closed = TRUE]
      BY <1>13 DEF CloseSnaps
    <3>3. TRUE \in BOOLEAN
      OBVIOUS
    <3> QED BY <3>1, <3>2, <3>3, Zenon
  <2> QED BY <1>13, <2>1
          DEF IInv, TypeOK, CloseSnaps, control, workers, reporting
<1>14. ASSUME StopWaiting PROVE TypeOK'
  BY <1>14 DEF IInv, TypeOK, StopWaiting, control, workers, shared, reporting
<1>15. ASSUME Join PROVE TypeOK'
  BY <1>15 DEF IInv, TypeOK, Join, control, workers, shared, reporting, Verdict
<1>16. ASSUME TuiShows PROVE TypeOK'
  <2>1. snaps' \in [len : 0..SnapsCap, closed : BOOLEAN]
    <3>1. /\ snaps \in [len : 0..SnapsCap, closed : BOOLEAN]
          /\ snaps.len > 0 /\ snaps' = [snaps EXCEPT !.len = @ - 1]
      BY <1>16 DEF IInv, TypeOK, TuiShows
    <3>2. snaps.len \in 0..SnapsCap /\ SnapsCap \in Nat
      BY <3>1
    <3>3. snaps.len - 1 \in 0..SnapsCap
      BY <3>1, <3>2
    <3> QED BY <3>1, <3>3, Zenon
  <2> QED BY <1>16, <2>1
          DEF IInv, TypeOK, TuiShows, control, workers, reporting
<1>17. ASSUME TuiDone PROVE TypeOK'
  <2>1. tui' \in [pc : {"off", "running", "quit", "killed"}, done : BOOLEAN]
    <3>1. tui \in [pc : {"off", "running", "quit", "killed"}, done : BOOLEAN]
      BY DEF IInv, TypeOK
    <3>2. tui' = [tui EXCEPT !.done = TRUE]
      BY <1>17 DEF TuiDone
    <3> QED BY <3>1, <3>2, Zenon
  <2> QED BY <1>17, <2>1
          DEF IInv, TypeOK, TuiDone, control, workers, shared, reporting
<1>18. ASSUME PressReset PROVE TypeOK'
  <2>1. agg' = [agg EXCEPT !.marked = {}]
        /\ (pend' = pend \/ pend' = pend \cup {"keys"})
    BY <1>18 DEF PressReset, Update
  <2>2. agg \in Aggs /\ agg.marked \subseteq agg.known
    BY DEF IInv, TypeOK, Aggs
  <2>3. agg' \in Aggs /\ agg'.marked \subseteq agg'.known
    BY <2>1, <2>2, AggSteps
  <2>4. pend' \subseteq Emitters
    BY <2>1 DEF IInv, TypeOK, Emitters, Streams
  <2> QED BY <1>18, <2>3, <2>4
          DEF IInv, TypeOK, Aggs, PressReset, control, workers, reporting
<1>19. ASSUME PressQuit PROVE TypeOK'
  BY <1>19 DEF IInv, TypeOK, PressQuit, control, workers, shared, reporting
<1>20. ASSUME TuiKilled PROVE TypeOK'
  BY <1>20 DEF IInv, TypeOK, TuiKilled, control, workers, shared, reporting
<1>21. ASSUME Signal PROVE TypeOK'
  BY <1>21 DEF IInv, TypeOK, Signal, control, workers, shared, reporting
<1>22. ASSUME DrainReverse PROVE TypeOK'
  <2>1. PICK count \in agg.rev + 1 .. revRecv :
          /\ agg' = [agg EXCEPT !.rev = count]
          /\ pend' = pend \/ pend' = pend \cup {"reverse"}
    BY <1>22 DEF DrainReverse, Update
  <2>2. agg \in Aggs /\ agg.marked \subseteq agg.known
    BY DEF IInv, TypeOK, Aggs
  <2>3. count \in 0 .. MaxReverse
    <3>1. agg.rev \in 0 .. MaxReverse /\ revRecv \in 0 .. MaxReverse
      BY DEF IInv, TypeOK
    <3> QED BY <2>1, <3>1
  <2>4. agg' \in Aggs /\ agg'.marked \subseteq agg'.known
    <3>1. agg' = [marked |-> agg.marked, known |-> agg.known, rev |-> count]
      BY <2>1, <2>2 DEF Aggs
    <3> QED BY <2>2, <2>3, <3>1 DEF Aggs
  <2>5. pend' \subseteq Emitters
    BY <2>1 DEF IInv, TypeOK, Emitters, Streams
  <2> QED BY <1>22, <2>4, <2>5
          DEF IInv, TypeOK, Aggs, DrainReverse, control, workers, reporting
<1>23. ASSUME NEW p \in Probers, DrainHops(p) PROVE TypeOK'
  <2>1. agg' = [agg EXCEPT !.marked = @ \ {p}, !.known = @ \cup {p}]
        /\ (pend' = pend \/ pend' = pend \cup {p})
    BY <1>23 DEF DrainHops, Update
  <2>2. agg \in Aggs /\ agg.marked \subseteq agg.known
    BY DEF IInv, TypeOK, Aggs
  <2>3. agg' \in Aggs /\ agg'.marked \subseteq agg'.known
    BY <2>1, <2>2, AggSteps
  <2>4. pend' \subseteq Emitters
    BY <2>1 DEF IInv, TypeOK, Emitters, Streams
  <2> QED BY <1>23, <2>3, <2>4
          DEF IInv, TypeOK, Aggs, DrainHops, control, workers, reporting
<1>24. ASSUME NEW w \in Streams, WorkerExits(w) PROVE TypeOK'
  BY <1>24 DEF IInv, TypeOK, WorkerExits, control, shared, reporting
<1>25. ASSUME NEW w \in Streams, DrainerExits(w) PROVE TypeOK'
  BY <1>25 DEF IInv, TypeOK, DrainerExits, control, shared, reporting
<1>26. ASSUME NEW e \in Emitters, Emit(e) PROVE TypeOK'
  BY <1>26 DEF IInv, TypeOK, Emit, control, workers, reporting, Offered
<1> QED BY <1>1, <1>2, <1>3, <1>4, <1>5, <1>6, <1>7, <1>8, <1>9, <1>10, <1>11, <1>12,
           <1>13, <1>14, <1>15, <1>16, <1>17, <1>18, <1>19, <1>20, <1>21, <1>22, <1>23,
           <1>24, <1>25, <1>26
  DEF Step, RecvLoop, Builder, Driver, Screen

-----------------------------------------------------------------------------
(* Queues, report and marks.                                               *)

LEMMA ShapeInvStep ==
  ASSUME IInv, main # "returned", Step
  PROVE  ShapeInv'
<1> USE TraceAssumption
<1>1. ASSUME ServerUpdate PROVE ShapeInv'
  BY <1>1 DEF IInv, ShapeInv, ServerUpdate, shared, reporting
<1>2. ASSUME ServerEnds PROVE ShapeInv'
  BY <1>2 DEF IInv, ShapeInv, ServerEnds, shared, reporting
<1>3. ASSUME ReverseArrives PROVE ShapeInv'
  BY <1>3 DEF IInv, ShapeInv, ReverseArrives, control, shared, reporting
<1>4. ASSUME RecvMessage PROVE ShapeInv'
  BY <1>4 DEF IInv, ShapeInv, RecvMessage, reporting, Update
<1>5. ASSUME RecvFails PROVE ShapeInv'
  BY <1>5 DEF IInv, ShapeInv, RecvFails, control, shared, reporting
<1>6. ASSUME GraceOver PROVE ShapeInv'
  BY <1>6 DEF IInv, ShapeInv, GraceOver, control, shared, reporting
<1>7. ASSUME Publish PROVE ShapeInv'
  BY <1>7 DEF IInv, ShapeInv, Publish, control, shared
<1>8. ASSUME RecvCancels PROVE ShapeInv'
  BY <1>8 DEF IInv, ShapeInv, RecvCancels, control, shared, reporting
<1>9. ASSUME Watcher PROVE ShapeInv'
  BY <1>9 DEF IInv, ShapeInv, Watcher, shared, reporting, CloseConn
<1>10. ASSUME Correlate PROVE ShapeInv'

  <2>1. PICK blamed \in SUBSET agg.known :
          /\ todo' = blamed
          /\ report' = [suspects |-> blamed, marked |-> {}, rev |-> -1]
    BY <1>10 DEF Correlate
  <2>2. blamed \in SUBSET Probers
    BY DEF IInv, TypeOK
  <2>3. report' \in Reports
    BY <2>1, <2>2 DEF Reports
  <2>4. todo' \subseteq agg.known
    BY <2>1
  <2> QED BY <1>10, <2>3, <2>4 DEF IInv, ShapeInv, Correlate, control, shared
<1>11. ASSUME Collect PROVE ShapeInv'

  <2>1. /\ report # Nothing /\ todo = {} /\ Building
        /\ report' = [report EXCEPT !.marked = agg.marked, !.rev = agg.rev]
        /\ mode' = mode /\ conn' = conn /\ net' = net /\ agg' = agg /\ todo' = todo
        /\ got' = got /\ built' = built /\ worker' = worker /\ drainer' = drainer
    BY <1>11 DEF Collect, control, workers, shared
  <2>2. /\ report' \in Reports /\ report'.marked = agg.marked /\ report'.rev >= 0
        /\ report'.suspects = report.suspects /\ report' # Nothing
    <3>1. report \in Reports
      BY <2>1 DEF IInv, ShapeInv
    <3>2. agg.marked \in SUBSET Probers /\ agg.rev \in 0 .. MaxReverse
      BY DEF IInv, TypeOK
    <3>3. PICK r \in Reports, m \in SUBSET Probers, n \in 0 .. MaxReverse :
            r = report /\ m = agg.marked /\ n = agg.rev
      BY <3>1, <3>2
    <3>4. report' = [r EXCEPT !.marked = m, !.rev = n]
      BY <2>1, <3>3
    <3>5. LET s == [r EXCEPT !.marked = m, !.rev = n]
          IN  /\ s \in Reports /\ s # Nothing
              /\ s.marked = m /\ s.rev >= 0 /\ s.suspects = r.suspects
      BY ReportSteps
    <3> QED BY <3>3, <3>4, <3>5
  <2> QED BY <2>1, <2>2 DEF IInv, ShapeInv
<1>12. ASSUME NEW p \in Probers, Mark(p) PROVE ShapeInv'
  BY <1>12 DEF IInv, ShapeInv, Mark, control, Update
<1>13. ASSUME CloseSnaps PROVE ShapeInv'
  BY <1>13 DEF IInv, ShapeInv, CloseSnaps, control, reporting
<1>14. ASSUME StopWaiting PROVE ShapeInv'
  BY <1>14 DEF IInv, ShapeInv, StopWaiting, control, shared, reporting
<1>15. ASSUME Join PROVE ShapeInv'
  BY <1>15 DEF IInv, ShapeInv, Join, control, shared, reporting
<1>16. ASSUME TuiShows PROVE ShapeInv'
  BY <1>16 DEF IInv, ShapeInv, TuiShows, control, reporting
<1>17. ASSUME TuiDone PROVE ShapeInv'
  BY <1>17 DEF IInv, ShapeInv, TuiDone, control, shared, reporting
<1>18. ASSUME PressReset PROVE ShapeInv'
  BY <1>18 DEF IInv, ShapeInv, PressReset, control, reporting, Update
<1>19. ASSUME PressQuit PROVE ShapeInv'
  BY <1>19 DEF IInv, ShapeInv, PressQuit, control, shared, reporting
<1>20. ASSUME TuiKilled PROVE ShapeInv'
  BY <1>20 DEF IInv, ShapeInv, TuiKilled, control, shared, reporting
<1>21. ASSUME Signal PROVE ShapeInv'
  BY <1>21 DEF IInv, ShapeInv, Signal, control, shared, reporting
<1>22. ASSUME DrainReverse PROVE ShapeInv'
  BY <1>22 DEF IInv, ShapeInv, DrainReverse, control, reporting, Update
<1>23. ASSUME NEW p \in Probers, DrainHops(p) PROVE ShapeInv'
  BY <1>23 DEF IInv, ShapeInv, DrainHops, control, reporting, Update
<1>24. ASSUME NEW w \in Streams, WorkerExits(w) PROVE ShapeInv'
  BY <1>24 DEF IInv, ShapeInv, WorkerExits, control, shared, reporting
<1>25. ASSUME NEW w \in Streams, DrainerExits(w) PROVE ShapeInv'
  BY <1>25 DEF IInv, ShapeInv, DrainerExits, control, shared, reporting
<1>26. ASSUME NEW e \in Emitters, Emit(e) PROVE ShapeInv'
  BY <1>26 DEF IInv, ShapeInv, Emit, control, reporting
<1> QED BY <1>1, <1>2, <1>3, <1>4, <1>5, <1>6, <1>7, <1>8, <1>9, <1>10, <1>11, <1>12,
           <1>13, <1>14, <1>15, <1>16, <1>17, <1>18, <1>19, <1>20, <1>21, <1>22, <1>23,
           <1>24, <1>25, <1>26
  DEF Step, RecvLoop, Builder, Driver, Screen

-----------------------------------------------------------------------------
(* Who may send.                                                           *)

LEMMA SendersInvStep ==
  ASSUME IInv, main # "returned", Step
  PROVE  SendersInv'
<1> USE TraceAssumption
<1>1. ASSUME ServerUpdate PROVE SendersInv'
  BY <1>1 DEF IInv, SendersInv, WorkersGone, StreamsGone, WorkersNeverPanic, ServerUpdate,
     workers, shared
<1>2. ASSUME ServerEnds PROVE SendersInv'
  BY <1>2 DEF IInv, SendersInv, WorkersGone, StreamsGone, WorkersNeverPanic, ServerEnds,
     workers, shared
<1>3. ASSUME ReverseArrives PROVE SendersInv'
  BY <1>3 DEF IInv, SendersInv, WorkersGone, StreamsGone, WorkersNeverPanic,
     ReverseArrives, shared
<1>4. ASSUME RecvMessage PROVE SendersInv'

  <2>1. recv = "reading" /\ mode' = mode /\ snaps' = snaps /\ tui' = tui
        /\ drainer' = drainer /\ worker' = worker /\ panicked' = panicked
    BY <1>4 DEF RecvMessage, workers
  <2>2. ~snaps.closed
    BY <2>1 DEF IInv, SendersInv
  <2>3. \/ pend' = pend /\ "control" \notin pend
        \/ recv' = recv /\ pend' = IF mode = "tui" THEN pend \cup {"control"} ELSE pend
    BY <1>4 DEF RecvMessage, Update
  <2>4. "builder" \notin pend
    BY <2>1 DEF IInv, SendersInv
  <2>5. \A w \in Streams : w # "control"
    BY TraceAssumption DEF Streams
  <2> QED BY <2>1, <2>2, <2>3, <2>4, <2>5
          DEF IInv, SendersInv, WorkersNeverPanic
<1>5. ASSUME RecvFails PROVE SendersInv'
  BY <1>5 DEF IInv, SendersInv, WorkersNeverPanic, RecvFails, workers, shared
<1>6. ASSUME GraceOver PROVE SendersInv'
  BY <1>6 DEF IInv, SendersInv, WorkersNeverPanic, GraceOver, workers, shared
<1>7. ASSUME Publish PROVE SendersInv'
  BY <1>7 DEF IInv, SendersInv, WorkersNeverPanic, Publish, workers, shared
<1>8. ASSUME RecvCancels PROVE SendersInv'
  BY <1>8 DEF IInv, SendersInv, WorkersNeverPanic, RecvCancels, workers, shared
<1>9. ASSUME Watcher PROVE SendersInv'
  BY <1>9 DEF IInv, SendersInv, WorkersGone, StreamsGone, WorkersNeverPanic, Watcher,
     workers, shared
<1>10. ASSUME Correlate PROVE SendersInv'
  BY <1>10 DEF IInv, SendersInv, StagesInv, WorkersNeverPanic, Correlate, workers, shared,
     Building
<1>11. ASSUME Collect PROVE SendersInv'
  BY <1>11 DEF IInv, SendersInv, StagesInv, WorkersNeverPanic, Collect, workers, shared,
     Building
<1>12. ASSUME NEW p \in Probers, Mark(p) PROVE SendersInv'
  BY <1>12 DEF IInv, SendersInv, StagesInv, WorkersNeverPanic, Streams, Mark, workers,
     Update, Building
<1>13. ASSUME CloseSnaps PROVE SendersInv'
  BY <1>13 DEF IInv, SendersInv, WorkersGone, StreamsGone, WorkersNeverPanic, CloseSnaps,
     workers, AllSent
<1>14. ASSUME StopWaiting PROVE SendersInv'
  BY <1>14 DEF IInv, SendersInv, WorkersGone, StreamsGone, WorkersNeverPanic, StopWaiting,
     workers, shared
<1>15. ASSUME Join PROVE SendersInv'
  BY <1>15 DEF IInv, SendersInv, WorkersGone, StreamsGone, WorkersNeverPanic, Join,
     workers, shared
<1>16. ASSUME TuiShows PROVE SendersInv'
  BY <1>16 DEF IInv, SendersInv, WorkersGone, StreamsGone, WorkersNeverPanic, TuiShows,
     workers
<1>17. ASSUME TuiDone PROVE SendersInv'
  BY <1>17 DEF IInv, SendersInv, WorkersGone, StreamsGone, WorkersNeverPanic, TuiDone,
     workers, shared
<1>18. ASSUME PressReset PROVE SendersInv'
  BY <1>18 DEF IInv, SendersInv, WorkersGone, StreamsGone, WorkersNeverPanic, Streams,
     PressReset, workers, Update
<1>19. ASSUME PressQuit PROVE SendersInv'
  BY <1>19 DEF IInv, SendersInv, WorkersGone, StreamsGone, WorkersNeverPanic, PressQuit,
     workers, shared, Idle
<1>20. ASSUME TuiKilled PROVE SendersInv'
  BY <1>20 DEF IInv, SendersInv, WorkersGone, StreamsGone, WorkersNeverPanic, TuiKilled,
     workers, shared, Idle
<1>21. ASSUME Signal PROVE SendersInv'
  BY <1>21 DEF IInv, SendersInv, WorkersGone, StreamsGone, WorkersNeverPanic, Signal,
     workers, shared
<1>22. ASSUME DrainReverse PROVE SendersInv'
  BY <1>22 DEF IInv, SendersInv, WorkersGone, StreamsGone, WorkersNeverPanic,
     DrainReverse, workers, Update
<1>23. ASSUME NEW p \in Probers, DrainHops(p) PROVE SendersInv'
  BY <1>23 DEF IInv, SendersInv, WorkersGone, StreamsGone, WorkersNeverPanic, DrainHops,
     Update
<1>24. ASSUME NEW w \in Streams, WorkerExits(w) PROVE SendersInv'
  BY <1>24 DEF IInv, SendersInv, WorkersGone, StreamsGone, WorkersNeverPanic, WorkerExits,
     shared
<1>25. ASSUME NEW w \in Streams, DrainerExits(w) PROVE SendersInv'
  BY <1>25 DEF IInv, SendersInv, WorkersGone, StreamsGone, WorkersNeverPanic,
     DrainerExits, shared
<1>26. ASSUME NEW e \in Emitters, Emit(e) PROVE SendersInv'
  BY <1>26 DEF IInv, TypeOK, SendersInv, WorkersGone, StreamsGone, WorkersNeverPanic,
     Emitters, Emit, workers
<1> QED BY <1>1, <1>2, <1>3, <1>4, <1>5, <1>6, <1>7, <1>8, <1>9, <1>10, <1>11, <1>12,
           <1>13, <1>14, <1>15, <1>16, <1>17, <1>18, <1>19, <1>20, <1>21, <1>22, <1>23,
           <1>24, <1>25, <1>26
  DEF Step, RecvLoop, Builder, Driver, Screen

-----------------------------------------------------------------------------
(* The order of the stages.                                                *)

LEMMA StagesInvStep ==
  ASSUME IInv, main # "returned", Step
  PROVE  StagesInv'
<1> USE TraceAssumption
<1>1. ASSUME ServerUpdate PROVE StagesInv'
  BY <1>1 DEF IInv, StagesInv, WorkersGone, StreamsGone, ServerUpdate, workers, reporting
<1>2. ASSUME ServerEnds PROVE StagesInv'
  BY <1>2 DEF IInv, StagesInv, WorkersGone, StreamsGone, ServerEnds, workers, reporting
<1>3. ASSUME ReverseArrives PROVE StagesInv'
  BY <1>3 DEF IInv, StagesInv, WorkersGone, StreamsGone, ReverseArrives, reporting
<1>4. ASSUME RecvMessage PROVE StagesInv'
  BY <1>4 DEF IInv, StagesInv, RecvMessage, reporting
<1>5. ASSUME RecvFails PROVE StagesInv'
  BY <1>5 DEF IInv, StagesInv, RecvFails, reporting
<1>6. ASSUME GraceOver PROVE StagesInv'
  BY <1>6 DEF IInv, StagesInv, GraceOver, reporting
<1>7. ASSUME Publish PROVE StagesInv'
  BY <1>7 DEF IInv, StagesInv, Publish
<1>8. ASSUME RecvCancels PROVE StagesInv'
  BY <1>8 DEF IInv, StagesInv, RecvCancels, reporting
<1>9. ASSUME Watcher PROVE StagesInv'
  BY <1>9 DEF IInv, StagesInv, WorkersGone, StreamsGone, Watcher, workers, reporting
<1>10. ASSUME Correlate PROVE StagesInv'
  BY <1>10 DEF IInv, StagesInv, WorkersGone, StreamsGone, Correlate, workers
<1>11. ASSUME Collect PROVE StagesInv'

  <2>1. /\ report # Nothing /\ todo = {} /\ Building
        /\ report' = [report EXCEPT !.marked = agg.marked, !.rev = agg.rev]
        /\ mode' = mode /\ conn' = conn /\ net' = net /\ agg' = agg /\ todo' = todo
        /\ got' = got /\ built' = built /\ worker' = worker /\ drainer' = drainer
    BY <1>11 DEF Collect, control, workers, shared
  <2>2. /\ report' \in Reports /\ report'.marked = agg.marked /\ report'.rev >= 0
        /\ report'.suspects = report.suspects /\ report' # Nothing
    <3>1. report \in Reports
      BY <2>1 DEF IInv, ShapeInv
    <3>2. agg.marked \in SUBSET Probers /\ agg.rev \in 0 .. MaxReverse
      BY DEF IInv, TypeOK
    <3>3. PICK r \in Reports, m \in SUBSET Probers, n \in 0 .. MaxReverse :
            r = report /\ m = agg.marked /\ n = agg.rev
      BY <3>1, <3>2
    <3>4. report' = [r EXCEPT !.marked = m, !.rev = n]
      BY <2>1, <3>3
    <3>5. LET s == [r EXCEPT !.marked = m, !.rev = n]
          IN  /\ s \in Reports /\ s # Nothing
              /\ s.marked = m /\ s.rev >= 0 /\ s.suspects = r.suspects
      BY ReportSteps
    <3> QED BY <3>3, <3>4, <3>5
  <2>3. CASE mode = "tui"
    <3>1. recv' = "publishing" /\ main' = main
      BY <1>11, <2>3 DEF Collect
    <3>2. main # "building"
      BY <2>3 DEF IInv, StagesInv
    <3>3. recv = "building" /\ got = "final"
      BY <2>1, <3>2 DEF Building, IInv, StagesInv
    <3>4. ~built
      BY <3>3 DEF IInv, StagesInv
    <3> QED BY <2>1, <2>2, <2>3, <3>1, <3>2, <3>3, <3>4 DEF StagesInv
  <2>4. CASE mode # "tui"
    <3>1. main' = "returned" /\ recv' = recv
      BY <1>11, <2>4 DEF Collect
    <3> QED BY <2>1, <2>2, <2>4, <3>1 DEF IInv, StagesInv
  <2> QED BY <2>3, <2>4
<1>12. ASSUME NEW p \in Probers, Mark(p) PROVE StagesInv'
  BY <1>12 DEF IInv, StagesInv, WorkersGone, StreamsGone, Mark, workers
<1>13. ASSUME CloseSnaps PROVE StagesInv'
  BY <1>13 DEF IInv, StagesInv, CloseSnaps, reporting
<1>14. ASSUME StopWaiting PROVE StagesInv'
  BY <1>14 DEF IInv, StagesInv, StopWaiting, reporting
<1>15. ASSUME Join PROVE StagesInv'
  BY <1>15 DEF IInv, StagesInv, WorkersGone, StreamsGone, Join, workers, reporting,
     Joined, Verdict
<1>16. ASSUME TuiShows PROVE StagesInv'
  BY <1>16 DEF IInv, StagesInv, WorkersGone, StreamsGone, TuiShows, workers, reporting
<1>17. ASSUME TuiDone PROVE StagesInv'
  BY <1>17 DEF IInv, StagesInv, WorkersGone, StreamsGone, TuiDone, workers, reporting
<1>18. ASSUME PressReset PROVE StagesInv'
  BY <1>18 DEF IInv, StagesInv, WorkersGone, StreamsGone, PressReset, workers, reporting
<1>19. ASSUME PressQuit PROVE StagesInv'
  BY <1>19 DEF IInv, StagesInv, WorkersGone, StreamsGone, PressQuit, workers, reporting
<1>20. ASSUME TuiKilled PROVE StagesInv'
  BY <1>20 DEF IInv, StagesInv, WorkersGone, StreamsGone, TuiKilled, workers, reporting
<1>21. ASSUME Signal PROVE StagesInv'
  BY <1>21 DEF IInv, StagesInv, WorkersGone, StreamsGone, Signal, workers, reporting
<1>22. ASSUME DrainReverse PROVE StagesInv'
  BY <1>22 DEF IInv, StagesInv, WorkersGone, StreamsGone, Streams, DrainReverse, reporting
<1>23. ASSUME NEW p \in Probers, DrainHops(p) PROVE StagesInv'
  BY <1>23 DEF IInv, StagesInv, WorkersGone, StreamsGone, DrainHops, reporting
<1>24. ASSUME NEW w \in Streams, WorkerExits(w) PROVE StagesInv'
  BY <1>24 DEF IInv, StagesInv, WorkersGone, StreamsGone, WorkerExits, reporting
<1>25. ASSUME NEW w \in Streams, DrainerExits(w) PROVE StagesInv'
  BY <1>25 DEF IInv, StagesInv, WorkersGone, StreamsGone, DrainerExits, reporting
<1>26. ASSUME NEW e \in Emitters, Emit(e) PROVE StagesInv'
  BY <1>26 DEF IInv, StagesInv, WorkersGone, StreamsGone, Emit, workers, reporting
<1> QED BY <1>1, <1>2, <1>3, <1>4, <1>5, <1>6, <1>7, <1>8, <1>9, <1>10, <1>11, <1>12,
           <1>13, <1>14, <1>15, <1>16, <1>17, <1>18, <1>19, <1>20, <1>21, <1>22, <1>23,
           <1>24, <1>25, <1>26
  DEF Step, RecvLoop, Builder, Driver, Screen

-----------------------------------------------------------------------------
(* The report and the result.                                              *)

LEMMA ReportInvStep ==
  ASSUME IInv, main # "returned", Step
  PROVE  ReportInv'
<1> USE TraceAssumption
<1>1. ASSUME ServerUpdate PROVE ReportInv'
  BY <1>1 DEF IInv, ReportInv, ServerUpdate, shared, reporting
<1>2. ASSUME ServerEnds PROVE ReportInv'
  BY <1>2 DEF IInv, ReportInv, ServerEnds, shared, reporting
<1>3. ASSUME ReverseArrives PROVE ReportInv'
  BY <1>3 DEF IInv, ReportInv, ReverseArrives, shared, reporting
<1>4. ASSUME RecvMessage PROVE ReportInv'
  BY <1>4 DEF IInv, ReportInv, RecvMessage, reporting, Update
<1>5. ASSUME RecvFails PROVE ReportInv'
  BY <1>5 DEF IInv, StagesInv, ReportInv, RecvFails, reporting
<1>6. ASSUME GraceOver PROVE ReportInv'
  BY <1>6 DEF IInv, StagesInv, ReportInv, GraceOver, reporting
<1>7. ASSUME Publish PROVE ReportInv'
  BY <1>7 DEF IInv, StagesInv, ReportInv, Publish
<1>8. ASSUME RecvCancels PROVE ReportInv'
  BY <1>8 DEF IInv, StagesInv, ReportInv, RecvCancels, reporting
<1>9. ASSUME Watcher PROVE ReportInv'
  BY <1>9 DEF IInv, ReportInv, Watcher, shared, reporting
<1>10. ASSUME Correlate PROVE ReportInv'
  BY <1>10 DEF IInv, StagesInv, ReportInv, Correlate, Building
<1>11. ASSUME Collect PROVE ReportInv'

  <2>1. /\ report # Nothing /\ todo = {} /\ Building
        /\ report' = [report EXCEPT !.marked = agg.marked, !.rev = agg.rev]
        /\ mode' = mode /\ conn' = conn /\ net' = net /\ agg' = agg /\ todo' = todo
        /\ got' = got /\ built' = built /\ worker' = worker /\ drainer' = drainer
    BY <1>11 DEF Collect, control, workers, shared
  <2>2. /\ report' \in Reports /\ report'.marked = agg.marked /\ report'.rev >= 0
        /\ report'.suspects = report.suspects /\ report' # Nothing
    <3>1. report \in Reports
      BY <2>1 DEF IInv, ShapeInv
    <3>2. agg.marked \in SUBSET Probers /\ agg.rev \in 0 .. MaxReverse
      BY DEF IInv, TypeOK
    <3>3. PICK r \in Reports, m \in SUBSET Probers, n \in 0 .. MaxReverse :
            r = report /\ m = agg.marked /\ n = agg.rev
      BY <3>1, <3>2
    <3>4. report' = [r EXCEPT !.marked = m, !.rev = n]
      BY <2>1, <3>3
    <3>5. LET s == [r EXCEPT !.marked = m, !.rev = n]
          IN  /\ s \in Reports /\ s # Nothing
              /\ s.marked = m /\ s.rev >= 0 /\ s.suspects = r.suspects
      BY ReportSteps
    <3> QED BY <3>3, <3>4, <3>5
  <2>3. CASE mode = "tui"
    <3>1. main' = main /\ result' = result
      BY <1>11, <2>3 DEF Collect
    <3>2. result # "ok"
      BY DEF IInv, ReportInv
    <3> QED BY <2>1, <2>3, <3>1, <3>2 DEF ReportInv
  <2>4. CASE mode # "tui"
    <3>1. main' = "returned" /\ result' = "ok"
      BY <1>11, <2>4 DEF Collect
    <3>2. main = "building" /\ got = "final"
      BY <2>1, <2>4 DEF Building, IInv, StagesInv
    <3>3. mode = "report" => report.suspects \subseteq agg.marked
      BY <2>1, <3>2 DEF IInv, ReportInv
    <3>4. SuccessHasReport'
      BY <2>1, <2>2, <2>4, <3>2, <3>3 DEF SuccessHasReport
    <3> QED BY <2>1, <3>1, <3>4 DEF ReportInv
  <2> QED BY <2>3, <2>4
<1>12. ASSUME NEW p \in Probers, Mark(p) PROVE ReportInv'
  BY <1>12 DEF IInv, ReportInv, Mark, Update
<1>13. ASSUME CloseSnaps PROVE ReportInv'
  BY <1>13 DEF IInv, ReportInv, CloseSnaps
<1>14. ASSUME StopWaiting PROVE ReportInv'
  BY <1>14 DEF IInv, ReportInv, StopWaiting, reporting
<1>15. ASSUME Join PROVE ReportInv'
  BY <1>15 DEF IInv, TypeOK, StagesInv, ReportInv, SuccessHasReport, Join, reporting,
     Joined, Verdict
<1>16. ASSUME TuiShows PROVE ReportInv'
  BY <1>16 DEF IInv, SendersInv, ReportInv, TuiShows, Idle
<1>17. ASSUME TuiDone PROVE ReportInv'
  BY <1>17 DEF IInv, SendersInv, ReportInv, TuiDone
<1>18. ASSUME PressReset PROVE ReportInv'
  BY <1>18 DEF IInv, SendersInv, ReportInv, PressReset, Idle
<1>19. ASSUME PressQuit PROVE ReportInv'
  BY <1>19 DEF IInv, SendersInv, ReportInv, PressQuit, Idle
<1>20. ASSUME TuiKilled PROVE ReportInv'
  BY <1>20 DEF IInv, SendersInv, ReportInv, TuiKilled, Idle
<1>21. ASSUME Signal PROVE ReportInv'
  BY <1>21 DEF IInv, ReportInv, Signal, shared, reporting
<1>22. ASSUME DrainReverse PROVE ReportInv'
  BY <1>22 DEF IInv, ReportInv, DrainReverse, reporting, Update
<1>23. ASSUME NEW p \in Probers, DrainHops(p) PROVE ReportInv'

  <2>1. /\ drainer[p] = "running" /\ p \in Streams
        /\ UNCHANGED <<mode, main, report, todo, built, got, result>>
    BY <1>23 DEF DrainHops, reporting, Streams
  <2>2. main # "building"
    BY <2>1 DEF IInv, StagesInv, WorkersGone, StreamsGone
  <2> QED BY <2>1, <2>2 DEF IInv, ReportInv, SuccessHasReport
<1>24. ASSUME NEW w \in Streams, WorkerExits(w) PROVE ReportInv'
  BY <1>24 DEF IInv, ReportInv, WorkerExits, shared, reporting
<1>25. ASSUME NEW w \in Streams, DrainerExits(w) PROVE ReportInv'
  BY <1>25 DEF IInv, ReportInv, DrainerExits, shared, reporting
<1>26. ASSUME NEW e \in Emitters, Emit(e) PROVE ReportInv'
  BY <1>26 DEF IInv, SendersInv, ReportInv, Emit
<1> QED BY <1>1, <1>2, <1>3, <1>4, <1>5, <1>6, <1>7, <1>8, <1>9, <1>10, <1>11, <1>12,
           <1>13, <1>14, <1>15, <1>16, <1>17, <1>18, <1>19, <1>20, <1>21, <1>22, <1>23,
           <1>24, <1>25, <1>26
  DEF Step, RecvLoop, Builder, Driver, Screen

-----------------------------------------------------------------------------
(* What follows.                                                           *)

LEMMA InitIInv == Init => IInv
<1> SUFFICES ASSUME Init PROVE IInv
  OBVIOUS
<1> USE TraceAssumption DEF Init
<1>1. TypeOK
  <2>1. net = <<>> /\ net \in Seq({"update", "final", "error"})
        /\ Len(net) <= MaxNet + 1
    OBVIOUS
  <2>2. agg \in [marked : SUBSET Probers, known : SUBSET Probers, rev : 0..MaxReverse]
        /\ agg.marked \subseteq agg.known /\ revRecv \in 0..MaxReverse
    OBVIOUS
  <2>3. /\ snaps \in [len : 0..SnapsCap, closed : BOOLEAN]
        /\ tui \in [pc : {"off", "running", "quit", "killed"}, done : BOOLEAN]
    OBVIOUS
  <2>4. /\ worker \in [Streams -> {"running", "gone"}]
        /\ drainer \in [Streams -> {"running", "gone"}]
    OBVIOUS
  <2> QED BY <2>1, <2>2, <2>3, <2>4 DEF TypeOK
<1>2. ShapeInv
  BY DEF ShapeInv
<1>3. SendersInv
  BY DEF SendersInv, Streams, WorkersNeverPanic
<1>4. StagesInv
  BY DEF StagesInv
<1>5. ReportInv
  BY DEF ReportInv
<1> QED BY <1>1, <1>2, <1>3, <1>4, <1>5 DEF IInv

LEMMA NextIInv == IInv /\ [Next]_vars => IInv'
<1> SUFFICES ASSUME IInv, [Next]_vars PROVE IInv'
  OBVIOUS
<1>1. CASE Next
  BY <1>1, TypeOKStep, ShapeInvStep, SendersInvStep, StagesInvStep, ReportInvStep
  DEF Next, Alive, IInv
<1>2. CASE UNCHANGED vars
  BY <1>2 DEF vars, control, workers, shared, reporting, IInv, TypeOK, ShapeInv,
              SendersInv, StagesInv, ReportInv, WorkersNeverPanic, WorkersGone,
              StreamsGone, SuccessHasReport
<1> QED BY <1>1, <1>2

\* The types and the stages of a session hold from its first step on.
THEOREM Invariance == Spec => []IInv
<1> QED BY InitIInv, NextIInv, PTL DEF Spec

\* model.go:145-151, trace.go:811-839: for any probers, channel and messages, when
\* the UI has seen the channel closed after a Final, the report is stored.
THEOREM ReportIsThere == Spec => []SaveReady
<1>1. IInv => SaveReady
  BY DEF IInv, SaveReady, TypeOK, SendersInv, StagesInv
<1> QED BY <1>1, Invariance, PTL

\* trace.go:841-908: traceRun returns no error only after a Final and with the
\* whole report, whatever ended first.
THEOREM SuccessIsComplete == Spec => []SuccessHasReport
<1>1. IInv => SuccessHasReport
  BY DEF IInv, ReportInv, SuccessHasReport
<1> QED BY <1>1, Invariance, PTL

\* trace.go:836-839, aggregator.go:516-527: no prober, receiver, receive loop or
\* report build is before its send when the channel is closed.
THEOREM NoWorkerPanics == Spec => []WorkersNeverPanic
<1>1. IInv => WorkersNeverPanic
  BY DEF IInv, SendersInv
<1> QED BY <1>1, Invariance, PTL
=============================================================================
