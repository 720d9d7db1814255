------------------------------ MODULE ServerLoops ------------------------------
(***************************************************************************)
(* cmd/dropline/serve.go runServerLoops with the accept loop of            *)
(* internal/control/server.go: the UDP hub loop and the TCP accept loop    *)
(* run as one failure domain.  The hub loop is HubReceiver's drainer; here *)
(* only how it ends matters.                                               *)
(***************************************************************************)
EXTENDS Integers

CONSTANTS
  None,      \* no error
  FirstDelay, \* the first back-off after a transient accept error (5 ms)
  MaxDelay   \* the longest (1000 ms)

ASSUME LoopsAssumption ==
  /\ None \notin {"hub", "tcp", "temporary", "closed", "fatal"}
  /\ FirstDelay \in Nat \ {0} /\ MaxDelay \in Nat
  /\ FirstDelay <= MaxDelay

VARIABLES
  parent,    \* the caller's context is done (SIGTERM)
  serve,     \* serveCtx is done
  listener,  \* the TCP listener is open
  hub,       \* the hub loop: "running", "failing", "ending", "exited"
  tcp,       \* the accept loop: "accepting", "failed", "backoff", ...
  acceptErr, \* the accept error in hand: "temporary", "closed", "fatal", None
  delay,     \* tempDelay, in ms
  firstErr,  \* what runServerLoops will return
  returned,  \* it has returned
  firstFail  \* history: the loop whose error reached fail first

loopsVars == <<parent, serve, listener, hub, tcp, acceptErr, delay, firstErr,
               returned, firstFail>>

LoopsInit ==
  /\ parent = FALSE /\ serve = FALSE /\ listener = TRUE
  /\ hub = "running" /\ tcp = "accepting" /\ acceptErr = None /\ delay = 0
  /\ firstErr = None /\ returned = FALSE /\ firstFail = None

CancelParent ==
  /\ ~parent
  /\ parent' = TRUE /\ serve' = TRUE
  /\ UNCHANGED <<listener, hub, tcp, acceptErr, delay, firstErr, returned,
                 firstFail>>

\* fail: the first error wins; any exit cancels the shared context.
\* Slip: the error is kept, the other loop is not told.
FailAlone(err) ==
  /\ firstErr' = IF firstErr = None THEN err ELSE firstErr
  /\ serve' = serve

\* Slip: the last error wins.
FailLast(err) ==
  /\ firstErr' = IF err = None THEN firstErr ELSE err
  /\ serve' = TRUE

Fail(err) ==
  /\ firstErr' = IF firstErr = None THEN err ELSE firstErr
  /\ serve' = TRUE

NoteFail(err) == firstFail' = IF firstFail = None THEN err ELSE firstFail

-----------------------------------------------------------------------------
\* hub.Run: the context is done at the loop head, or the socket fails.
HubEnds ==
  /\ hub = "running"
  /\ \/ serve /\ hub' = "ending"
     \/ hub' = "failing"
  /\ UNCHANGED <<parent, serve, listener, tcp, acceptErr, delay, firstErr,
                 returned, firstFail>>

HubFails ==
  /\ hub \in {"ending", "failing"}
  /\ LET err == IF hub = "failing" THEN "hub" ELSE None
     IN  Fail(err) /\ NoteFail(err)
  /\ hub' = "exited"
  /\ UNCHANGED <<parent, listener, tcp, acceptErr, delay, returned>>

-----------------------------------------------------------------------------
\* serve's helper closes the listener once the context is done.
CloseListener ==
  /\ serve /\ listener
  /\ listener' = FALSE
  /\ UNCHANGED <<parent, serve, hub, tcp, acceptErr, delay, firstErr, returned,
                 firstFail>>

\* Accept returns a connection: the back-off starts over.
AcceptWorks ==
  /\ tcp = "accepting" /\ listener
  /\ delay' = 0
  /\ UNCHANGED <<parent, serve, listener, hub, tcp, acceptErr, firstErr,
                 returned, firstFail>>

\* Accept returns an error.
AcceptFails ==
  /\ tcp = "accepting"
  /\ \/ ~listener /\ acceptErr' = "closed"
     \/ listener /\ acceptErr' \in {"temporary", "fatal"}
  /\ tcp' = "failed"
  /\ UNCHANGED <<parent, serve, listener, hub, delay, firstErr, returned,
                 firstFail>>

\* The exponential back-off.
NextDelay(d) ==
  LET doubled == IF d = 0 THEN FirstDelay ELSE 2 * d
  IN  IF doubled > MaxDelay THEN MaxDelay ELSE doubled

\* Where an accept error leads.
Outcome(err) ==
  IF serve THEN "ending"
  ELSE IF err = "temporary" THEN "backoff" ELSE "failing"

\* An accept error after cancellation is swallowed; a transient one is waited
\* out; any other ends the loop.
HandleAcceptError ==
  /\ tcp = "failed"
  /\ tcp' = Outcome(acceptErr)
  /\ delay' = IF tcp' = "backoff" THEN NextDelay(delay) ELSE delay
  /\ UNCHANGED <<parent, serve, listener, hub, acceptErr, firstErr,
                 returned, firstFail>>

BackoffEnds ==
  /\ tcp = "backoff"
  /\ \/ tcp' = "accepting"
     \/ serve /\ tcp' = "ending"
  /\ acceptErr' = None
  /\ UNCHANGED <<parent, serve, listener, hub, delay, firstErr, returned,
                 firstFail>>

TcpFails ==
  /\ tcp \in {"ending", "failing"}
  /\ LET err == IF tcp = "failing" THEN "tcp" ELSE None
     IN  Fail(err) /\ NoteFail(err)
  /\ tcp' = "exited"
  /\ UNCHANGED <<parent, listener, hub, acceptErr, delay, returned>>

-----------------------------------------------------------------------------
Return ==
  /\ hub = "exited" /\ tcp = "exited" /\ ~returned
  /\ returned' = TRUE
  /\ UNCHANGED <<parent, serve, listener, hub, tcp, acceptErr, delay,
                 firstErr, firstFail>>

LoopsNext ==
  \/ CancelParent \/ HubEnds \/ HubFails \/ CloseListener
  \/ AcceptWorks \/ AcceptFails
  \/ HandleAcceptError \/ BackoffEnds \/ TcpFails \/ Return

\* The goroutines run.  A loop head looks at its context every 100 ms, so
\* HubEnds is fair once the context is done; nobody promises an error.
LoopsFairness ==
  /\ WF_loopsVars(HubEnds /\ serve) /\ WF_loopsVars(HubFails)
  /\ WF_loopsVars(CloseListener) /\ WF_loopsVars(AcceptFails /\ ~listener)
  /\ WF_loopsVars(HandleAcceptError) /\ WF_loopsVars(BackoffEnds)
  /\ WF_loopsVars(TcpFails) /\ WF_loopsVars(Return)

LoopsSpec == LoopsInit /\ [][LoopsNext]_loopsVars /\ LoopsFairness

-----------------------------------------------------------------------------
LoopsTypeOK ==
  /\ parent \in BOOLEAN /\ serve \in BOOLEAN /\ listener \in BOOLEAN
  /\ hub \in {"running", "ending", "failing", "exited"}
  /\ tcp \in {"accepting", "failed", "backoff", "ending", "failing", "exited"}
  /\ acceptErr \in {"temporary", "closed", "fatal", None}
  /\ firstErr \in {"hub", "tcp", None} /\ firstFail \in {"hub", "tcp", None}
  /\ delay \in 0 .. MaxDelay /\ returned \in BOOLEAN

(* What is returned is the error that came first; and the accept error a   *)
(* closing listener produces when the server stops is never taken for one. *)
FirstErrorWins ==
  /\ LoopsTypeOK
  /\ firstErr = firstFail
  /\ tcp = "failing" => acceptErr = "fatal"

(* One failure domain: when either loop has ended, for whatever reason, or *)
(* the caller cancels, the other ends too and runServerLoops returns.      *)
EitherExitStopsBoth ==
  (hub = "exited" \/ tcp = "exited" \/ parent) ~> returned
=============================================================================
