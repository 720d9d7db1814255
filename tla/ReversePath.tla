------------------------------ MODULE ReversePath ------------------------------
(***************************************************************************)
(* The reverse path, from the server's prober to the client's table:       *)
(* snapshots through a channel that drops what does not fit, one message   *)
(* per hop, every message stamped with the last TTL of its snapshot        *)
(* (startReverseTrace, startReverseTCPHopProbe), and the client's table    *)
(* that is merged into and pruned by it (IngestReverseHop,                 *)
(* IngestReverseTCPHop).                                                   *)
(*                                                                         *)
(* The prober is taken in whole sweeps: its timing and counters are        *)
(* IcmpProber's.  Here a hop is who answered for it first and whether the  *)
(* target did.  Routes change: any address may answer at any TTL.          *)
(***************************************************************************)
EXTENDS HopBooks, SequencesExt

CONSTANTS
  ClientIP,   \* the address the control connection comes from
  Others,     \* everybody else who answers
  NoAddr,     \* nobody has yet
  PathCap,    \* capacity of revSnaps
  MaxAnswers, \* bound: answers that tell the prober something new
  MaxMessages \* bound: messages on the wire

VARIABLES
  \* The server: the prober's hops, the channel, the forwarder.
  path, terminus, revSnaps, forwarder,
  \* The control connection, and the client.
  pathWire, reverseHops, reverseStatus,
  \* History: the snapshot forwarded last, and answers so far.
  forwarded, answers

pathVars == <<path, terminus, revSnaps, forwarder, pathWire, reverseHops,
              reverseStatus, forwarded, answers>>

NoRow == [addr |-> NoAddr, tag |-> ""]

PathInit ==
  /\ path = [t \in TTLs |-> [addr |-> NoAddr, echo |-> FALSE]]
  /\ terminus = 0 /\ revSnaps = <<>>
  /\ forwarder = [pc |-> "idle", rows |-> <<>>, maxTTL |-> 0]
  /\ pathWire = <<>>
  /\ reverseHops = [t \in {} |-> NoRow]
  /\ reverseStatus = "" /\ forwarded = <<>> /\ answers = 0

-----------------------------------------------------------------------------
(* The prober. *)

\* recordReply: the first responder keeps the row; the target's answer ends the
\* path at the nearest TTL that ever got one.
Answered(t, addr, echo) ==
  LET h == path[t]
      new == [addr |-> IF h.addr = NoAddr THEN addr ELSE h.addr, echo |-> h.echo \/ echo]
  IN  /\ answers < MaxAnswers
      /\ new # h
      /\ path' = [path EXCEPT ![t] = new]
      /\ terminus' = IF echo THEN Nearest(terminus, t) ELSE terminus
      /\ answers' = answers + 1
      /\ UNCHANGED <<revSnaps, forwarder, pathWire, reverseHops, reverseStatus, forwarded>>

\* classifyTerminus, by the address the row shows.
Tag(h) ==
  IF ~h.echo \/ h.addr = NoAddr THEN ""
  ELSE IF h.addr = ClientIP THEN "host" ELSE "nat"

\* buildSnapshot after a sweep: every TTL up to the terminus was probed.
Snapshot ==
  [t \in 1 .. SweepLimit(terminus) |->
     [ttl |-> t, addr |-> path[t].addr, tag |-> Tag(path[t])]]

Swept ==
  /\ Len(revSnaps) < PathCap   \* a full channel: the snapshot is dropped
  /\ revSnaps' = Append(revSnaps, Snapshot)
  /\ UNCHANGED <<path, terminus, forwarder, pathWire, reverseHops, reverseStatus,
                 forwarded, answers>>

-----------------------------------------------------------------------------
(* The forwarder. *)

\* Every message carries the last TTL of its snapshot.
TakeSnapshot ==
  LET rows == Head(revSnaps)
  IN  /\ forwarder.pc = "idle" /\ revSnaps # <<>>
      /\ forwarder' = [pc |-> "sending", rows |-> rows, maxTTL |-> Last(rows).ttl]
      /\ revSnaps' = Tail(revSnaps)
      /\ forwarded' = rows
      /\ UNCHANGED <<path, terminus, pathWire, reverseHops, reverseStatus, answers>>

SendHop ==
  LET rest == Tail(forwarder.rows)
  IN  /\ forwarder.pc = "sending"
      /\ Len(pathWire) < MaxMessages
      /\ pathWire' = Append(pathWire, [row |-> Head(forwarder.rows), maxTTL |-> forwarder.maxTTL])
      /\ forwarder' = [forwarder EXCEPT !.rows = rest,
                                        !.pc = IF rest = <<>> THEN "idle" ELSE "sending"]
      /\ UNCHANGED <<path, terminus, revSnaps, reverseHops, reverseStatus, forwarded, answers>>

\* The session is over, or a Send failed, which ends it.
ForwarderExit ==
  /\ forwarder.pc \in {"idle", "sending"}
  /\ forwarder' = [forwarder EXCEPT !.pc = "gone"]
  /\ UNCHANGED <<path, terminus, revSnaps, pathWire, reverseHops, reverseStatus,
                 forwarded, answers>>

-----------------------------------------------------------------------------
(* The client. *)

\* Slip: nothing is pruned.
Merged(hops, maxTTL) == hops

Pruned(hops, maxTTL) == [t \in {u \in DOMAIN hops : u <= maxTTL} |-> hops[t]]

\* Both tables: the row replaces what its TTL had, the rows past the end of the
\* path go.
Upserted(hops, u) ==
  Pruned([t \in DOMAIN hops \cup {u.row.ttl} |->
            IF t = u.row.ttl THEN [addr |-> u.row.addr, tag |-> u.row.tag] ELSE hops[t]],
         u.maxTTL)

\* A NAT seen while the trace is on stays reported.
Escalated(status, u) ==
  IF u.row.tag = "nat" /\ status = "ok" THEN "terminated_at_nat" ELSE status

\* IngestReverseHop.  The TCP path has a table and a channel of its own and no
\* status; it is the same otherwise.
IngestHop ==
  LET u == Head(pathWire)
  IN  /\ pathWire # <<>>
      /\ pathWire' = Tail(pathWire)
      /\ reverseHops' = Upserted(reverseHops, u)
      /\ reverseStatus' = Escalated(reverseStatus, u)
      /\ UNCHANGED <<path, terminus, revSnaps, forwarder, forwarded, answers>>

\* A TimeExceeded comes from a router; the target's answer from anywhere.
ServerPathNext ==
  \/ \E t \in TTLs :
       \/ \E a \in Others : Answered(t, a, FALSE)
       \/ \E a \in Others \cup {ClientIP} : Answered(t, a, TRUE)
  \/ Swept \/ TakeSnapshot \/ SendHop \/ ForwarderExit

-----------------------------------------------------------------------------
(* Properties. *)

\* aggregator.go:354-393, serve.go:589-652: with nothing on its way the client's
\* table is the snapshot forwarded last, neither more rows nor fewer, although it
\* is merged row by row and the path got shorter meanwhile; on the way, too, a
\* row that ends the path is the last one.
TableMirrorsServer ==
  /\ pathWire = <<>> /\ forwarder.pc = "idle" =>
       /\ DOMAIN reverseHops = DOMAIN forwarded
       /\ \A t \in DOMAIN forwarded :
            reverseHops[t] = [addr |-> forwarded[t].addr, tag |-> forwarded[t].tag]
  /\ \A t, u \in DOMAIN reverseHops : reverseHops[t].tag # "" => u <= t
=============================================================================
