------------------------------- MODULE HopLedger -------------------------------
(***************************************************************************)
(* What a hop prober promises of its table: every probe it counts as sent  *)
(* is open until it is answered, once, or lost, and no probe is lost       *)
(* before the settle window has passed.  A probe that never left may be    *)
(* taken back.  Both probers implement it.                                 *)
(***************************************************************************)
EXTENDS Integers, FiniteSets

CONSTANTS
  Hops,
  Settle    \* ticks a probe stays open before it may be called lost

VARIABLES
  open,     \* the probes awaited: id, ttl and age in ticks
  sent, recv, lost   \* per hop

ledger == <<open, sent, recv, lost>>

None == [t \in Hops |-> 0]
Plus(f, ps) == [t \in Hops |-> f[t] + Cardinality({p \in ps : p.ttl = t})]

LedgerInit == open = {} /\ sent = None /\ recv = None /\ lost = None

Send ==
  \E p \in open' \ open :
    /\ p.age = 0
    /\ \A q \in open : q.id # p.id
    /\ open' = open \cup {p}
    /\ sent' = Plus(sent, {p})
    /\ UNCHANGED <<recv, lost>>

Answer ==
  \E p \in open :
    /\ open' = open \ {p}
    /\ recv' = Plus(recv, {p})
    /\ UNCHANGED <<sent, lost>>

Expire ==
  /\ open' \subseteq open
  /\ \A p \in open \ open' : p.age >= Settle
  /\ lost' = Plus(lost, open \ open')
  /\ UNCHANGED <<sent, recv>>

Withdraw ==
  \E p \in open :
    /\ open' = open \ {p}
    /\ sent = Plus(sent', {p})
    /\ UNCHANGED <<recv, lost>>

Pass ==
  /\ open' = {[p EXCEPT !.age = IF @ > Settle THEN @ ELSE @ + 1] : p \in open}
  /\ UNCHANGED <<sent, recv, lost>>

LedgerNext == Send \/ Answer \/ Expire \/ Withdraw \/ Pass

LedgerSpec == LedgerInit /\ [][LedgerNext]_ledger
=============================================================================
