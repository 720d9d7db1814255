---------------------------- MODULE MCServeSession ----------------------------
EXTENDS ServeSession, TLC

CONSTANTS c1, c2, c3, f1, p1, p2

\* Three clients that ask for one flow id are alike.
MCSameFlow == [c \in {c1, c2, c3} |-> f1]
MCAlike == Permutations({c1, c2, c3})

\* One client and its probes; no probes.
MCOneFlow == [c \in {c1} |-> f1]
MCProbes == [p \in {p1, p2} |-> c1]
MCNoProbes == [p \in {} |-> c1]
=============================================================================
