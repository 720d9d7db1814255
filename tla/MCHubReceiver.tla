---------------------------- MODULE MCHubReceiver ----------------------------
EXTENDS HubReceiver

CONSTANTS s1, s2, f1, p1

\* Two sessions on one flow id: the second registers after the first is gone.
MCSameFlow == [s \in {s1, s2} |-> f1]
MCOneFlow == [s \in {s1} |-> f1]
\* Behind 0 the jump to 3 is too wide, behind 1 it is not.
MCSeqs3 == {0, 1, 3}
\* Behind 0 the jump to 3 is refused; 2 and then 4 make a loss of it.
MCSeqs4 == {0, 2, 3, 4}
=============================================================================
