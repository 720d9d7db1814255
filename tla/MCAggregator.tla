----------------------------- MODULE MCAggregator -----------------------------
EXTENDS Aggregator

Hop(ttl, rtt, loss) ==
  [ttl |-> ttl, responds |-> TRUE, rtt |-> rtt, baseline |-> 10, loss |-> loss,
   suspect |-> FALSE]

Silent(ttl) ==
  [ttl |-> ttl, responds |-> FALSE, rtt |-> 0, baseline |-> 0, loss |-> 100,
   suspect |-> FALSE]

\* A slow and lossy hop before a silent one; a hop that loses what the second
\* does not (a rate limit).
MCTables == {<<Hop(1, 20, 30), Silent(2)>>, <<Hop(1, 5, 30), Hop(2, 20, 0)>>}

\* No loss, half, less than one percent, and a late packet.
MCSteps == {[recv |-> 1, lost |-> 0], [recv |-> 1, lost |-> 1],
            [recv |-> 120, lost |-> 1], [recv |-> 1, lost |-> -1]}
=============================================================================
