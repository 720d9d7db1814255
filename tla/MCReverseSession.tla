--------------------------- MODULE MCReverseSession ---------------------------
EXTENDS ReverseSession

CONSTANTS client, nat, router, id1, id2

Plain ==
  [rate |-> [n |-> 1, unit |-> 4], probeRate |-> [n |-> 1, unit |-> 1], port |-> 3,
   packetSize |-> 2, maxHops |-> 3, duration |-> 4, interval |-> 4,
   trace |-> "off", stream |-> "off", corroborate |-> "off", hopProbe |-> "off"]

\* One option at a time at and past its limits; rates that wrap included.
Limits ==
  {Plain}
  \cup {[Plain EXCEPT !.rate = [n |-> n, unit |-> u]] : n \in {0, 1, 2, 3, 4, 6}, u \in {1, 4}}
  \cup {[Plain EXCEPT !.probeRate = [n |-> n, unit |-> u]] : n \in {0, 2, 4, 6}, u \in {1, 4}}
  \cup {[Plain EXCEPT !.port = p] : p \in {0, 4}}
  \cup {[Plain EXCEPT !.packetSize = n] : n \in {0, 4}}
  \cup {[Plain EXCEPT !.duration = d] : d \in {0, 1, 3, 5, 8, 9, 10}}
  \cup {[Plain EXCEPT !.interval = i] : i \in {1, 2, 3, 5, 6, 7}}

Preferring(f, trace, stream, corroborate, hopProbe) ==
  [f EXCEPT !.trace = trace, !.stream = stream, !.corroborate = corroborate,
            !.hopProbe = hopProbe]

MCFlagSets ==
  {Preferring(f, t, s, c, h) : f \in Limits, t, s, c, h \in Modes}

MCServers ==
  [maxRate : {0, 4}, capable : BOOLEAN, ipv4 : BOOLEAN, allowStream : BOOLEAN]

\* A session with a reverse trace, one with a reverse stream.
MCFollowed ==
  [flags : {Preferring(Plain, "on", "off", "off", "off"),
            Preferring(Plain, "off", "on", "off", "off")},
   server : {[maxRate |-> 0, capable |-> TRUE, ipv4 |-> TRUE, allowStream |-> TRUE]}]

MCOthers == {nat, router}
MCFlowIDs == {id1, id2}
MCAlike == Permutations(MCOthers) \cup Permutations(MCFlowIDs)
=============================================================================
