\* One session that outgrows its map of one entry: four datagrams with any of
\* four sequence numbers, through a ring of one packet.
SPECIFICATION Spec
CONSTANTS
  s1 = s1  s2 = s2  f1 = f1  p1 = p1
  Sessions = {s1}
  FlowOf <- MCOneFlow
  NoSession = NoSession
  Ports = {p1}
  NoPort = NoPort
  Seqs <- MCSeqs4
  RingSize = 1
  MaxReads = 4
  MaxAcceptableGap = 1
  MaxSeenEntries = 1
  MaxInt64 = 10
INVARIANT FinalLossIsHonest
CHECK_DEADLOCK FALSE
