\* Two sessions use one flow id, one after the other; of three sequence numbers
\* each may arrive, arrive twice, come late, or meet a full ring of one packet;
\* the duplicate map holds one.
SPECIFICATION Spec
CONSTANTS
  s1 = s1  s2 = s2  f1 = f1  p1 = p1
  Sessions = {s1, s2}
  FlowOf <- MCSameFlow
  NoSession = NoSession
  Ports = {p1}
  NoPort = NoPort
  Seqs <- MCSeqs3
  RingSize = 1
  MaxReads = 2
  MaxAcceptableGap = 1
  MaxSeenEntries = 1
  MaxInt64 = 10
INVARIANTS
  NoChannelPanic
  RegistryMatchesHandles
  AcceptedIsAccounted
  FinalCoversCancel
  FinalLossIsHonest
PROPERTY ReceiverReturns
CHECK_DEADLOCK FALSE
