\* One session with a hop forwarder, a reverse stream and two TCP probes.
SPECIFICATION Spec
CONSTANTS
  c1 = c1  c2 = c2  c3 = c3  f1 = f1  p1 = p1  p2 = p2
  Clients = {c1}
  FlowOf <- MCOneFlow
  Forwarders = {"stats", "icmp"}
  ReverseOn = {c1}
  Probes = {p1, p2}
  ProbeOf <- MCProbes
  ProbeOn = {c1}
  MaxSessions = 1
  MaxPending = 2
  MaxBatch = 2
  MaxWire = 2
  MaxSent = 1
INVARIANTS
  Conversation
  FinalCountsReverse
PROPERTIES
  ProbeEndsWithSession
  EndedSessionFreesSlot
CHECK_DEADLOCK FALSE
