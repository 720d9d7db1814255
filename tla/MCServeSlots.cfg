\* Three clients with one flow id compete for two slots and for the flow.
SPECIFICATION SafetySpec
CONSTANTS
  c1 = c1  c2 = c2  c3 = c3  f1 = f1  p1 = p1  p2 = p2
  Clients = {c1, c2, c3}
  FlowOf <- MCSameFlow
  Forwarders = {"stats"}
  ReverseOn = {}
  Probes = {}
  ProbeOf <- MCNoProbes
  ProbeOn = {}
  MaxSessions = 2
  MaxPending = 3
  MaxBatch = 1
  MaxWire = 0
  MaxSent = 0
SYMMETRY MCAlike
INVARIANTS
  SlotCoversResources
  ReadyMeansUsable
CHECK_DEADLOCK FALSE
