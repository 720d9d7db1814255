\* Two hops, sequence numbers that wrap in the fifth sweep.
SPECIFICATION Spec
CONSTANTS
  MaxHops = 2
  Window = 2
  SeqSpace = 8
  MaxDelay = 2
  MaxSweeps = 5
  SendThreshold = 1
  Foreign = Foreign
INVARIANTS
  BlackoutEscalates
  RepliesCreditTheirProbe
PROPERTIES
  ImplementsHopLedger
  ProberReturns
CHECK_DEADLOCK FALSE
