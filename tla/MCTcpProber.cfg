\* Two hops; a window of one sweep and a factor of three, one less of each than at
\* intervals of a second or more: the factor covers the window and two sweeps.
\* Ports come round in the fourth sweep; answers are late by up to two.
SPECIFICATION Spec
CONSTANTS
  MaxHops = 2
  Window = 1
  RangeFactor = 3
  MaxDelay = 2
  MaxSweeps = 4
  MaxRefused = 1
  SendThreshold = 1
  NoPort = NoPort
  Foreign = Foreign
  DialStarts <- MCAnyStart
INVARIANT RangeSuffices
PROPERTY ImplementsHopLedger
CHECK_DEADLOCK FALSE
