\* Half-second sweeps on a network that is down: a window of four, so that the
\* range is the window and one sweep, not the factor.
SPECIFICATION Spec
CONSTANTS
  MaxHops = 2
  Window = 4
  RangeFactor = 4
  MaxDelay = 0
  MaxSweeps = 6
  MaxRefused = 1
  SendThreshold = 5
  NoPort = NoPort
  Foreign = Foreign
  DialStarts <- MCNetworkDown
INVARIANT InflightMatchesTable
CHECK_DEADLOCK FALSE
