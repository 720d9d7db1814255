\* Either loop fails or ends at any moment, with transient accept errors.
SPECIFICATION LoopsSpec
CONSTANTS
  None = None
  FirstDelay = 5
  MaxDelay = 1000
INVARIANTS
  FirstErrorWins
PROPERTY EitherExitStopsBoth
CHECK_DEADLOCK FALSE
