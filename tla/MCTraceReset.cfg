\* [r] between the close of the channel and the TUI noticing it.
SPECIFICATION Spec
CHECK_DEADLOCK FALSE
CONSTANTS
  Probers <- OneProber
  Nothing = Nothing
  SnapsCap = 1
  MaxNet = 0
  MaxReverse = 0
INVARIANT ClosedAfterSenders
