\* One ICMP prober and a reverse stream, in either output mode.
SPECIFICATION Spec
CHECK_DEADLOCK FALSE
CONSTANTS
  Probers <- OneProber
  Nothing = Nothing
  SnapsCap = 1
  MaxNet = 1
  MaxReverse = 1
INVARIANTS
  SaveReady
  SuccessHasReport
  WorkersNeverPanic
PROPERTY TestEnds
