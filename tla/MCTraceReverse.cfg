\* A reverse packet that only the discarded final snapshot counts.
SPECIFICATION Spec
CHECK_DEADLOCK FALSE
CONSTANTS
  Probers <- OneProber
  Nothing = Nothing
  SnapsCap = 1
  MaxNet = 0
  MaxReverse = 1
INVARIANT HonestReverseCount
