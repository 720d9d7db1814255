\* The duplicate map holds two entries: a forgotten repeat erases a loss.
SPECIFICATION MCSpec
CONSTANTS
  Seqs <- MCDenseSeqs
  MaxObserved = 8
  MaxAcceptableGap = 120
  MaxSeenEntries = 2
  MaxInt64 = 300
  MaxDrops = 0
  Unset <- MCUnset
INVARIANT LossUnaffectedByCap
CHECK_DEADLOCK FALSE
