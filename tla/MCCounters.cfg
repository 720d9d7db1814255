\* Observe: every order of arrival, with losses, repeats and jumps of every
\* size, past the point where the duplicate map is full.  The sampler: drops,
\* resets and failing samples in any order.
SPECIFICATION MCSpec
CONSTANTS
  Seqs <- MCWideSeqs
  MaxObserved = 6
  MaxAcceptableGap = 120
  MaxSeenEntries = 4
  MaxInt64 = 300
  MaxDrops = 4
  Unset <- MCUnset
INVARIANTS
  LossIsBracketed
  BurstsMatchLosses
  NeverOverstates
  OnlyEarlyDropsMissing
PROPERTY ImplementsLedger
CHECK_DEADLOCK FALSE
