\* One placement, two withdrawals, two overlapping sweeps and two other calls,
\* one of which fails; a withdrawal may ask for all or for half of the fee.
SPECIFICATION FairSpec
CONSTANTS
  Placement = {p1}
  Withdrawal = {w1, w2}
  Sweeper = {s1, s2}
  Caller = {c1, c2}
  Fees = {2}
  Sizes = {1, 2}
  MaxFailures = 1
  None = None
INVARIANTS
  TypeOK
  NeverOverdrawn
  LedgerAgreesWithRows
PROPERTIES
  SettledIsFinal
  PlacementsComeToAnEnd
CHECK_DEADLOCK FALSE
