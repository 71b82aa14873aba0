\* A database error right after the gateway took the payout.
SPECIFICATION Spec
CONSTANTS
  p1 = p1
  p2 = p2
  Payout = {p1, p2}
  Sender = {s1, s2}
  Settler = {k1}
  Amount <- MCAmount
  InitialLedger = 3
  InitialFunds = 3
  MaxWithdrawals = 0
  MaxDbErrors = 1
  MaxCrashes = 0
  NoPayout = NoPayout
INVARIANTS
  FailedMeansNothingSent
CHECK_DEADLOCK FALSE
