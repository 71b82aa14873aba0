\* Two dialogs, two submissions and two settlers at a time, one crash, one database error, one manual withdrawal.
SPECIFICATION Spec
CONSTANTS
  p1 = p1
  p2 = p2
  Payout = {p1, p2}
  Sender = {s1, s2}
  Settler = {k1, k2}
  Amount <- MCAmount
  InitialLedger = 3
  InitialFunds = 3
  MaxWithdrawals = 1
  MaxDbErrors = 1
  MaxCrashes = 1
  NoPayout = NoPayout
INVARIANTS
  TypeOK
  SentAtMostOnce
  DebitedOnce
  FailedWithoutDbError
CHECK_DEADLOCK FALSE
