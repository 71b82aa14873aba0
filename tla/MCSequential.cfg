\* One call at a time.  Penalties: wallet, payment links and late cancellations, no
\* interruption.  Periods: a cheap and a dear plan, three periods, one process that dies.
SPECIFICATION SequentialSpec
CONSTANTS
  p1 = p1
  p2 = p2
  p3 = p3
  Penalty = {p1, p2, p3}
  Caller = {c1}
  Amount <- MCAmount
  InitialWallet = 4
  InitialPhone = 4
  BlockThreshold = 2
  SuspensionThreshold = 3
  Operations = {"payPenalty", "payAll", "gateway", "cancel"}
  MaxInterruptions = 0
  Plan = {"basic", "top"}
  TrialPlan = "basic"
  Priority = {"top"}
  Length <- MCLength
  Price <- MCPrice
  SubCall = {s1}
  MaxPeriods = 3
  MaxTime = 3
  MaxOverlaps = 0
  MaxDeaths = 1
INVARIANTS
  SubTypeOK
  ChainUnbroken
  PriorityFollowsPlan
  BillingFollowsDebt
  ThresholdSuspends
CHECK_DEADLOCK FALSE
