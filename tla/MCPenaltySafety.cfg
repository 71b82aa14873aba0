\* Every operation, two calls at a time, one interruption.
SPECIFICATION Spec
CONSTANTS
  p1 = p1
  p2 = p2
  p3 = p3
  Penalty = {p1, p2}
  Caller = {c1, c2}
  Amount <- MCAmount
  InitialWallet = 3
  InitialPhone = 3
  BlockThreshold = 2
  SuspensionThreshold = 2
  Operations = {"payPenalty", "payAll", "gateway", "confirm", "create", "archive", "restore", "cancel", "oldLink", "webhook"}
  MaxInterruptions = 1
INVARIANTS
  TypeOK
  ClaimedOnce
  NothingClearedForFree
SYMMETRY MCSymmetry
CHECK_DEADLOCK FALSE
