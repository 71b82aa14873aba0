\* Two calls at a time that pay everything from the wallet.
SPECIFICATION Spec
CONSTANTS
  p1 = p1
  p2 = p2
  p3 = p3
  Penalty = {p1}
  Caller = {c1, c2}
  Amount <- MCAmount
  InitialWallet = 4
  InitialPhone = 0
  BlockThreshold = 2
  SuspensionThreshold = 2
  Operations = {"payAll", "create"}
  MaxInterruptions = 0
INVARIANT ChargedOnce
CHECK_DEADLOCK FALSE
