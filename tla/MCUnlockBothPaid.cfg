\* Both parties pay at the same time.
SPECIFICATION Spec
CONSTANTS
  Application = {a1, a2}
  Call = {c1, c2}
  Quantities = {1}
  Plans = {0}
  MaxCalls = 2
  MaxFailures = 0
  NoApplication = NoApplication
INVARIANTS
  BothPaidUnlocks
CHECK_DEADLOCK FALSE
