\* Offers for one and for two people, two applications, no or one plan unit, two calls at a time, one failure.
SPECIFICATION Spec
CONSTANTS
  Application = {a1, a2}
  Call = {c1, c2}
  Quantities = {1, 2}
  Plans = {0, 1}
  MaxCalls = 3
  MaxFailures = 1
  NoApplication = NoApplication
SYMMETRY Interchangeable
INVARIANTS
  TypeOK
  ChargedOnce
  ReleasedWhenPaid
  SettledGivesBack
  UnlockedIsFunded
  PlanUnitsCounted
CHECK_DEADLOCK FALSE
