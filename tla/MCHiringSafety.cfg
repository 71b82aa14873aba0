\* An offer for one or two people, two applications and two calls of which one overlaps the
\* other or the scan; three that overlap on a mission for one person with one application,
\* whose date has passed.
SPECIFICATION BoundedSpec
CONSTANTS
  Application = {a1, a2}
  Call = {c1, c2, c3}
  Quantities = {1, 2}
  MaxOverlaps = 2
  ForcedStatuses = {"COMPLETED"}
  NoApplication = NoApplication
SYMMETRY Interchangeable
INVARIANTS
  TypeOK
  SlotsRespected
  CompletedLeavesNobodyWaiting
  EndedCanBeRated
  StatusTellsHires
CHECK_DEADLOCK FALSE
