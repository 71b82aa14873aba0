\* One message as two jobs with two attempts at a time; an offer for one or two people,
\* one application and one call beside the scan; a broadcast to one in-app and one
\* other delivery, a page each, sent and retried, with one failure.
SPECIFICATION Spec
CONSTANTS
  Message = {m1}
  Attempt = {w1, w2}
  MaxAttempts = 2
  MaxStalls = 1
  MaxJobs = 2
  Nobody = Nobody
  Application = {a1}
  Call = {c1}
  Quantities = {1, 2}
  ForcedStatuses = {"ACTIVE"}
  MaxOverlaps = 1
  NoApplication = {a1}
  Recipient = {r1, r2}
  InApp = {r2}
  PageSize = 1
  Worker = {p1}
  Admin = {c1}
  MaxRuns = 2
  MaxTries = 2
  MaxFaults = 1
INVARIANTS
  BackgroundTypeOK
  HandledOnce
  DeliveredOnce
  CountersAgree
PROPERTIES
  AnsweredOrFailed
  OverdueStopsRecruiting
  SendingEnds
CHECK_DEADLOCK FALSE
