\* One request, two deposits (an initiation and a retry), webhook and poller, one crash.
SPECIFICATION FairSpec
CONSTANTS
  Request = {r1}
  Ref = {d1, d2}
  Caller = {c1, c2}
  Webhook = {w1}
  Poller = {p1}
  MaxAttempts = 2
  MaxCrashes = 1
  NoRef = NoRef
  NoReq = NoReq
INVARIANTS
  TypeOK
  BookedOnce
  SettledOnEvidence
PROPERTIES
  ImplementsContract
  ProcessingEnds
CHECK_DEADLOCK FALSE
