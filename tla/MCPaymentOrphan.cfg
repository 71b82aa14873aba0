\* A timeout, a retry, and the first deposit collected after all.
SPECIFICATION Spec
CONSTANTS
  Request = {r1}
  Ref = {d1, d2}
  Caller = {c1, c2}
  Webhook = {w1}
  Poller = {p1}
  MaxAttempts = 2
  MaxCrashes = 0
  NoRef = NoRef
  NoReq = NoReq
INVARIANTS
  CollectedIsResolvable
CHECK_DEADLOCK FALSE
