---------------------- MODULE PaymentRequestsProofs ----------------------
(* Proofs about PaymentRequests, for any number of requests, deposits,     *)
(* concurrent calls, webhook deliveries, poll workers, attempts and        *)
(* crashes.                                                                *)
EXTENDS PaymentRequests, TLAPS

\* A call that got its reference is a well-formed call state.
LEMMA CallerGetsRef ==
  ASSUME NEW s \in CallerState, NEW d \in Ref
  PROVE  [s EXCEPT !.pc = "recording", !.ref = d] \in CallerState
BY DEF CallerState

\* An execution that loaded its request is a well-formed execution state.
LEMMA HandlerLoads ==
  ASSUME NEW s \in HandlerState, NEW r \in Request,
         NEW p \in {"approving", "rejecting"}
  PROVE  [s EXCEPT !.pc = p, !.req = r] \in HandlerState
BY DEF HandlerState

\* Rejecting an open request changes its outcome and no other.
LEMMA OutcomeRejected ==
  ASSUME NEW r \in Request, status \in [Request -> Status],
         status[r] \notin Settled,
         status' = [status EXCEPT ![r] = "REJECTED"]
  PROVE  /\ OutcomeOf[r] = "open"
         /\ OutcomeOf' = [OutcomeOf EXCEPT ![r] = "rejected"]
BY DEF OutcomeOf, Settled, Status

\* Every step keeps every row, job and program counter in its type.
LEMMA TypeStep ==
  ASSUME TypeOK, ReferencesAreOwned, WorkCarriesEvidence, [Next]_vars
  PROVE  TypeOK'
<1> USE NullAssumption, BoundAssumption DEF TypeOK, CallerState, HandlerState, Job, Status, DepositState, Seen, IdleCaller, IdleHandler, Settled, ReferencesAreOwned, WorkCarriesEvidence, row, gateway, books, Handler
<1>1. ASSUME NEW d \in Ref, SettleDeposit(d) PROVE TypeOK'
  BY <1>1 DEF SettleDeposit
<1>2. ASSUME NEW r \in Request, CreatePaymentUrl(r) PROVE TypeOK'
  BY <1>2 DEF CreatePaymentUrl
<1>3. ASSUME NEW c \in Caller, NEW r \in Request, ClaimForInitiation(c, r) PROVE TypeOK'
  BY <1>3 DEF ClaimForInitiation
<1>4. ASSUME NEW c \in Caller, NEW d \in Ref, InitiateDeposit(c, d) PROVE TypeOK'
  <2> HIDE DEF CallerState, HandlerState, Job
  <2>1. [caller[c] EXCEPT !.pc = "recording", !.ref = d] \in CallerState
    BY CallerGetsRef DEF TypeOK
  <2>2. caller' \in [Caller -> CallerState]
    BY <1>4, <2>1 DEF InitiateDeposit
  <2>3. deposit' \in [Ref -> DepositState]
    BY <1>4 DEF InitiateDeposit
  <2>4. depositFor' \in [Ref -> Request \cup {NoReq}]
    BY <1>4 DEF InitiateDeposit
  <2> QED
    BY <1>4, <2>2, <2>3, <2>4 DEF InitiateDeposit
<1>5. ASSUME NEW c \in Caller, InitiationRefused(c) PROVE TypeOK'
  BY <1>5 DEF InitiationRefused
<1>6. ASSUME NEW c \in Caller, RecordGatewayRef(c) PROVE TypeOK'
  BY <1>6 DEF RecordGatewayRef
<1>7. ASSUME NEW c \in Caller, EnqueueFirstPoll(c) PROVE TypeOK'
  BY <1>7 DEF EnqueueFirstPoll
<1>8. ASSUME NEW h \in Webhook, NEW d \in Ref, ReceiveWebhook(h, d) PROVE TypeOK'
  <2>1. PICK s \in CheckPaymentStatus(d) :
          handler' = [handler EXCEPT ![h] =
            [pc |-> "verified", req |-> NoReq, ref |-> d, attempt |-> 1,
             seen |-> s]]
    BY <1>8 DEF ReceiveWebhook
  <2>2. s \in Seen
    BY <1>8, <2>1 DEF ReceiveWebhook, CheckPaymentStatus
  <2> QED
    BY <1>8, <2>1, <2>2 DEF ReceiveWebhook
<1>9. ASSUME NEW h \in Poller, NEW j \in jobs, TakePollJob(h, j) PROVE TypeOK'
  BY <1>9 DEF TakePollJob, CheckPaymentStatus
<1>10. ASSUME NEW h \in Handler, IgnoreWebhook(h) PROVE TypeOK'
  BY <1>10 DEF IgnoreWebhook, Finish
<1>11. ASSUME NEW h \in Handler, NEW r \in Request, LoadForWebhook(h, r) PROVE TypeOK'
  <2> HIDE DEF CallerState, HandlerState, Job
  <2> DEFINE next == IF handler[h].seen = "COMPLETED" THEN "approving"
                                                     ELSE "rejecting"
  <2>1. next \in {"approving", "rejecting"}
    OBVIOUS
  <2>2. handler' = [handler EXCEPT ![h] = [@ EXCEPT !.pc = next, !.req = r]]
    BY <1>11 DEF LoadForWebhook
  <2> HIDE DEF next
  <2>3. [handler[h] EXCEPT !.pc = next, !.req = r] \in HandlerState
    BY <2>1, HandlerLoads DEF TypeOK
  <2>4. handler' \in [Handler -> HandlerState]
    BY <2>2, <2>3
  <2> QED
    BY <1>11, <2>4 DEF LoadForWebhook
<1>12. ASSUME NEW h \in Handler, RejectFromWebhook(h) PROVE TypeOK'
  BY <1>12 DEF RejectFromWebhook, Finish, Goto
<1>13. ASSUME NEW h \in Handler, LoadForPoll(h) PROVE TypeOK'
  BY <1>13 DEF LoadForPoll, PollSees, Finish, Goto
<1>14. ASSUME NEW h \in Handler, DropMismatch(h) PROVE TypeOK'
  BY <1>14 DEF DropMismatch, PollSees, Finish
<1>15. ASSUME NEW h \in Handler, RejectFromPoll(h) PROVE TypeOK'
  BY <1>15 DEF RejectFromPoll, PollSees, Finish, Goto, StillPolledBy
<1>16. ASSUME NEW h \in Handler, PollAgain(h) PROVE TypeOK'
  BY <1>16 DEF PollAgain, PollSees, Finish
<1>17. ASSUME NEW h \in Handler, PollTimeout(h) PROVE TypeOK'
  BY <1>17 DEF PollTimeout, PollSees, Finish, Goto, StillPolledBy
<1>18. ASSUME NEW h \in Handler, PersistApprovedPayment(h) PROVE TypeOK'
  BY SMTT(20), <1>18 DEF PersistApprovedPayment, Finish, Goto
<1>19. ASSUME NEW h \in Handler, PostPayment(h) PROVE TypeOK'
  BY <1>19 DEF PostPayment, Finish
<1>20. ASSUME NEW h \in Handler, RecordFailure(h) PROVE TypeOK'
  BY <1>20 DEF RecordFailure, Finish
<1>21. ASSUME NEW c \in Caller, CrashCaller(c) PROVE TypeOK'
  BY <1>21 DEF CrashCaller
<1>22. ASSUME NEW h \in Handler, CrashHandler(h) PROVE TypeOK'
  BY <1>22 DEF CrashHandler, Finish
<1>23. ASSUME UNCHANGED vars PROVE TypeOK'
  BY <1>23 DEF vars
<1> QED
  BY <1>1, <1>2, <1>3, <1>4, <1>5, <1>6, <1>7, <1>8, <1>9, <1>10, <1>11, <1>12, <1>13, <1>14, <1>15, <1>16, <1>17, <1>18, <1>19, <1>20, <1>21, <1>22, <1>23
     DEF Next, CallerStep, HandlerStep, WebhookStep, PollStep, SettlementStep

\* Only the claim that makes a request APPROVED books it, and nothing moves a
\* request out of APPROVED.
LEMMA BookedStep ==
  ASSUME TypeOK, BookedOnce, [Next]_vars
  PROVE  BookedOnce'
<1> USE NullAssumption DEF TypeOK, CallerState, HandlerState, Job, Status, DepositState, Seen, IdleCaller, IdleHandler, Settled, BookedOnce, row, gateway, books, Handler
<1>1. ASSUME NEW d \in Ref, SettleDeposit(d) PROVE BookedOnce'
  BY <1>1 DEF SettleDeposit
<1>2. ASSUME NEW r \in Request, CreatePaymentUrl(r) PROVE BookedOnce'
  BY <1>2 DEF CreatePaymentUrl
<1>3. ASSUME NEW c \in Caller, NEW r \in Request, ClaimForInitiation(c, r) PROVE BookedOnce'
  BY <1>3 DEF ClaimForInitiation
<1>4. ASSUME NEW c \in Caller, NEW d \in Ref, InitiateDeposit(c, d) PROVE BookedOnce'
  BY <1>4 DEF InitiateDeposit
<1>5. ASSUME NEW c \in Caller, InitiationRefused(c) PROVE BookedOnce'
  BY <1>5 DEF InitiationRefused
<1>6. ASSUME NEW c \in Caller, RecordGatewayRef(c) PROVE BookedOnce'
  BY <1>6 DEF RecordGatewayRef
<1>7. ASSUME NEW c \in Caller, EnqueueFirstPoll(c) PROVE BookedOnce'
  BY <1>7 DEF EnqueueFirstPoll
<1>8. ASSUME NEW h \in Webhook, NEW d \in Ref, ReceiveWebhook(h, d) PROVE BookedOnce'
  BY <1>8 DEF ReceiveWebhook, CheckPaymentStatus
<1>9. ASSUME NEW h \in Poller, NEW j \in jobs, TakePollJob(h, j) PROVE BookedOnce'
  BY <1>9 DEF TakePollJob, CheckPaymentStatus
<1>10. ASSUME NEW h \in Handler, IgnoreWebhook(h) PROVE BookedOnce'
  BY <1>10 DEF IgnoreWebhook, Finish
<1>11. ASSUME NEW h \in Handler, NEW r \in Request, LoadForWebhook(h, r) PROVE BookedOnce'
  BY <1>11 DEF LoadForWebhook
<1>12. ASSUME NEW h \in Handler, RejectFromWebhook(h) PROVE BookedOnce'
  BY <1>12 DEF RejectFromWebhook, Finish, Goto
<1>13. ASSUME NEW h \in Handler, LoadForPoll(h) PROVE BookedOnce'
  BY <1>13 DEF LoadForPoll, PollSees, Finish, Goto
<1>14. ASSUME NEW h \in Handler, DropMismatch(h) PROVE BookedOnce'
  BY <1>14 DEF DropMismatch, PollSees, Finish
<1>15. ASSUME NEW h \in Handler, RejectFromPoll(h) PROVE BookedOnce'
  BY <1>15 DEF RejectFromPoll, PollSees, Finish, Goto, StillPolledBy
<1>16. ASSUME NEW h \in Handler, PollAgain(h) PROVE BookedOnce'
  BY <1>16 DEF PollAgain, PollSees, Finish
<1>17. ASSUME NEW h \in Handler, PollTimeout(h) PROVE BookedOnce'
  BY <1>17 DEF PollTimeout, PollSees, Finish, Goto, StillPolledBy
<1>18. ASSUME NEW h \in Handler, PersistApprovedPayment(h) PROVE BookedOnce'
  BY <1>18 DEF PersistApprovedPayment, Finish, Goto
<1>19. ASSUME NEW h \in Handler, PostPayment(h) PROVE BookedOnce'
  BY <1>19 DEF PostPayment, Finish
<1>20. ASSUME NEW h \in Handler, RecordFailure(h) PROVE BookedOnce'
  BY <1>20 DEF RecordFailure, Finish
<1>21. ASSUME NEW c \in Caller, CrashCaller(c) PROVE BookedOnce'
  BY <1>21 DEF CrashCaller
<1>22. ASSUME NEW h \in Handler, CrashHandler(h) PROVE BookedOnce'
  BY <1>22 DEF CrashHandler, Finish
<1>23. ASSUME UNCHANGED vars PROVE BookedOnce'
  BY <1>23 DEF vars
<1> QED
  BY <1>1, <1>2, <1>3, <1>4, <1>5, <1>6, <1>7, <1>8, <1>9, <1>10, <1>11, <1>12, <1>13, <1>14, <1>15, <1>16, <1>17, <1>18, <1>19, <1>20, <1>21, <1>22, <1>23
     DEF Next, CallerStep, HandlerStep, WebhookStep, PollStep, SettlementStep

\* References never change owner, because only an unused one is handed out.
LEMMA OwnershipStep ==
  ASSUME TypeOK, ReferencesAreOwned, WorkCarriesEvidence, [Next]_vars
  PROVE  ReferencesAreOwned'
<1> USE NullAssumption DEF TypeOK, CallerState, HandlerState, Job, Status, DepositState, Seen, IdleCaller, IdleHandler, ReferencesAreOwned, WorkCarriesEvidence, row, gateway, books, Handler
<1>1. ASSUME NEW d \in Ref, SettleDeposit(d) PROVE ReferencesAreOwned'
  BY <1>1 DEF SettleDeposit
<1>2. ASSUME NEW r \in Request, CreatePaymentUrl(r) PROVE ReferencesAreOwned'
  BY <1>2 DEF CreatePaymentUrl
<1>3. ASSUME NEW c \in Caller, NEW r \in Request, ClaimForInitiation(c, r) PROVE ReferencesAreOwned'
  BY <1>3 DEF ClaimForInitiation
<1>4. ASSUME NEW c \in Caller, NEW d \in Ref, InitiateDeposit(c, d) PROVE ReferencesAreOwned'
  BY <1>4 DEF InitiateDeposit
<1>5. ASSUME NEW c \in Caller, InitiationRefused(c) PROVE ReferencesAreOwned'
  BY <1>5 DEF InitiationRefused
<1>6. ASSUME NEW c \in Caller, RecordGatewayRef(c) PROVE ReferencesAreOwned'
  BY <1>6 DEF RecordGatewayRef
<1>7. ASSUME NEW c \in Caller, EnqueueFirstPoll(c) PROVE ReferencesAreOwned'
  BY <1>7 DEF EnqueueFirstPoll
<1>8. ASSUME NEW h \in Webhook, NEW d \in Ref, ReceiveWebhook(h, d) PROVE ReferencesAreOwned'
  BY <1>8 DEF ReceiveWebhook, CheckPaymentStatus
<1>9. ASSUME NEW h \in Poller, NEW j \in jobs, TakePollJob(h, j) PROVE ReferencesAreOwned'
  BY <1>9 DEF TakePollJob, CheckPaymentStatus
<1>10. ASSUME NEW h \in Handler, IgnoreWebhook(h) PROVE ReferencesAreOwned'
  BY <1>10 DEF IgnoreWebhook, Finish
<1>11. ASSUME NEW h \in Handler, NEW r \in Request, LoadForWebhook(h, r) PROVE ReferencesAreOwned'
  BY <1>11 DEF LoadForWebhook
<1>12. ASSUME NEW h \in Handler, RejectFromWebhook(h) PROVE ReferencesAreOwned'
  BY <1>12 DEF RejectFromWebhook, Finish, Goto
<1>13. ASSUME NEW h \in Handler, LoadForPoll(h) PROVE ReferencesAreOwned'
  BY <1>13 DEF LoadForPoll, PollSees, Finish, Goto
<1>14. ASSUME NEW h \in Handler, DropMismatch(h) PROVE ReferencesAreOwned'
  BY <1>14 DEF DropMismatch, PollSees, Finish
<1>15. ASSUME NEW h \in Handler, RejectFromPoll(h) PROVE ReferencesAreOwned'
  BY <1>15 DEF RejectFromPoll, PollSees, Finish, Goto, StillPolledBy
<1>16. ASSUME NEW h \in Handler, PollAgain(h) PROVE ReferencesAreOwned'
  BY <1>16 DEF PollAgain, PollSees, Finish
<1>17. ASSUME NEW h \in Handler, PollTimeout(h) PROVE ReferencesAreOwned'
  BY <1>17 DEF PollTimeout, PollSees, Finish, Goto, StillPolledBy
<1>18. ASSUME NEW h \in Handler, PersistApprovedPayment(h) PROVE ReferencesAreOwned'
  BY <1>18 DEF PersistApprovedPayment, Finish, Goto
<1>19. ASSUME NEW h \in Handler, PostPayment(h) PROVE ReferencesAreOwned'
  BY <1>19 DEF PostPayment, Finish
<1>20. ASSUME NEW h \in Handler, RecordFailure(h) PROVE ReferencesAreOwned'
  BY <1>20 DEF RecordFailure, Finish
<1>21. ASSUME NEW c \in Caller, CrashCaller(c) PROVE ReferencesAreOwned'
  BY <1>21 DEF CrashCaller
<1>22. ASSUME NEW h \in Handler, CrashHandler(h) PROVE ReferencesAreOwned'
  BY <1>22 DEF CrashHandler, Finish
<1>23. ASSUME UNCHANGED vars PROVE ReferencesAreOwned'
  BY <1>23 DEF vars
<1> QED
  BY <1>1, <1>2, <1>3, <1>4, <1>5, <1>6, <1>7, <1>8, <1>9, <1>10, <1>11, <1>12, <1>13, <1>14, <1>15, <1>16, <1>17, <1>18, <1>19, <1>20, <1>21, <1>22, <1>23
     DEF Next, CallerStep, HandlerStep, WebhookStep, PollStep, SettlementStep

\* What an execution saw of a deposit stays true: final states are final.
LEMMA EvidenceStep ==
  ASSUME TypeOK, ReferencesAreOwned, WorkCarriesEvidence, [Next]_vars
  PROVE  WorkCarriesEvidence'
<1> USE NullAssumption DEF TypeOK, CallerState, HandlerState, Job, Status, DepositState, Seen, IdleCaller, IdleHandler, Settled, ReferencesAreOwned, WorkCarriesEvidence, row, gateway, books, Handler
<1>1. ASSUME NEW d \in Ref, SettleDeposit(d) PROVE WorkCarriesEvidence'
  BY <1>1 DEF SettleDeposit
<1>2. ASSUME NEW r \in Request, CreatePaymentUrl(r) PROVE WorkCarriesEvidence'
  BY <1>2 DEF CreatePaymentUrl
<1>3. ASSUME NEW c \in Caller, NEW r \in Request, ClaimForInitiation(c, r) PROVE WorkCarriesEvidence'
  BY <1>3 DEF ClaimForInitiation
<1>4. ASSUME NEW c \in Caller, NEW d \in Ref, InitiateDeposit(c, d) PROVE WorkCarriesEvidence'
  BY <1>4 DEF InitiateDeposit
<1>5. ASSUME NEW c \in Caller, InitiationRefused(c) PROVE WorkCarriesEvidence'
  BY <1>5 DEF InitiationRefused
<1>6. ASSUME NEW c \in Caller, RecordGatewayRef(c) PROVE WorkCarriesEvidence'
  BY <1>6 DEF RecordGatewayRef
<1>7. ASSUME NEW c \in Caller, EnqueueFirstPoll(c) PROVE WorkCarriesEvidence'
  BY <1>7 DEF EnqueueFirstPoll
<1>8. ASSUME NEW h \in Webhook, NEW d \in Ref, ReceiveWebhook(h, d) PROVE WorkCarriesEvidence'
  <2>1. PICK s \in CheckPaymentStatus(d) :
          handler' = [handler EXCEPT ![h] =
            [pc |-> "verified", req |-> NoReq, ref |-> d, attempt |-> 1,
             seen |-> s]]
    BY <1>8 DEF ReceiveWebhook
  <2>2. /\ s = "COMPLETED" => deposit[d] = "COMPLETED"
        /\ s = "FAILED" => deposit[d] \in {"FAILED", "LOST"}
    BY <1>8, <2>1 DEF ReceiveWebhook, CheckPaymentStatus
  <2>3. h \notin Poller
    BY HandlerAssumption
  <2> QED
    BY <1>8, <2>1, <2>2, <2>3 DEF ReceiveWebhook
<1>9. ASSUME NEW h \in Poller, NEW j \in jobs, TakePollJob(h, j) PROVE WorkCarriesEvidence'
  BY <1>9 DEF TakePollJob, CheckPaymentStatus
<1>10. ASSUME NEW h \in Handler, IgnoreWebhook(h) PROVE WorkCarriesEvidence'
  BY <1>10 DEF IgnoreWebhook, Finish
<1>11. ASSUME NEW h \in Handler, NEW r \in Request, LoadForWebhook(h, r) PROVE WorkCarriesEvidence'
  BY <1>11 DEF LoadForWebhook
<1>12. ASSUME NEW h \in Handler, RejectFromWebhook(h) PROVE WorkCarriesEvidence'
  BY <1>12 DEF RejectFromWebhook, Finish, Goto
<1>13. ASSUME NEW h \in Handler, LoadForPoll(h) PROVE WorkCarriesEvidence'
  BY <1>13 DEF LoadForPoll, PollSees, Finish, Goto
<1>14. ASSUME NEW h \in Handler, DropMismatch(h) PROVE WorkCarriesEvidence'
  BY <1>14 DEF DropMismatch, PollSees, Finish
<1>15. ASSUME NEW h \in Handler, RejectFromPoll(h) PROVE WorkCarriesEvidence'
  BY <1>15 DEF RejectFromPoll, PollSees, Finish, Goto, StillPolledBy
<1>16. ASSUME NEW h \in Handler, PollAgain(h) PROVE WorkCarriesEvidence'
  BY <1>16 DEF PollAgain, PollSees, Finish
<1>17. ASSUME NEW h \in Handler, PollTimeout(h) PROVE WorkCarriesEvidence'
  BY <1>17 DEF PollTimeout, PollSees, Finish, Goto, StillPolledBy
<1>18. ASSUME NEW h \in Handler, PersistApprovedPayment(h) PROVE WorkCarriesEvidence'
  BY <1>18 DEF PersistApprovedPayment, Finish, Goto
<1>19. ASSUME NEW h \in Handler, PostPayment(h) PROVE WorkCarriesEvidence'
  BY <1>19 DEF PostPayment, Finish
<1>20. ASSUME NEW h \in Handler, RecordFailure(h) PROVE WorkCarriesEvidence'
  BY <1>20 DEF RecordFailure, Finish
<1>21. ASSUME NEW c \in Caller, CrashCaller(c) PROVE WorkCarriesEvidence'
  BY <1>21 DEF CrashCaller
<1>22. ASSUME NEW h \in Handler, CrashHandler(h) PROVE WorkCarriesEvidence'
  BY <1>22 DEF CrashHandler, Finish
<1>23. ASSUME UNCHANGED vars PROVE WorkCarriesEvidence'
  BY <1>23 DEF vars
<1> QED
  BY <1>1, <1>2, <1>3, <1>4, <1>5, <1>6, <1>7, <1>8, <1>9, <1>10, <1>11, <1>12, <1>13, <1>14, <1>15, <1>16, <1>17, <1>18, <1>19, <1>20, <1>21, <1>22, <1>23
     DEF Next, CallerStep, HandlerStep, WebhookStep, PollStep, SettlementStep

\* Approval happens on evidence, and evidence is kept.
LEMMA CollectedStep ==
  ASSUME TypeOK, ReferencesAreOwned, WorkCarriesEvidence, ApprovedWasCollected, [Next]_vars
  PROVE  ApprovedWasCollected'
<1> USE NullAssumption DEF TypeOK, CallerState, HandlerState, Job, Status, DepositState, Seen, IdleCaller, IdleHandler, Settled, ReferencesAreOwned, WorkCarriesEvidence, ApprovedWasCollected, row, gateway, books, Handler
<1>1. ASSUME NEW d \in Ref, SettleDeposit(d) PROVE ApprovedWasCollected'
  BY <1>1 DEF SettleDeposit
<1>2. ASSUME NEW r \in Request, CreatePaymentUrl(r) PROVE ApprovedWasCollected'
  BY <1>2 DEF CreatePaymentUrl
<1>3. ASSUME NEW c \in Caller, NEW r \in Request, ClaimForInitiation(c, r) PROVE ApprovedWasCollected'
  BY <1>3 DEF ClaimForInitiation
<1>4. ASSUME NEW c \in Caller, NEW d \in Ref, InitiateDeposit(c, d) PROVE ApprovedWasCollected'
  BY <1>4 DEF InitiateDeposit
<1>5. ASSUME NEW c \in Caller, InitiationRefused(c) PROVE ApprovedWasCollected'
  BY <1>5 DEF InitiationRefused
<1>6. ASSUME NEW c \in Caller, RecordGatewayRef(c) PROVE ApprovedWasCollected'
  BY <1>6 DEF RecordGatewayRef
<1>7. ASSUME NEW c \in Caller, EnqueueFirstPoll(c) PROVE ApprovedWasCollected'
  BY <1>7 DEF EnqueueFirstPoll
<1>8. ASSUME NEW h \in Webhook, NEW d \in Ref, ReceiveWebhook(h, d) PROVE ApprovedWasCollected'
  BY <1>8 DEF ReceiveWebhook, CheckPaymentStatus
<1>9. ASSUME NEW h \in Poller, NEW j \in jobs, TakePollJob(h, j) PROVE ApprovedWasCollected'
  BY <1>9 DEF TakePollJob, CheckPaymentStatus
<1>10. ASSUME NEW h \in Handler, IgnoreWebhook(h) PROVE ApprovedWasCollected'
  BY <1>10 DEF IgnoreWebhook, Finish
<1>11. ASSUME NEW h \in Handler, NEW r \in Request, LoadForWebhook(h, r) PROVE ApprovedWasCollected'
  BY <1>11 DEF LoadForWebhook
<1>12. ASSUME NEW h \in Handler, RejectFromWebhook(h) PROVE ApprovedWasCollected'
  BY <1>12 DEF RejectFromWebhook, Finish, Goto
<1>13. ASSUME NEW h \in Handler, LoadForPoll(h) PROVE ApprovedWasCollected'
  BY <1>13 DEF LoadForPoll, PollSees, Finish, Goto
<1>14. ASSUME NEW h \in Handler, DropMismatch(h) PROVE ApprovedWasCollected'
  BY <1>14 DEF DropMismatch, PollSees, Finish
<1>15. ASSUME NEW h \in Handler, RejectFromPoll(h) PROVE ApprovedWasCollected'
  BY <1>15 DEF RejectFromPoll, PollSees, Finish, Goto, StillPolledBy
<1>16. ASSUME NEW h \in Handler, PollAgain(h) PROVE ApprovedWasCollected'
  BY <1>16 DEF PollAgain, PollSees, Finish
<1>17. ASSUME NEW h \in Handler, PollTimeout(h) PROVE ApprovedWasCollected'
  BY <1>17 DEF PollTimeout, PollSees, Finish, Goto, StillPolledBy
<1>18. ASSUME NEW h \in Handler, PersistApprovedPayment(h) PROVE ApprovedWasCollected'
  BY <1>18 DEF PersistApprovedPayment, Finish, Goto
<1>19. ASSUME NEW h \in Handler, PostPayment(h) PROVE ApprovedWasCollected'
  BY <1>19 DEF PostPayment, Finish
<1>20. ASSUME NEW h \in Handler, RecordFailure(h) PROVE ApprovedWasCollected'
  BY <1>20 DEF RecordFailure, Finish
<1>21. ASSUME NEW c \in Caller, CrashCaller(c) PROVE ApprovedWasCollected'
  BY <1>21 DEF CrashCaller
<1>22. ASSUME NEW h \in Handler, CrashHandler(h) PROVE ApprovedWasCollected'
  BY <1>22 DEF CrashHandler, Finish
<1>23. ASSUME UNCHANGED vars PROVE ApprovedWasCollected'
  BY <1>23 DEF vars
<1> QED
  BY <1>1, <1>2, <1>3, <1>4, <1>5, <1>6, <1>7, <1>8, <1>9, <1>10, <1>11, <1>12, <1>13, <1>14, <1>15, <1>16, <1>17, <1>18, <1>19, <1>20, <1>21, <1>22, <1>23
     DEF Next, CallerStep, HandlerStep, WebhookStep, PollStep, SettlementStep

\* So does rejection.
LEMMA FailureStep ==
  ASSUME TypeOK, ReferencesAreOwned, WorkCarriesEvidence, RejectedHadFailure, [Next]_vars
  PROVE  RejectedHadFailure'
<1> USE NullAssumption DEF TypeOK, CallerState, HandlerState, Job, Status, DepositState, Seen, IdleCaller, IdleHandler, Settled, ReferencesAreOwned, WorkCarriesEvidence, RejectedHadFailure, row, gateway, books, Handler
<1>1. ASSUME NEW d \in Ref, SettleDeposit(d) PROVE RejectedHadFailure'
  BY <1>1 DEF SettleDeposit
<1>2. ASSUME NEW r \in Request, CreatePaymentUrl(r) PROVE RejectedHadFailure'
  BY <1>2 DEF CreatePaymentUrl
<1>3. ASSUME NEW c \in Caller, NEW r \in Request, ClaimForInitiation(c, r) PROVE RejectedHadFailure'
  BY <1>3 DEF ClaimForInitiation
<1>4. ASSUME NEW c \in Caller, NEW d \in Ref, InitiateDeposit(c, d) PROVE RejectedHadFailure'
  BY <1>4 DEF InitiateDeposit
<1>5. ASSUME NEW c \in Caller, InitiationRefused(c) PROVE RejectedHadFailure'
  BY <1>5 DEF InitiationRefused
<1>6. ASSUME NEW c \in Caller, RecordGatewayRef(c) PROVE RejectedHadFailure'
  BY <1>6 DEF RecordGatewayRef
<1>7. ASSUME NEW c \in Caller, EnqueueFirstPoll(c) PROVE RejectedHadFailure'
  BY <1>7 DEF EnqueueFirstPoll
<1>8. ASSUME NEW h \in Webhook, NEW d \in Ref, ReceiveWebhook(h, d) PROVE RejectedHadFailure'
  BY <1>8 DEF ReceiveWebhook, CheckPaymentStatus
<1>9. ASSUME NEW h \in Poller, NEW j \in jobs, TakePollJob(h, j) PROVE RejectedHadFailure'
  BY <1>9 DEF TakePollJob, CheckPaymentStatus
<1>10. ASSUME NEW h \in Handler, IgnoreWebhook(h) PROVE RejectedHadFailure'
  BY <1>10 DEF IgnoreWebhook, Finish
<1>11. ASSUME NEW h \in Handler, NEW r \in Request, LoadForWebhook(h, r) PROVE RejectedHadFailure'
  BY <1>11 DEF LoadForWebhook
<1>12. ASSUME NEW h \in Handler, RejectFromWebhook(h) PROVE RejectedHadFailure'
  BY <1>12 DEF RejectFromWebhook, Finish, Goto
<1>13. ASSUME NEW h \in Handler, LoadForPoll(h) PROVE RejectedHadFailure'
  BY <1>13 DEF LoadForPoll, PollSees, Finish, Goto
<1>14. ASSUME NEW h \in Handler, DropMismatch(h) PROVE RejectedHadFailure'
  BY <1>14 DEF DropMismatch, PollSees, Finish
<1>15. ASSUME NEW h \in Handler, RejectFromPoll(h) PROVE RejectedHadFailure'
  BY <1>15 DEF RejectFromPoll, PollSees, Finish, Goto, StillPolledBy
<1>16. ASSUME NEW h \in Handler, PollAgain(h) PROVE RejectedHadFailure'
  BY <1>16 DEF PollAgain, PollSees, Finish
<1>17. ASSUME NEW h \in Handler, PollTimeout(h) PROVE RejectedHadFailure'
  BY <1>17 DEF PollTimeout, PollSees, Finish, Goto, StillPolledBy
<1>18. ASSUME NEW h \in Handler, PersistApprovedPayment(h) PROVE RejectedHadFailure'
  BY <1>18 DEF PersistApprovedPayment, Finish, Goto
<1>19. ASSUME NEW h \in Handler, PostPayment(h) PROVE RejectedHadFailure'
  BY <1>19 DEF PostPayment, Finish
<1>20. ASSUME NEW h \in Handler, RecordFailure(h) PROVE RejectedHadFailure'
  BY <1>20 DEF RecordFailure, Finish
<1>21. ASSUME NEW c \in Caller, CrashCaller(c) PROVE RejectedHadFailure'
  BY <1>21 DEF CrashCaller
<1>22. ASSUME NEW h \in Handler, CrashHandler(h) PROVE RejectedHadFailure'
  BY <1>22 DEF CrashHandler, Finish
<1>23. ASSUME UNCHANGED vars PROVE RejectedHadFailure'
  BY <1>23 DEF vars
<1> QED
  BY <1>1, <1>2, <1>3, <1>4, <1>5, <1>6, <1>7, <1>8, <1>9, <1>10, <1>11, <1>12, <1>13, <1>14, <1>15, <1>16, <1>17, <1>18, <1>19, <1>20, <1>21, <1>22, <1>23
     DEF Next, CallerStep, HandlerStep, WebhookStep, PollStep, SettlementStep

\* The claim's winner is the only one to run the effects.
LEMMA EffectsStep ==
  ASSUME TypeOK, BookedOnce, WorkCarriesEvidence, EffectsFollowTheClaim, [Next]_vars
  PROVE  EffectsFollowTheClaim'
<1> USE NullAssumption DEF TypeOK, CallerState, HandlerState, Job, Status, DepositState, Seen, IdleCaller, IdleHandler, Settled, BookedOnce, WorkCarriesEvidence, EffectsFollowTheClaim, row, gateway, books, Handler
<1>1. ASSUME NEW d \in Ref, SettleDeposit(d) PROVE EffectsFollowTheClaim'
  BY <1>1 DEF SettleDeposit
<1>2. ASSUME NEW r \in Request, CreatePaymentUrl(r) PROVE EffectsFollowTheClaim'
  BY <1>2 DEF CreatePaymentUrl
<1>3. ASSUME NEW c \in Caller, NEW r \in Request, ClaimForInitiation(c, r) PROVE EffectsFollowTheClaim'
  BY <1>3 DEF ClaimForInitiation
<1>4. ASSUME NEW c \in Caller, NEW d \in Ref, InitiateDeposit(c, d) PROVE EffectsFollowTheClaim'
  BY <1>4 DEF InitiateDeposit
<1>5. ASSUME NEW c \in Caller, InitiationRefused(c) PROVE EffectsFollowTheClaim'
  BY <1>5 DEF InitiationRefused
<1>6. ASSUME NEW c \in Caller, RecordGatewayRef(c) PROVE EffectsFollowTheClaim'
  BY <1>6 DEF RecordGatewayRef
<1>7. ASSUME NEW c \in Caller, EnqueueFirstPoll(c) PROVE EffectsFollowTheClaim'
  BY <1>7 DEF EnqueueFirstPoll
<1>8. ASSUME NEW h \in Webhook, NEW d \in Ref, ReceiveWebhook(h, d) PROVE EffectsFollowTheClaim'
  BY <1>8 DEF ReceiveWebhook, CheckPaymentStatus
<1>9. ASSUME NEW h \in Poller, NEW j \in jobs, TakePollJob(h, j) PROVE EffectsFollowTheClaim'
  BY <1>9 DEF TakePollJob, CheckPaymentStatus
<1>10. ASSUME NEW h \in Handler, IgnoreWebhook(h) PROVE EffectsFollowTheClaim'
  BY <1>10 DEF IgnoreWebhook, Finish
<1>11. ASSUME NEW h \in Handler, NEW r \in Request, LoadForWebhook(h, r) PROVE EffectsFollowTheClaim'
  BY <1>11 DEF LoadForWebhook
<1>12. ASSUME NEW h \in Handler, RejectFromWebhook(h) PROVE EffectsFollowTheClaim'
  BY <1>12 DEF RejectFromWebhook, Finish, Goto
<1>13. ASSUME NEW h \in Handler, LoadForPoll(h) PROVE EffectsFollowTheClaim'
  BY <1>13 DEF LoadForPoll, PollSees, Finish, Goto
<1>14. ASSUME NEW h \in Handler, DropMismatch(h) PROVE EffectsFollowTheClaim'
  BY <1>14 DEF DropMismatch, PollSees, Finish
<1>15. ASSUME NEW h \in Handler, RejectFromPoll(h) PROVE EffectsFollowTheClaim'
  BY <1>15 DEF RejectFromPoll, PollSees, Finish, Goto, StillPolledBy
<1>16. ASSUME NEW h \in Handler, PollAgain(h) PROVE EffectsFollowTheClaim'
  BY <1>16 DEF PollAgain, PollSees, Finish
<1>17. ASSUME NEW h \in Handler, PollTimeout(h) PROVE EffectsFollowTheClaim'
  <2>1. \A g \in Handler : handler'[g].pc = "settling" => handler'[g] = handler[g]
    BY <1>17 DEF PollTimeout, PollSees, Finish, Goto
  <2> QED
    BY <1>17, <2>1 DEF PollTimeout
<1>18. ASSUME NEW h \in Handler, PersistApprovedPayment(h) PROVE EffectsFollowTheClaim'
  BY <1>18 DEF PersistApprovedPayment, Finish, Goto
<1>19. ASSUME NEW h \in Handler, PostPayment(h) PROVE EffectsFollowTheClaim'
  BY <1>19 DEF PostPayment, Finish
<1>20. ASSUME NEW h \in Handler, RecordFailure(h) PROVE EffectsFollowTheClaim'
  BY <1>20 DEF RecordFailure, Finish
<1>21. ASSUME NEW c \in Caller, CrashCaller(c) PROVE EffectsFollowTheClaim'
  BY <1>21 DEF CrashCaller
<1>22. ASSUME NEW h \in Handler, CrashHandler(h) PROVE EffectsFollowTheClaim'
  BY <1>22 DEF CrashHandler, Finish
<1>23. ASSUME UNCHANGED vars PROVE EffectsFollowTheClaim'
  BY <1>23 DEF vars
<1> QED
  BY <1>1, <1>2, <1>3, <1>4, <1>5, <1>6, <1>7, <1>8, <1>9, <1>10, <1>11, <1>12, <1>13, <1>14, <1>15, <1>16, <1>17, <1>18, <1>19, <1>20, <1>21, <1>22, <1>23
     DEF Next, CallerStep, HandlerStep, WebhookStep, PollStep, SettlementStep

\* The inductive invariant holds in every reachable state.
THEOREM Invariance == Spec => []IndInv
<1>1. Init => IndInv
  <2> SUFFICES ASSUME Init PROVE IndInv
    OBVIOUS
  <2> USE NullAssumption, BoundAssumption DEF Init, IdleCaller, IdleHandler
  <2>1. TypeOK
    BY DEF TypeOK, Status, DepositState, CallerState, HandlerState, Job, Seen
  <2>2. BookedOnce /\ ApprovedWasCollected /\ RejectedHadFailure
    BY DEF BookedOnce, ApprovedWasCollected, RejectedHadFailure
  <2>3. EffectsFollowTheClaim
    BY DEF EffectsFollowTheClaim
  <2>4. ReferencesAreOwned /\ WorkCarriesEvidence
    BY DEF ReferencesAreOwned, WorkCarriesEvidence
  <2> QED
    BY <2>1, <2>2, <2>3, <2>4 DEF IndInv
<1>2. IndInv /\ [Next]_vars => IndInv'
  BY TypeStep, BookedStep, OwnershipStep, EvidenceStep, CollectedStep,
     FailureStep, EffectsStep DEF IndInv
<1> QED
  BY <1>1, <1>2, PTL DEF Spec

\* Rows, references, jobs and program counters keep their types.
THEOREM TypeCorrect == Spec => []TypeOK
<1>1. IndInv => TypeOK
  BY DEF IndInv
<1> QED
  BY <1>1, Invariance, PTL

\* persistApprovedPayment books a request exactly when it becomes APPROVED, and
\* never twice, whatever webhooks, polls, retries and crashes do.
THEOREM BookedExactlyOnce == Spec => []BookedOnce
<1>1. IndInv => BookedOnce
  BY DEF IndInv
<1> QED
  BY <1>1, Invariance, PTL

\* An APPROVED request was collected by one of its own deposits, and a REJECTED
\* one had a deposit that failed.
THEOREM OutcomesHaveEvidence == Spec => []SettledOnEvidence
<1>1. IndInv => SettledOnEvidence
  BY DEF IndInv, SettledOnEvidence
<1> QED
  BY <1>1, Invariance, PTL

\* The post-payment effects run at most once, only for the winner of the claim.
THEOREM EffectsAtMostOnce == Spec => []EffectsFollowTheClaim
<1>1. IndInv => EffectsFollowTheClaim
  BY DEF IndInv
<1> QED
  BY <1>1, Invariance, PTL

\* Every write to a status is guarded by a status it must still have.
LEMMA FinalStep ==
  ASSUME TypeOK, WorkCarriesEvidence, [Next]_vars
  PROVE  \A q \in Request : status[q] \in Settled => status'[q] = status[q]
<1> USE NullAssumption DEF TypeOK, CallerState, HandlerState, Job, Status, DepositState, Seen, IdleCaller, IdleHandler, Settled, WorkCarriesEvidence, row, gateway, books, Handler
<1>1. ASSUME NEW d \in Ref, SettleDeposit(d) PROVE 
         \A q \in Request : status[q] \in Settled => status'[q] = status[q]
  BY <1>1 DEF SettleDeposit
<1>2. ASSUME NEW r \in Request, CreatePaymentUrl(r) PROVE 
         \A q \in Request : status[q] \in Settled => status'[q] = status[q]
  BY <1>2 DEF CreatePaymentUrl
<1>3. ASSUME NEW c \in Caller, NEW r \in Request, ClaimForInitiation(c, r) PROVE 
         \A q \in Request : status[q] \in Settled => status'[q] = status[q]
  BY <1>3 DEF ClaimForInitiation
<1>4. ASSUME NEW c \in Caller, NEW d \in Ref, InitiateDeposit(c, d) PROVE 
         \A q \in Request : status[q] \in Settled => status'[q] = status[q]
  BY <1>4 DEF InitiateDeposit
<1>5. ASSUME NEW c \in Caller, InitiationRefused(c) PROVE 
         \A q \in Request : status[q] \in Settled => status'[q] = status[q]
  BY <1>5 DEF InitiationRefused
<1>6. ASSUME NEW c \in Caller, RecordGatewayRef(c) PROVE 
         \A q \in Request : status[q] \in Settled => status'[q] = status[q]
  BY <1>6 DEF RecordGatewayRef
<1>7. ASSUME NEW c \in Caller, EnqueueFirstPoll(c) PROVE 
         \A q \in Request : status[q] \in Settled => status'[q] = status[q]
  BY <1>7 DEF EnqueueFirstPoll
<1>8. ASSUME NEW h \in Webhook, NEW d \in Ref, ReceiveWebhook(h, d) PROVE 
         \A q \in Request : status[q] \in Settled => status'[q] = status[q]
  BY <1>8 DEF ReceiveWebhook, CheckPaymentStatus
<1>9. ASSUME NEW h \in Poller, NEW j \in jobs, TakePollJob(h, j) PROVE 
         \A q \in Request : status[q] \in Settled => status'[q] = status[q]
  BY <1>9 DEF TakePollJob, CheckPaymentStatus
<1>10. ASSUME NEW h \in Handler, IgnoreWebhook(h) PROVE 
         \A q \in Request : status[q] \in Settled => status'[q] = status[q]
  BY <1>10 DEF IgnoreWebhook, Finish
<1>11. ASSUME NEW h \in Handler, NEW r \in Request, LoadForWebhook(h, r) PROVE 
         \A q \in Request : status[q] \in Settled => status'[q] = status[q]
  BY <1>11 DEF LoadForWebhook
<1>12. ASSUME NEW h \in Handler, RejectFromWebhook(h) PROVE 
         \A q \in Request : status[q] \in Settled => status'[q] = status[q]
  BY <1>12 DEF RejectFromWebhook, Finish, Goto
<1>13. ASSUME NEW h \in Handler, LoadForPoll(h) PROVE 
         \A q \in Request : status[q] \in Settled => status'[q] = status[q]
  BY <1>13 DEF LoadForPoll, PollSees, Finish, Goto
<1>14. ASSUME NEW h \in Handler, DropMismatch(h) PROVE 
         \A q \in Request : status[q] \in Settled => status'[q] = status[q]
  BY <1>14 DEF DropMismatch, PollSees, Finish
<1>15. ASSUME NEW h \in Handler, RejectFromPoll(h) PROVE 
         \A q \in Request : status[q] \in Settled => status'[q] = status[q]
  BY <1>15 DEF RejectFromPoll, PollSees, Finish, Goto, StillPolledBy
<1>16. ASSUME NEW h \in Handler, PollAgain(h) PROVE 
         \A q \in Request : status[q] \in Settled => status'[q] = status[q]
  BY <1>16 DEF PollAgain, PollSees, Finish
<1>17. ASSUME NEW h \in Handler, PollTimeout(h) PROVE 
         \A q \in Request : status[q] \in Settled => status'[q] = status[q]
  BY <1>17 DEF PollTimeout, PollSees, Finish, Goto, StillPolledBy
<1>18. ASSUME NEW h \in Handler, PersistApprovedPayment(h) PROVE 
         \A q \in Request : status[q] \in Settled => status'[q] = status[q]
  BY <1>18 DEF PersistApprovedPayment, Finish, Goto
<1>19. ASSUME NEW h \in Handler, PostPayment(h) PROVE 
         \A q \in Request : status[q] \in Settled => status'[q] = status[q]
  BY <1>19 DEF PostPayment, Finish
<1>20. ASSUME NEW h \in Handler, RecordFailure(h) PROVE 
         \A q \in Request : status[q] \in Settled => status'[q] = status[q]
  BY <1>20 DEF RecordFailure, Finish
<1>21. ASSUME NEW c \in Caller, CrashCaller(c) PROVE 
         \A q \in Request : status[q] \in Settled => status'[q] = status[q]
  BY <1>21 DEF CrashCaller
<1>22. ASSUME NEW h \in Handler, CrashHandler(h) PROVE 
         \A q \in Request : status[q] \in Settled => status'[q] = status[q]
  BY <1>22 DEF CrashHandler, Finish
<1>23. ASSUME UNCHANGED vars PROVE 
         \A q \in Request : status[q] \in Settled => status'[q] = status[q]
  BY <1>23 DEF vars
<1> QED
  BY <1>1, <1>2, <1>3, <1>4, <1>5, <1>6, <1>7, <1>8, <1>9, <1>10, <1>11, <1>12, <1>13, <1>14, <1>15, <1>16, <1>17, <1>18, <1>19, <1>20, <1>21, <1>22, <1>23
     DEF Next, CallerStep, HandlerStep, WebhookStep, PollStep, SettlementStep

\* No step of a webhook, a poll or an initiation reopens or flips a settled
\* request.
THEOREM SettledForever == Spec => SettledIsFinal
<1>1. IndInv /\ [Next]_vars =>
        [\A r \in Request : status[r] \in Settled => status'[r] = status[r]]_vars
  BY FinalStep DEF IndInv
<1> QED
  BY <1>1, Invariance, PTL DEF Spec, SettledIsFinal

\* Every step is a step of the contract or invisible to it.
LEMMA ContractStep ==
  ASSUME TypeOK, BookedOnce, EffectsFollowTheClaim, ReferencesAreOwned,
         WorkCarriesEvidence, [Next]_vars
  PROVE  [Contract!Next]_(Contract!vars)
<1> USE NullAssumption DEF TypeOK, CallerState, HandlerState, Job, Status, DepositState, Seen, IdleCaller, IdleHandler, Settled, BookedOnce, EffectsFollowTheClaim, ReferencesAreOwned, WorkCarriesEvidence, Collected, OutcomeOf, row, gateway, books, Handler
<1>1. ASSUME NEW d \in Ref, SettleDeposit(d) PROVE [Contract!Next]_(Contract!vars)
  <2>1. PICK s \in {"COMPLETED", "MISMATCHED", "FAILED"} :
          deposit' = [deposit EXCEPT ![d] = s]
    BY <1>1 DEF SettleDeposit
  <2>2. depositFor[d] \in Request /\ UNCHANGED <<OutcomeOf, approvals, effects>>
    BY <1>1 DEF SettleDeposit
  <2>3. CASE s = "COMPLETED"
    <3>1. Collected' = Collected \cup {depositFor[d]}
      BY <1>1, <2>1, <2>2, <2>3 DEF SettleDeposit
    <3> QED
      BY <2>2, <3>1 DEF Contract!Next, Contract!Collect
  <2>4. CASE s # "COMPLETED"
    <3>1. Collected' = Collected
      BY <1>1, <2>1, <2>4 DEF SettleDeposit
    <3> QED
      BY <2>2, <3>1 DEF Contract!vars
  <2> QED
    BY <2>3, <2>4
<1>2. ASSUME NEW r \in Request, CreatePaymentUrl(r) PROVE [Contract!Next]_(Contract!vars)
  <2>1. OutcomeOf' = OutcomeOf
    BY <1>2 DEF CreatePaymentUrl
  <2>2. Collected' = Collected /\ approvals' = approvals /\ effects' = effects
    BY <1>2 DEF CreatePaymentUrl
  <2> QED
    BY <2>1, <2>2 DEF Contract!vars
<1>3. ASSUME NEW c \in Caller, NEW r \in Request, ClaimForInitiation(c, r) PROVE [Contract!Next]_(Contract!vars)
  <2>1. OutcomeOf' = OutcomeOf
    BY <1>3 DEF ClaimForInitiation
  <2>2. Collected' = Collected /\ approvals' = approvals /\ effects' = effects
    BY <1>3 DEF ClaimForInitiation
  <2> QED
    BY <2>1, <2>2 DEF Contract!vars
<1>4. ASSUME NEW c \in Caller, NEW d \in Ref, InitiateDeposit(c, d) PROVE [Contract!Next]_(Contract!vars)
  <2>1. OutcomeOf' = OutcomeOf /\ approvals' = approvals /\ effects' = effects
    BY <1>4 DEF InitiateDeposit
  <2>2. \A e \in Ref : deposit[e] = "COMPLETED" => depositFor'[e] = depositFor[e]
    BY <1>4 DEF InitiateDeposit
  <2>3. \A e \in Ref : deposit'[e] = "COMPLETED" <=> deposit[e] = "COMPLETED"
    BY <1>4 DEF InitiateDeposit
  <2>4. Collected' = Collected
    BY <2>2, <2>3
  <2> QED
    BY <2>1, <2>4 DEF Contract!vars
<1>5. ASSUME NEW c \in Caller, InitiationRefused(c) PROVE [Contract!Next]_(Contract!vars)
  <2>1. OutcomeOf' = OutcomeOf
    BY <1>5 DEF InitiationRefused
  <2>2. Collected' = Collected /\ approvals' = approvals /\ effects' = effects
    BY <1>5 DEF InitiationRefused
  <2> QED
    BY <2>1, <2>2 DEF Contract!vars
<1>6. ASSUME NEW c \in Caller, RecordGatewayRef(c) PROVE [Contract!Next]_(Contract!vars)
  <2>1. OutcomeOf' = OutcomeOf
    BY <1>6 DEF RecordGatewayRef
  <2>2. Collected' = Collected /\ approvals' = approvals /\ effects' = effects
    BY <1>6 DEF RecordGatewayRef
  <2> QED
    BY <2>1, <2>2 DEF Contract!vars
<1>7. ASSUME NEW c \in Caller, EnqueueFirstPoll(c) PROVE [Contract!Next]_(Contract!vars)
  <2>1. OutcomeOf' = OutcomeOf
    BY <1>7 DEF EnqueueFirstPoll
  <2>2. Collected' = Collected /\ approvals' = approvals /\ effects' = effects
    BY <1>7 DEF EnqueueFirstPoll
  <2> QED
    BY <2>1, <2>2 DEF Contract!vars
<1>8. ASSUME NEW h \in Webhook, NEW d \in Ref, ReceiveWebhook(h, d) PROVE [Contract!Next]_(Contract!vars)
  <2>1. OutcomeOf' = OutcomeOf
    BY <1>8 DEF ReceiveWebhook, CheckPaymentStatus
  <2>2. Collected' = Collected /\ approvals' = approvals /\ effects' = effects
    BY <1>8 DEF ReceiveWebhook, CheckPaymentStatus
  <2> QED
    BY <2>1, <2>2 DEF Contract!vars
<1>9. ASSUME NEW h \in Poller, NEW j \in jobs, TakePollJob(h, j) PROVE [Contract!Next]_(Contract!vars)
  <2>1. OutcomeOf' = OutcomeOf
    BY <1>9 DEF TakePollJob, CheckPaymentStatus
  <2>2. Collected' = Collected /\ approvals' = approvals /\ effects' = effects
    BY <1>9 DEF TakePollJob, CheckPaymentStatus
  <2> QED
    BY <2>1, <2>2 DEF Contract!vars
<1>10. ASSUME NEW h \in Handler, IgnoreWebhook(h) PROVE [Contract!Next]_(Contract!vars)
  <2>1. OutcomeOf' = OutcomeOf
    BY <1>10 DEF IgnoreWebhook, Finish
  <2>2. Collected' = Collected /\ approvals' = approvals /\ effects' = effects
    BY <1>10 DEF IgnoreWebhook, Finish
  <2> QED
    BY <2>1, <2>2 DEF Contract!vars
<1>11. ASSUME NEW h \in Handler, NEW r \in Request, LoadForWebhook(h, r) PROVE [Contract!Next]_(Contract!vars)
  <2>1. OutcomeOf' = OutcomeOf
    BY <1>11 DEF LoadForWebhook
  <2>2. Collected' = Collected /\ approvals' = approvals /\ effects' = effects
    BY <1>11 DEF LoadForWebhook
  <2> QED
    BY <2>1, <2>2 DEF Contract!vars
<1>12. ASSUME NEW h \in Handler, RejectFromWebhook(h) PROVE [Contract!Next]_(Contract!vars)
  <2> DEFINE r == handler[h].req
  <2>1. r \in Request /\ UNCHANGED <<Collected, approvals, effects>>
    BY <1>12 DEF RejectFromWebhook, Finish, Goto
  <2>2. CASE UNCHANGED status
    BY <2>1, <2>2 DEF Contract!vars
  <2>3. CASE ~UNCHANGED status
    <3>1. status[r] \notin Settled /\ status' = [status EXCEPT ![r] = "REJECTED"]
      BY <1>12, <2>3 DEF RejectFromWebhook, Finish, Goto
    <3> HIDE DEF r
    <3>2. OutcomeOf[r] = "open" /\ OutcomeOf' = [OutcomeOf EXCEPT ![r] = "rejected"]
      <4> HIDE DEF OutcomeOf
      <4> QED
        BY <2>1, <3>1, OutcomeRejected
    <3> QED
      BY <2>1, <3>2 DEF Contract!Next, Contract!Reject
  <2> QED
    BY <2>2, <2>3
<1>13. ASSUME NEW h \in Handler, LoadForPoll(h) PROVE [Contract!Next]_(Contract!vars)
  <2>1. OutcomeOf' = OutcomeOf
    BY <1>13 DEF LoadForPoll, PollSees, Finish, Goto
  <2>2. Collected' = Collected /\ approvals' = approvals /\ effects' = effects
    BY <1>13 DEF LoadForPoll, PollSees, Finish, Goto
  <2> QED
    BY <2>1, <2>2 DEF Contract!vars
<1>14. ASSUME NEW h \in Handler, DropMismatch(h) PROVE [Contract!Next]_(Contract!vars)
  <2>1. OutcomeOf' = OutcomeOf
    BY <1>14 DEF DropMismatch, PollSees, Finish
  <2>2. Collected' = Collected /\ approvals' = approvals /\ effects' = effects
    BY <1>14 DEF DropMismatch, PollSees, Finish
  <2> QED
    BY <2>1, <2>2 DEF Contract!vars
<1>15. ASSUME NEW h \in Handler, RejectFromPoll(h) PROVE [Contract!Next]_(Contract!vars)
  <2> DEFINE r == handler[h].req
  <2>1. r \in Request /\ UNCHANGED <<Collected, approvals, effects>>
    BY <1>15 DEF RejectFromPoll, PollSees, Finish, Goto, StillPolledBy
  <2>2. CASE UNCHANGED status
    BY <2>1, <2>2 DEF Contract!vars
  <2>3. CASE ~UNCHANGED status
    <3>1. status[r] \notin Settled /\ status' = [status EXCEPT ![r] = "REJECTED"]
      BY <1>15, <2>3 DEF RejectFromPoll, PollSees, Finish, Goto, StillPolledBy
    <3> HIDE DEF r
    <3>2. OutcomeOf[r] = "open" /\ OutcomeOf' = [OutcomeOf EXCEPT ![r] = "rejected"]
      <4> HIDE DEF OutcomeOf
      <4> QED
        BY <2>1, <3>1, OutcomeRejected
    <3> QED
      BY <2>1, <3>2 DEF Contract!Next, Contract!Reject
  <2> QED
    BY <2>2, <2>3
<1>16. ASSUME NEW h \in Handler, PollAgain(h) PROVE [Contract!Next]_(Contract!vars)
  <2>1. OutcomeOf' = OutcomeOf
    BY <1>16 DEF PollAgain, PollSees, Finish
  <2>2. Collected' = Collected /\ approvals' = approvals /\ effects' = effects
    BY <1>16 DEF PollAgain, PollSees, Finish
  <2> QED
    BY <2>1, <2>2 DEF Contract!vars
<1>17. ASSUME NEW h \in Handler, PollTimeout(h) PROVE [Contract!Next]_(Contract!vars)
  <2>1. OutcomeOf' = OutcomeOf
    BY <1>17 DEF PollTimeout, PollSees, Finish, Goto, StillPolledBy
  <2>2. Collected' = Collected /\ approvals' = approvals /\ effects' = effects
    BY <1>17 DEF PollTimeout, PollSees, Finish, Goto, StillPolledBy
  <2> QED
    BY <2>1, <2>2 DEF Contract!vars
<1>18. ASSUME NEW h \in Handler, PersistApprovedPayment(h) PROVE [Contract!Next]_(Contract!vars)
  <2> DEFINE r == handler[h].req
  <2>1. r \in Request /\ r \in Collected /\ UNCHANGED <<Collected, effects>>
    BY <1>18 DEF PersistApprovedPayment
  <2>2. CASE status[r] \in Settled
    BY <1>18, <2>1, <2>2 DEF PersistApprovedPayment, Contract!vars
  <2>3. CASE status[r] \notin Settled
    <3>1. /\ status' = [status EXCEPT ![r] = "APPROVED"]
          /\ approvals' = [approvals EXCEPT ![r] = @ + 1]
      BY <1>18, <2>3 DEF PersistApprovedPayment
    <3> HIDE DEF r
    <3>2. OutcomeOf[r] = "open" /\ OutcomeOf' = [OutcomeOf EXCEPT ![r] = "approved"]
      BY ZenonT(60), <2>1, <2>3, <3>1
    <3> QED
      BY <2>1, <3>1, <3>2 DEF Contract!Next, Contract!Approve
  <2> QED
    BY <2>2, <2>3
<1>19. ASSUME NEW h \in Handler, PostPayment(h) PROVE [Contract!Next]_(Contract!vars)
  <2> DEFINE r == handler[h].req
  <2>1. r \in Request /\ UNCHANGED <<Collected, OutcomeOf, approvals>>
    BY <1>19 DEF PostPayment
  <2>2. CASE UNCHANGED effects
    BY <2>1, <2>2 DEF Contract!vars
  <2>3. CASE ~UNCHANGED effects
    <3>1. effects' = [effects EXCEPT ![r] = @ + 1]
      BY <1>19, <2>3 DEF PostPayment
    <3>2. status[r] = "APPROVED" /\ effects[r] = 0
      BY <1>19, <2>1 DEF PostPayment
    <3> HIDE DEF r
    <3>3. OutcomeOf[r] = "approved"
      BY <2>1, <3>2
    <3>4. effects' = [effects EXCEPT ![r] = 1]
      BY <2>1, <3>1, <3>2
    <3> QED
      BY <2>1, <3>2, <3>3, <3>4 DEF Contract!Next, Contract!Deliver
  <2> QED
    BY <2>2, <2>3
<1>20. ASSUME NEW h \in Handler, RecordFailure(h) PROVE [Contract!Next]_(Contract!vars)
  <2>1. OutcomeOf' = OutcomeOf
    BY <1>20 DEF RecordFailure, Finish
  <2>2. Collected' = Collected /\ approvals' = approvals /\ effects' = effects
    BY <1>20 DEF RecordFailure, Finish
  <2> QED
    BY <2>1, <2>2 DEF Contract!vars
<1>21. ASSUME NEW c \in Caller, CrashCaller(c) PROVE [Contract!Next]_(Contract!vars)
  <2>1. OutcomeOf' = OutcomeOf
    BY <1>21 DEF CrashCaller
  <2>2. Collected' = Collected /\ approvals' = approvals /\ effects' = effects
    BY <1>21 DEF CrashCaller
  <2> QED
    BY <2>1, <2>2 DEF Contract!vars
<1>22. ASSUME NEW h \in Handler, CrashHandler(h) PROVE [Contract!Next]_(Contract!vars)
  <2>1. OutcomeOf' = OutcomeOf
    BY <1>22 DEF CrashHandler, Finish
  <2>2. Collected' = Collected /\ approvals' = approvals /\ effects' = effects
    BY <1>22 DEF CrashHandler, Finish
  <2> QED
    BY <2>1, <2>2 DEF Contract!vars
<1>23. ASSUME UNCHANGED vars PROVE [Contract!Next]_(Contract!vars)
  BY <1>23 DEF vars, Contract!vars
<1> QED
  BY <1>1, <1>2, <1>3, <1>4, <1>5, <1>6, <1>7, <1>8, <1>9, <1>10, <1>11, <1>12, <1>13, <1>14, <1>15, <1>16, <1>17, <1>18, <1>19, <1>20, <1>21, <1>22, <1>23
     DEF Next, CallerStep, HandlerStep, WebhookStep, PollStep, SettlementStep

\* The payment page, the webhook and the poller implement the contract: one
\* booking, one outcome, one delivery per request.
THEOREM Refinement == Spec => ImplementsContract
<1>1. Init => Contract!Init
  BY NullAssumption DEF Init, Contract!Init, Collected, OutcomeOf
<1>2. IndInv /\ [Next]_vars => [Contract!Next]_(Contract!vars)
  BY ContractStep DEF IndInv
<1> QED
  BY <1>1, <1>2, Invariance, PTL DEF Spec, ImplementsContract, Contract!Spec

==========================================================================
