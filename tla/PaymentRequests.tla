------------------------- MODULE PaymentRequests -------------------------
(***************************************************************************)
(* Mobile-money payment requests: the payment page's initiatePayment, the  *)
(* gateway's webhook, and the poller that asks the gateway again every few *)
(* seconds.  All three run concurrently on the same payment_request row,   *)
(* every await is a point where the others may run, and a process may die  *)
(* at any of them.                                                         *)
(*                                                                         *)
(* A gateway deposit is created with a fresh reference per initiation.     *)
(* Amounts are abstracted to "the amount asked for" and "another amount":  *)
(* the ledgers are kept as the number of times each request was booked.    *)
(***************************************************************************)
EXTENDS Integers, FiniteSets

CONSTANTS
  Request,      \* payment_request rows
  Ref,          \* deposit references the gateway may hand out
  Caller,       \* concurrent HTTP calls of initiatePayment
  Webhook,      \* concurrent webhook deliveries
  Poller,       \* concurrent workers of the poll queue
  MaxAttempts,  \* polls per deposit before the poller gives up (24 in the code)
  MaxCrashes,   \* bound: how often a process dies in the middle of its work
  NoRef, NoReq  \* null

Handler == Webhook \cup Poller

ASSUME NullAssumption == NoRef \notin Ref /\ NoReq \notin Request
ASSUME HandlerAssumption == Webhook \cap Poller = {}
ASSUME BoundAssumption == MaxAttempts \in Nat \ {0} /\ MaxCrashes \in Nat

VARIABLES
  status,       \* payment_requests.status ("ABSENT": not created yet)
  gatewayRef,   \* payment_requests.gateway_payment_ref
  deposit,      \* the gateway's record of each deposit
  depositFor,   \* the request a deposit was created for (its clientReferenceId)
  caller,       \* where each initiatePayment call is
  jobs,         \* queued poll jobs
  handler,      \* where each webhook or poll execution is
  approvals,    \* committed approval transactions per request: payment row and
                \* both wallet credits
  failedRows,   \* FAILED rows of the payments table per request
  effects,      \* post-payment effects that ran, per request
  crashes

row == <<status, gatewayRef>>
gateway == <<deposit, depositFor>>
books == <<approvals, failedRows, effects>>
vars == <<row, gateway, caller, jobs, handler, books, crashes>>

Status == {"ABSENT", "PENDING", "PROCESSING", "APPROVED", "REJECTED"}
Settled == {"APPROVED", "REJECTED"}

\* "LOST": the creation call never reached the gateway.  "MISMATCHED": money
\* moved, but not the amount or currency asked for.
DepositState ==
  {"UNUSED", "LOST", "PENDING", "COMPLETED", "MISMATCHED", "FAILED"}

\* What checkPaymentStatus may return.
Seen == {"PENDING", "COMPLETED", "MISMATCHED", "FAILED"}

CallerState == [pc : {"idle", "calling", "recording", "enqueueing"},
                req : Request \cup {NoReq}, ref : Ref \cup {NoRef}]
Job == [req : Request, ref : Ref, attempt : 1 .. MaxAttempts]
HandlerState ==
  [pc : {"idle", "verified", "approving", "rejecting", "failing", "settling"},
   req : Request \cup {NoReq}, ref : Ref \cup {NoRef},
   attempt : 1 .. MaxAttempts, seen : Seen]

IdleCaller == [pc |-> "idle", req |-> NoReq, ref |-> NoRef]
IdleHandler == [pc |-> "idle", req |-> NoReq, ref |-> NoRef, attempt |-> 1,
                seen |-> "PENDING"]

TypeOK ==
  /\ status \in [Request -> Status]
  /\ gatewayRef \in [Request -> Ref \cup {NoRef}]
  /\ deposit \in [Ref -> DepositState]
  /\ depositFor \in [Ref -> Request \cup {NoReq}]
  /\ caller \in [Caller -> CallerState]
  /\ jobs \subseteq Job
  /\ handler \in [Handler -> HandlerState]
  /\ approvals \in [Request -> Nat]
  /\ failedRows \in [Request -> Nat]
  /\ effects \in [Request -> Nat]
  /\ crashes \in 0 .. MaxCrashes

Init ==
  /\ status = [r \in Request |-> "ABSENT"]
  /\ gatewayRef = [r \in Request |-> NoRef]
  /\ deposit = [d \in Ref |-> "UNUSED"]
  /\ depositFor = [d \in Ref |-> NoReq]
  /\ caller = [c \in Caller |-> IdleCaller]
  /\ jobs = {}
  /\ handler = [h \in Handler |-> IdleHandler]
  /\ approvals = [r \in Request |-> 0]
  /\ failedRows = [r \in Request |-> 0]
  /\ effects = [r \in Request |-> 0]
  /\ crashes = 0

----------------------------------------------------------------------------
(* The gateway (external): deposits settle by themselves, once. *)

SettleDeposit(d) ==
  /\ deposit[d] = "PENDING"
  /\ \E s \in {"COMPLETED", "MISMATCHED", "FAILED"} :
       deposit' = [deposit EXCEPT ![d] = s]
  /\ UNCHANGED <<row, depositFor, caller, jobs, handler, books, crashes>>

\* checkPaymentStatus: an HTTP error reads as PENDING, a deposit the gateway
\* never received reads as FAILED.
CheckPaymentStatus(d) ==
  {"PENDING"} \cup (IF deposit[d] = "LOST" THEN {"FAILED"} ELSE {deposit[d]})

----------------------------------------------------------------------------
(* createPaymentUrl and initiatePayment. *)

CreatePaymentUrl(r) ==
  /\ status[r] = "ABSENT"
  /\ status' = [status EXCEPT ![r] = "PENDING"]
  /\ UNCHANGED <<gatewayRef, gateway, caller, jobs, handler, books, crashes>>

\* The atomic claim PENDING -> PROCESSING; a call that loses it changes nothing.
ClaimForInitiation(c, r) ==
  /\ caller[c].pc = "idle"
  /\ status[r] = "PENDING"
  /\ status' = [status EXCEPT ![r] = "PROCESSING"]
  /\ caller' = [caller EXCEPT ![c] = [IdleCaller EXCEPT !.pc = "calling",
                                                        !.req = r]]
  /\ UNCHANGED <<gatewayRef, gateway, jobs, handler, books, crashes>>

\* The gateway takes the deposit, or never answers: both return the reference.
InitiateDeposit(c, d) ==
  /\ caller[c].pc = "calling"
  /\ deposit[d] = "UNUSED"
  /\ \E s \in {"PENDING", "LOST"} : deposit' = [deposit EXCEPT ![d] = s]
  /\ depositFor' = [depositFor EXCEPT ![d] = caller[c].req]
  /\ caller' = [caller EXCEPT ![c] = [@ EXCEPT !.pc = "recording", !.ref = d]]
  /\ UNCHANGED <<row, jobs, handler, books, crashes>>

\* The gateway refuses: the request goes back to PENDING if still PROCESSING.
InitiationRefused(c) ==
  /\ caller[c].pc = "calling"
  /\ status' = [status EXCEPT ![caller[c].req] =
                  IF @ = "PROCESSING" THEN "PENDING" ELSE @]
  /\ caller' = [caller EXCEPT ![c] = IdleCaller]
  /\ UNCHANGED <<gatewayRef, gateway, jobs, handler, books, crashes>>

\* Unconditional: whatever became of the request during the gateway call.
RecordGatewayRef(c) ==
  /\ caller[c].pc = "recording"
  /\ gatewayRef' = [gatewayRef EXCEPT ![caller[c].req] = caller[c].ref]
  /\ caller' = [caller EXCEPT ![c].pc = "enqueueing"]
  /\ UNCHANGED <<status, gateway, jobs, handler, books, crashes>>

EnqueueFirstPoll(c) ==
  /\ caller[c].pc = "enqueueing"
  /\ jobs' = jobs \cup
       {[req |-> caller[c].req, ref |-> caller[c].ref, attempt |-> 1]}
  /\ caller' = [caller EXCEPT ![c] = IdleCaller]
  /\ UNCHANGED <<row, gateway, handler, books, crashes>>

----------------------------------------------------------------------------
(* The webhook: handlePaymentCallback. *)

Finish(h) == handler' = [handler EXCEPT ![h] = IdleHandler]
Goto(h, label) == handler' = [handler EXCEPT ![h].pc = label]

\* A delivery names a deposit; its status is read back from the gateway.
\* Deliveries may be repeated, late or missing.
ReceiveWebhook(h, d) ==
  /\ handler[h].pc = "idle"
  /\ deposit[d] # "UNUSED"
  /\ \E s \in CheckPaymentStatus(d) :
       handler' = [handler EXCEPT ![h] =
         [pc |-> "verified", req |-> NoReq, ref |-> d, attempt |-> 1,
          seen |-> s]]
  /\ UNCHANGED <<row, gateway, caller, jobs, books, crashes>>

\* No request stores this reference, it is settled, nothing final was seen, or
\* the amount is wrong: the callback is acknowledged and dropped.
IgnoreWebhook(h) ==
  /\ h \in Webhook /\ handler[h].pc = "verified"
  /\ \A r \in Request :
       gatewayRef[r] = handler[h].ref =>
         \/ status[r] \in Settled
         \/ handler[h].seen \in {"PENDING", "MISMATCHED"}
  /\ Finish(h)
  /\ UNCHANGED <<row, gateway, caller, jobs, books, crashes>>

LoadForWebhook(h, r) ==
  /\ h \in Webhook /\ handler[h].pc = "verified"
  /\ gatewayRef[r] = handler[h].ref
  /\ status[r] \notin Settled
  /\ handler[h].seen \in {"COMPLETED", "FAILED"}
  /\ LET next == IF handler[h].seen = "COMPLETED" THEN "approving"
                                                 ELSE "rejecting"
     IN  handler' = [handler EXCEPT ![h] = [@ EXCEPT !.pc = next, !.req = r]]
  /\ UNCHANGED <<row, gateway, caller, jobs, books, crashes>>

\* Mutant: the unconditional update({ id }) the claim replaced.
RejectFromWebhookUnclaimed(h) ==
  /\ handler[h].pc = "rejecting"
  /\ status' = [status EXCEPT ![handler[h].req] = "REJECTED"]
  /\ Goto(h, "failing")
  /\ UNCHANGED <<gatewayRef, gateway, caller, jobs, books, crashes>>

\* Claims with the status predicate only.
RejectFromWebhook(h) ==
  /\ handler[h].pc = "rejecting"
  /\ LET r == handler[h].req IN
       IF status[r] \in Settled
       THEN Finish(h) /\ UNCHANGED status
       ELSE /\ status' = [status EXCEPT ![r] = "REJECTED"]
            /\ Goto(h, "failing")
  /\ UNCHANGED <<gatewayRef, gateway, caller, jobs, books, crashes>>

\* persistFailedPayment (webhook) and recordFailure (poller).
RecordFailure(h) ==
  /\ handler[h].pc = "failing"
  /\ failedRows' = [failedRows EXCEPT ![handler[h].req] = @ + 1]
  /\ Finish(h)
  /\ UNCHANGED <<row, gateway, caller, jobs, approvals, effects, crashes>>

----------------------------------------------------------------------------
(* The poller: PollPaymentStatusProcessor.process. *)

TakePollJob(h, j) ==
  /\ handler[h].pc = "idle"
  /\ jobs' = jobs \ {j}
  /\ \E s \in CheckPaymentStatus(j.ref) :
       handler' = [handler EXCEPT ![h] =
         [pc |-> "verified", req |-> j.req, ref |-> j.ref,
          attempt |-> j.attempt, seen |-> s]]
  /\ UNCHANGED <<row, gateway, caller, books, crashes>>

\* The only row a poll may still write.
StillPolledBy(h) ==
  /\ status[handler[h].req] = "PROCESSING"
  /\ gatewayRef[handler[h].req] = handler[h].ref

PollSees(h, s) ==
  h \in Poller /\ handler[h].pc = "verified" /\ handler[h].seen = s

\* Mutant: the settled amount is not compared with the amount asked for.
LoadForPollUnchecked(h) ==
  /\ PollSees(h, "COMPLETED") \/ PollSees(h, "MISMATCHED")
  /\ IF status[handler[h].req] \in Settled THEN Finish(h)
                                           ELSE Goto(h, "approving")
  /\ UNCHANGED <<row, gateway, caller, jobs, books, crashes>>

\* processApprovedPaymentById: loads by id, drops a settled request.
LoadForPoll(h) ==
  /\ PollSees(h, "COMPLETED")
  /\ IF status[handler[h].req] \in Settled THEN Finish(h)
                                           ELSE Goto(h, "approving")
  /\ UNCHANGED <<row, gateway, caller, jobs, books, crashes>>

\* A mismatch is neither approved nor rejected, and not polled again.
DropMismatch(h) ==
  /\ PollSees(h, "MISMATCHED")
  /\ Finish(h)
  /\ UNCHANGED <<row, gateway, caller, jobs, books, crashes>>

RejectFromPoll(h) ==
  /\ PollSees(h, "FAILED")
  /\ IF StillPolledBy(h)
     THEN /\ status' = [status EXCEPT ![handler[h].req] = "REJECTED"]
          /\ Goto(h, "failing")
     ELSE Finish(h) /\ UNCHANGED status
  /\ UNCHANGED <<gatewayRef, gateway, caller, jobs, books, crashes>>

\* Mutant: off by one at the last attempt.
PollAgainOnceMore(h) ==
  /\ PollSees(h, "PENDING")
  /\ handler[h].attempt <= MaxAttempts
  /\ jobs' = jobs \cup {[req |-> handler[h].req, ref |-> handler[h].ref,
                         attempt |-> handler[h].attempt + 1]}
  /\ Finish(h)
  /\ UNCHANGED <<row, gateway, caller, books, crashes>>

\* Mutant: the next poll is not enqueued.
PollAgainForgotten(h) ==
  /\ PollSees(h, "PENDING")
  /\ handler[h].attempt < MaxAttempts
  /\ Finish(h)
  /\ UNCHANGED <<row, gateway, caller, jobs, books, crashes>>

PollAgain(h) ==
  /\ PollSees(h, "PENDING")
  /\ handler[h].attempt < MaxAttempts
  /\ jobs' = jobs \cup {[req |-> handler[h].req, ref |-> handler[h].ref,
                         attempt |-> handler[h].attempt + 1]}
  /\ Finish(h)
  /\ UNCHANGED <<row, gateway, caller, books, crashes>>

PollTimeout(h) ==
  /\ PollSees(h, "PENDING")
  /\ handler[h].attempt = MaxAttempts
  /\ IF StillPolledBy(h)
     THEN /\ status' = [status EXCEPT ![handler[h].req] = "PENDING"]
          /\ Goto(h, "failing")
     ELSE Finish(h) /\ UNCHANGED status
  /\ UNCHANGED <<gatewayRef, gateway, caller, jobs, books, crashes>>

----------------------------------------------------------------------------
(* Settlement, shared by the webhook and the poller. *)

\* Mutant: the transaction does not claim, it relies on the earlier load.
PersistApprovedUnclaimed(h) ==
  /\ handler[h].pc = "approving"
  /\ status' = [status EXCEPT ![handler[h].req] = "APPROVED"]
  /\ approvals' = [approvals EXCEPT ![handler[h].req] = @ + 1]
  /\ Goto(h, "settling")
  /\ UNCHANGED <<gatewayRef, gateway, caller, jobs, failedRows, effects, crashes>>

\* persistApprovedPayment: one transaction claims the request, inserts the
\* payment row and credits the system and the mobile-money wallets.
PersistApprovedPayment(h) ==
  /\ handler[h].pc = "approving"
  /\ LET r == handler[h].req IN
       IF status[r] \in Settled
       THEN Finish(h) /\ UNCHANGED <<status, approvals>>
       ELSE /\ status' = [status EXCEPT ![r] = "APPROVED"]
            /\ approvals' = [approvals EXCEPT ![r] = @ + 1]
            /\ Goto(h, "settling")
  /\ UNCHANGED <<gatewayRef, gateway, caller, jobs, failedRows, effects, crashes>>

\* The effect the request was paid for (penalties settled, wallet topped up,
\* plan activated, contact unlocked).  Each is attempted once; a failure is
\* logged and swallowed.
PostPayment(h) ==
  /\ handler[h].pc = "settling"
  /\ \/ effects' = [effects EXCEPT ![handler[h].req] = @ + 1]
     \/ UNCHANGED effects
  /\ Finish(h)
  /\ UNCHANGED <<row, gateway, caller, jobs, approvals, failedRows, crashes>>

----------------------------------------------------------------------------
(* A process dies.  An HTTP call is simply gone; the queue runs a poll job  *)
(* again.                                                                   *)

CrashCaller(c) ==
  /\ caller[c].pc # "idle"
  /\ crashes < MaxCrashes
  /\ crashes' = crashes + 1
  /\ caller' = [caller EXCEPT ![c] = IdleCaller]
  /\ UNCHANGED <<row, gateway, jobs, handler, books>>

CrashHandler(h) ==
  /\ handler[h].pc # "idle"
  /\ crashes < MaxCrashes
  /\ crashes' = crashes + 1
  /\ jobs' = IF h \in Poller
             THEN jobs \cup {[req |-> handler[h].req, ref |-> handler[h].ref,
                              attempt |-> handler[h].attempt]}
             ELSE jobs
  /\ Finish(h)
  /\ UNCHANGED <<row, gateway, caller, books>>

----------------------------------------------------------------------------

CallerStep(c) ==
  \/ \E d \in Ref : InitiateDeposit(c, d)
  \/ InitiationRefused(c)
  \/ RecordGatewayRef(c)
  \/ EnqueueFirstPoll(c)

WebhookStep(h) ==
  \/ IgnoreWebhook(h)
  \/ \E r \in Request : LoadForWebhook(h, r)
  \/ RejectFromWebhook(h)

PollStep(h) ==
  \/ LoadForPoll(h)
  \/ DropMismatch(h)
  \/ RejectFromPoll(h)
  \/ PollAgain(h)
  \/ PollTimeout(h)

SettlementStep(h) ==
  \/ PersistApprovedPayment(h)
  \/ PostPayment(h)
  \/ RecordFailure(h)

HandlerStep(h) == WebhookStep(h) \/ PollStep(h) \/ SettlementStep(h)

Next ==
  \/ \E d \in Ref : SettleDeposit(d)
  \/ \E r \in Request : CreatePaymentUrl(r)
  \/ \E c \in Caller, r \in Request : ClaimForInitiation(c, r)
  \/ \E c \in Caller : CallerStep(c)
  \/ \E h \in Webhook, d \in Ref : ReceiveWebhook(h, d)
  \/ \E h \in Poller, j \in jobs : TakePollJob(h, j)
  \/ \E h \in Handler : HandlerStep(h)
  \/ \E c \in Caller : CrashCaller(c)
  \/ \E h \in Handler : CrashHandler(h)

Spec == Init /\ [][Next]_vars

\* Node runs every started call to its end and the queue hands waiting jobs to
\* idle workers.  Payers, the gateway and webhook deliveries promise nothing.
FairSpec ==
  /\ Spec
  /\ \A c \in Caller : WF_vars(CallerStep(c))
  /\ \A h \in Handler : WF_vars(HandlerStep(h))
  /\ WF_vars(\E h \in Poller, j \in jobs : TakePollJob(h, j))

----------------------------------------------------------------------------
(* Properties. *)

\* persistApprovedPayment's claim: however webhooks, polls, retries and crashes
\* interleave, a request is booked exactly when it is APPROVED, and only once.
BookedOnce ==
  \A r \in Request : approvals[r] = IF status[r] = "APPROVED" THEN 1 ELSE 0

\* A request is APPROVED only if a deposit created for that very request was
\* collected with the right amount: no stale read, foreign reference or
\* mismatched settlement leads to an approval.
ApprovedWasCollected ==
  \A r \in Request :
    status[r] = "APPROVED" =>
      \E d \in Ref : depositFor[d] = r /\ deposit[d] = "COMPLETED"

\* A request is REJECTED only on the evidence of one of its own deposits that
\* failed or never reached the gateway.
RejectedHadFailure ==
  \A r \in Request :
    status[r] = "REJECTED" =>
      \E d \in Ref : depositFor[d] = r /\ deposit[d] \in {"FAILED", "LOST"}

\* Both: whatever is recorded about a request rests on what became of one of its
\* own deposits (checkPaymentStatus, the webhook and the amount's comparison).
SettledOnEvidence == ApprovedWasCollected /\ RejectedHadFailure

\* Of the executions that saw a payment, only the one whose claim committed
\* goes on to the post-payment effects, so they run at most once.
EffectsFollowTheClaim ==
  /\ \A r \in Request : effects[r] <= approvals[r]
  /\ \A h \in Handler :
       handler[h].pc = "settling" =>
         /\ approvals[handler[h].req] = 1
         /\ effects[handler[h].req] = 0
  /\ \A g, h \in Handler :
       handler[g].pc = "settling" /\ handler[h].pc = "settling"
       /\ handler[g].req = handler[h].req => g = h

\* No step reopens or flips a settled request (stillPolledBy and the notIn
\* predicates of both claims).
SettledIsFinal ==
  [][\A r \in Request : status[r] \in Settled => status'[r] = status[r]]_vars

\* As long as no process dies, an initiated request does not stay PROCESSING:
\* the webhook or the bounded polling settles it or hands it back to the payer,
\* except for a mismatched settlement, which is left for a human.
ProcessingEnds ==
  \A r \in Request :
    status[r] = "PROCESSING" ~>
      \/ status[r] # "PROCESSING"
      \/ \E d \in Ref : depositFor[d] = r /\ deposit[d] = "MISMATCHED"
      \/ crashes > 0

\* "revert to PENDING so webhook can still resolve it": money the gateway
\* collected for a request that is still open can reach it, because the row
\* stores the deposit's reference or some running or queued work carries it.
CollectedIsResolvable ==
  \A r \in Request, d \in Ref :
    depositFor[d] = r /\ deposit[d] = "COMPLETED" /\ status[r] \notin Settled =>
      \/ gatewayRef[r] = d
      \/ \E j \in jobs : j.ref = d
      \/ \E c \in Caller : caller[c].ref = d
      \/ \E h \in Handler : handler[h].ref = d

----------------------------------------------------------------------------
(* What makes the safety properties inductive. *)

\* A reference is handed out once and stays with the request it was created
\* for, wherever it is stored or carried.
ReferencesAreOwned ==
  /\ \A d \in Ref : deposit[d] = "UNUSED" <=> depositFor[d] = NoReq
  /\ \A r \in Request :
       gatewayRef[r] # NoRef => depositFor[gatewayRef[r]] = r
  /\ \A c \in Caller :
       /\ caller[c].pc # "idle" => caller[c].req \in Request
       /\ caller[c].pc \in {"recording", "enqueueing"} =>
            caller[c].ref \in Ref /\ depositFor[caller[c].ref] = caller[c].req
  /\ \A j \in jobs : depositFor[j.ref] = j.req

\* Whoever is about to settle a request carries a final status that its own
\* deposit still has.
WorkCarriesEvidence ==
  \A h \in Handler :
    /\ handler[h].pc # "idle" =>
         /\ handler[h].ref \in Ref
         /\ h \in Poller \/ handler[h].pc # "verified" =>
              /\ handler[h].req \in Request
              /\ depositFor[handler[h].ref] = handler[h].req
         /\ handler[h].seen = "COMPLETED" =>
              deposit[handler[h].ref] = "COMPLETED"
         /\ handler[h].seen = "FAILED" =>
              deposit[handler[h].ref] \in {"FAILED", "LOST"}
    /\ handler[h].pc = "approving" => handler[h].seen = "COMPLETED"
    /\ handler[h].pc = "rejecting" => handler[h].seen = "FAILED"

IndInv ==
  /\ TypeOK
  /\ BookedOnce
  /\ ApprovedWasCollected
  /\ RejectedHadFailure
  /\ EffectsFollowTheClaim
  /\ ReferencesAreOwned
  /\ WorkCarriesEvidence

----------------------------------------------------------------------------
\* The contract of PaymentContract, with the request's deposits reduced to
\* whether one of them collected the amount.
Collected ==
  {r \in Request : \E d \in Ref : depositFor[d] = r /\ deposit[d] = "COMPLETED"}

OutcomeOf ==
  [r \in Request |-> CASE status[r] = "APPROVED" -> "approved"
                       [] status[r] = "REJECTED" -> "rejected"
                       [] OTHER -> "open"]

Contract == INSTANCE PaymentContract
  WITH collected <- Collected, outcome <- OutcomeOf,
       booked <- approvals, delivered <- effects

\* The webhook, the poller and the payment page together implement the
\* contract: every step is one of its steps or changes nothing it can see.
ImplementsContract == Contract!Spec
==========================================================================
