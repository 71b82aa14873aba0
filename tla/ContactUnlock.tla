-------------------------- MODULE ContactUnlock --------------------------
(***************************************************************************)
(* Releasing contact details on one job offer.  Accepting an application    *)
(* creates its unlock attempt; the employer and the worker each pay their   *)
(* share, from the wallet or by mobile money; the second payment releases   *)
(* the contacts and confirms the hire.  On an offer for several people one  *)
(* employer payment covers every attempt, and a business's plan may cover   *)
(* the employer's share.  Attempts that expire or are abandoned give the    *)
(* money back.  Payments, the expiry scan, the job-start expiry and         *)
(* cancellations load a row, move money in a transaction of its own, and    *)
(* write the row afterwards: they interleave at every await.                *)
(***************************************************************************)
EXTENDS Integers, FiniteSets

CONSTANTS
  Application,   \* applications to the offer, each with its own worker
  Call,          \* concurrent calls of the services below
  Quantities,    \* numbers of people the offer may ask for
  Plans,         \* unlocks the employer's plan may have left at the start
  MaxCalls,      \* bound: calls of payUnlock, cancel and the expiry scan
  MaxFailures,   \* bound: calls that fail or die half-way
  NoApplication  \* null

ASSUME UnlockAssumption ==
  /\ IsFiniteSet(Application) /\ IsFiniteSet(Call)
  /\ NoApplication \notin Application
  /\ Quantities \subseteq Nat \ {0}
  /\ Plans \subseteq Nat /\ MaxCalls \in Nat /\ MaxFailures \in Nat

VARIABLES
  quantity,      \* job_offers.quantity
  planUnits,     \* unlocks the employer's plan had left when the offer was made
  jobPaid,       \* job_offers.employer_unlock_paid
  app,           \* applications.status ("CLOSED": cancelled or rejected)
  status,        \* contact_unlock_attempts.status ("NONE": no row)
  hasPaid,       \* employer_paid and worker_paid
  unit,          \* the plan unit that covers an attempt
  unitsLeft,     \* unlocks the plan still has
  due,           \* attempts whose expires_at has passed
  charged,       \* payments taken for an attempt and side
  refunded,      \* credit conversions of an attempt and side
  call,
  disturbed,     \* attempts whose settlement overlapped another call or that a
                 \* failed call left half done (history)
  started, failures

rowVars == <<status, hasPaid, unit, unitsLeft>>
terms == <<quantity, planUnits>>
offerVars == <<terms, jobPaid, app, due>>
moneyVars == <<charged, refunded>>
bounds == <<started, failures>>
vars == <<rowVars, offerVars, moneyVars, call, disturbed, bounds>>

Side == {"employer", "worker"}
ApplicationStatus == {"PENDING", "WAITING_PAYMENT", "ACCEPTED", "CLOSED"}
Pending == {"PENDING_BOTH", "PENDING_EMPLOYER", "PENDING_WORKER"}
Status == Pending \cup {"NONE", "UNLOCKED", "EXPIRED", "CONVERTED_TO_CREDIT"}

Label == {"idle", "debit", "record", "commit", "cascadeLoad", "cascade",
          "accept", "leftovers", "payRefund",
          "cancel", "cancelUnpaid", "abort", "settle", "sync"}

\* What a call holds: the attempt it works on, what a payment read of it and
\* the attempts it updates and unlocks; whether a settlement is the scan's, what
\* it decided on loading the attempt and the refunds it still owes.
CallState ==
  [pc : Label, app : Application \cup {NoApplication},
   side : Side, wallet : BOOLEAN, seen : SUBSET Side,
   todo : SUBSET Application, unlocks : SUBSET Application,
   scan : BOOLEAN, result : {"EXPIRED", "CONVERTED_TO_CREDIT"},
   refunds : SUBSET Side, release : BOOLEAN]

Idle ==
  [pc |-> "idle", app |-> NoApplication,
   side |-> "employer", wallet |-> FALSE, seen |-> {},
   todo |-> {}, unlocks |-> {},
   scan |-> FALSE, result |-> "EXPIRED", refunds |-> {}, release |-> FALSE]

TypeOK ==
  /\ quantity \in Quantities
  /\ planUnits \in Plans
  /\ jobPaid \in BOOLEAN
  /\ app \in [Application -> ApplicationStatus]
  /\ status \in [Application -> Status]
  /\ hasPaid \in [Application -> SUBSET Side]
  /\ unit \in [Application -> {"none", "used", "released"}]
  /\ unitsLeft \in 0 .. planUnits
  /\ due \in SUBSET Application
  /\ charged \in [Application \X Side -> Nat]
  /\ refunded \in [Application \X Side -> Nat]
  /\ call \in [Call -> CallState]
  /\ disturbed \in SUBSET Application
  /\ started \in 0 .. MaxCalls
  /\ failures \in 0 .. MaxFailures

Init ==
  /\ quantity \in Quantities
  /\ planUnits \in Plans
  /\ jobPaid = FALSE
  /\ app = [a \in Application |-> "PENDING"]
  /\ status = [a \in Application |-> "NONE"]
  /\ hasPaid = [a \in Application |-> {}]
  /\ unit = [a \in Application |-> "none"]
  /\ unitsLeft = planUnits
  /\ due = {}
  /\ charged = [m \in Application \X Side |-> 0]
  /\ refunded = [m \in Application \X Side |-> 0]
  /\ call = [c \in Call |-> Idle]
  /\ disturbed = {}
  /\ started = 0 /\ failures = 0

----------------------------------------------------------------------------
(* Offer and applications, as far as attempts depend on them. *)

Seated == {a \in Application : app[a] \in {"WAITING_PAYMENT", "ACCEPTED"}}
Hired == {a \in Application : app[a] = "ACCEPTED"}

\* isEmployerCoveredAtJobLevel.
CoveredAtJobLevel(paid) == quantity > 1 /\ paid

\* Mutant: the plan covers an attempt whatever is left of it.
InitiateUnlockOverQuota(a) ==
  /\ status' = [status EXCEPT ![a] = "PENDING_WORKER"]
  /\ hasPaid' = [hasPaid EXCEPT ![a] = {"employer"}]
  /\ unit' = [unit EXCEPT ![a] = "used"]
  /\ unitsLeft' = unitsLeft - 1

\* Mutant: a plan without units left still covers.
InitiateUnlockUnmetered(a) ==
  /\ status' = [status EXCEPT ![a] = "PENDING_WORKER"]
  /\ hasPaid' = [hasPaid EXCEPT ![a] = {"employer"}]
  /\ unit' = [unit EXCEPT ![a] = IF unitsLeft > 0 THEN "used" ELSE "none"]
  /\ unitsLeft' = IF unitsLeft > 0 THEN unitsLeft - 1 ELSE 0

\* The employer's share is covered by the job's payment or by a plan unit.
InitiateUnlock(a) ==
  /\ LET byJob == CoveredAtJobLevel(jobPaid)
         byPlan == ~byJob /\ unitsLeft > 0
     IN  /\ status' = [status EXCEPT ![a] =
              IF byJob \/ byPlan THEN "PENDING_WORKER" ELSE "PENDING_BOTH"]
         /\ hasPaid' = [hasPaid EXCEPT ![a] =
              IF byJob \/ byPlan THEN {"employer"} ELSE {}]
         /\ unit' = [unit EXCEPT ![a] = IF byPlan THEN "used" ELSE "none"]
         /\ unitsLeft' = IF byPlan THEN unitsLeft - 1 ELSE unitsLeft

\* accept: one transaction under the application's and the offer's locks.
Accept(a) ==
  /\ app[a] = "PENDING"
  /\ Cardinality(Seated) < quantity
  /\ LET filled == Cardinality(Seated) + 1 >= quantity IN
       app' = [b \in Application |->
                 IF b = a THEN "WAITING_PAYMENT"
                 ELSE IF filled /\ app[b] = "PENDING" THEN "CLOSED"
                 ELSE app[b]]
  /\ InitiateUnlock(a)
  /\ UNCHANGED <<terms, jobPaid, due, moneyVars, call, disturbed, bounds>>

\* cancelAcceptedByEmployer, and offers that close: the attempt is left alone.
CloseApplication(a) ==
  /\ app[a] # "CLOSED"
  /\ app' = [app EXCEPT ![a] = "CLOSED"]
  /\ UNCHANGED <<terms, jobPaid, due, rowVars, moneyVars, call, disturbed, bounds>>

\* expires_at passes, or expirePendingAttemptsForJob brings it forward when the
\* job starts.
Expire(a) ==
  /\ status[a] \in Pending /\ a \notin due
  /\ due' = due \cup {a}
  /\ UNCHANGED <<terms, jobPaid, app, rowVars, moneyVars, call, disturbed, bounds>>

----------------------------------------------------------------------------
(* Calls. *)

At(c, label) == call[c].pc = label
Goto(c, label) == call' = [call EXCEPT ![c].pc = label]
Leave(c) == call' = [call EXCEPT ![c] = Idle]

Start == started < MaxCalls /\ started' = started + 1

PaysForJob(c) == call[c].side = "employer" /\ quantity > 1

\* The attempts a payment or a settlement is about to write.
Paying(c) == call[c].pc \in {"debit", "record", "commit", "cascadeLoad", "cascade"}
Settling(c) == At(c, "settle")
Holds(c) ==
  IF Paying(c) /\ PaysForJob(c) THEN Application
  ELSE IF Paying(c) \/ Settling(c) THEN {call[c].app} ELSE {}

\* Whatever fails or dies half-way leaves its attempts disturbed.
Fail(attempts) ==
  /\ failures < MaxFailures
  /\ failures' = failures + 1
  /\ disturbed' = disturbed \cup attempts

----------------------------------------------------------------------------
(* payUnlock.  Mobile money was collected before the call; it counts as      *)
(* charged once applied, and stays with its payment request otherwise.       *)

PayUnlock(c, a, s, wallet) ==
  /\ At(c, "idle") /\ Start
  /\ status[a] \in Pending
  /\ s \notin hasPaid[a]
  /\ call' = [call EXCEPT ![c] =
       [Idle EXCEPT !.pc = IF wallet THEN "debit" ELSE "commit", !.app = a,
                    !.side = s, !.wallet = wallet, !.seen = hasPaid[a]]]
  /\ disturbed' = disturbed \cup
       {b \in IF s = "employer" /\ quantity > 1 THEN Application ELSE {a} :
          \E d \in Call : Settling(d) /\ call[d].app = b}
  /\ UNCHANGED <<rowVars, offerVars, moneyVars, failures>>

Charge(c) == charged' = [charged EXCEPT ![<<call[c].app, call[c].side>>] = @ + 1]

\* The wallet covers the fee and is debited, or it does not.
Debit(c) ==
  /\ At(c, "debit")
  /\ \/ Charge(c) /\ Goto(c, "record")
     \/ Leave(c) /\ UNCHANGED charged
  /\ UNCHANGED <<rowVars, offerVars, refunded, disturbed, bounds>>

RecordWalletUnlockPayment(c) ==
  /\ At(c, "record")
  /\ Goto(c, "commit")
  /\ UNCHANGED <<rowVars, offerVars, moneyVars, disturbed, bounds>>

\* An error while recording is outside the blocks that refund.
RecordFails(c) ==
  /\ At(c, "record")
  /\ Fail(Holds(c))
  /\ Leave(c)
  /\ UNCHANGED <<rowVars, offerVars, moneyVars, started>>

\* Mobile money is applied by the write that marks the side paid.
Apply(c) == IF call[c].wallet THEN UNCHANGED charged ELSE Charge(c)

\* A call that fails refunds what it debited.
Abandon(c) == IF call[c].wallet THEN Goto(c, "payRefund") ELSE Leave(c)

\* Mutant: the update is not guarded by the side's flag.
CommitUnguarded(c) ==
  /\ At(c, "commit") /\ ~PaysForJob(c)
  /\ LET a == call[c].app
         paid == call[c].seen \cup {call[c].side}
     IN  /\ hasPaid' = [hasPaid EXCEPT ![a] = @ \cup {call[c].side}]
         /\ status' = [status EXCEPT ![a] =
              IF paid = Side THEN "UNLOCKED"
              ELSE IF "employer" \in paid THEN "PENDING_WORKER" ELSE "PENDING_EMPLOYER"]
         /\ Apply(c)
         /\ IF paid = Side
            THEN call' = [call EXCEPT ![c].pc = "accept", ![c].unlocks = {a}]
            ELSE Leave(c)
  /\ UNCHANGED <<unit, unitsLeft, offerVars, refunded, disturbed, bounds>>

\* Mutant: whoever pays second does not look at the first.
CommitUnlocksAtOnce(c) ==
  /\ At(c, "commit") /\ ~PaysForJob(c)
  /\ LET a == call[c].app IN
       IF call[c].side \notin hasPaid[a]
       THEN /\ hasPaid' = [hasPaid EXCEPT ![a] = @ \cup {call[c].side}]
            /\ status' = [status EXCEPT ![a] = "UNLOCKED"]
            /\ Apply(c)
            /\ call' = [call EXCEPT ![c].pc = "accept", ![c].unlocks = {a}]
       ELSE Abandon(c) /\ UNCHANGED <<hasPaid, status, charged>>
  /\ UNCHANGED <<unit, unitsLeft, offerVars, refunded, disturbed, bounds>>

\* commitStandardPerAttemptPayUnlock: the new status comes from what the call
\* read; the update only requires that its own side is still unpaid.
Commit(c) ==
  /\ At(c, "commit") /\ ~PaysForJob(c)
  /\ LET a == call[c].app
         paid == call[c].seen \cup {call[c].side}
     IN  IF call[c].side \notin hasPaid[a]
         THEN /\ hasPaid' = [hasPaid EXCEPT ![a] = @ \cup {call[c].side}]
              /\ status' = [status EXCEPT ![a] =
                   IF paid = Side THEN "UNLOCKED"
                   ELSE IF "employer" \in paid THEN "PENDING_WORKER"
                   ELSE "PENDING_EMPLOYER"]
              /\ Apply(c)
              /\ IF paid = Side
                 THEN call' = [call EXCEPT ![c].pc = "accept", ![c].unlocks = {a}]
                 ELSE Leave(c)
         ELSE Abandon(c) /\ UNCHANGED <<hasPaid, status, charged>>
  /\ UNCHANGED <<unit, unitsLeft, offerVars, refunded, disturbed, bounds>>

\* _handleMultiPersonEmployerPay: the job is marked paid, ...
MarkJobPaid(c) ==
  /\ At(c, "commit") /\ PaysForJob(c)
  /\ jobPaid' = TRUE
  /\ Apply(c)
  /\ Goto(c, "cascadeLoad")
  /\ UNCHANGED <<rowVars, terms, app, due, refunded, disturbed, bounds>>

\* ... the attempts the employer has not paid are read, ...
LoadUnpaidAttempts(c) ==
  /\ At(c, "cascadeLoad")
  /\ LET unpaid == {b \in Application :
                      /\ status[b] \in {"PENDING_BOTH", "PENDING_EMPLOYER"}
                      /\ "employer" \notin hasPaid[b]}
     IN  call' = [call EXCEPT ![c].pc = "cascade", ![c].todo = unpaid,
                    ![c].unlocks = {b \in unpaid : "worker" \in hasPaid[b]}]
  /\ UNCHANGED <<rowVars, offerVars, moneyVars, disturbed, bounds>>

\* ... and updated one by one, whatever became of them since.
Cascade(c, b) ==
  /\ At(c, "cascade") /\ b \in call[c].todo
  /\ hasPaid' = [hasPaid EXCEPT ![b] = @ \cup {"employer"}]
  /\ status' = [status EXCEPT ![b] =
       IF b \in call[c].unlocks THEN "UNLOCKED" ELSE "PENDING_WORKER"]
  /\ call' = [call EXCEPT ![c].todo = @ \ {b}]
  /\ UNCHANGED <<unit, unitsLeft, offerVars, moneyVars, disturbed, bounds>>

\* The attempt that was paid for counts as unlocked if its worker had paid.
EndCascade(c) ==
  /\ At(c, "cascade") /\ call[c].todo = {}
  /\ LET own == IF "worker" \in call[c].seen THEN {call[c].app} ELSE {}
         unlocked == call[c].unlocks \cup own
     IN  IF unlocked = {} THEN Leave(c)
         ELSE call' = [call EXCEPT ![c].pc = "accept", ![c].unlocks = unlocked]
  /\ UNCHANGED <<rowVars, offerVars, moneyVars, disturbed, bounds>>

\* markApplicationAcceptedAfterUnlock: one update, ...
MarkAccepted(c) ==
  /\ At(c, "accept")
  /\ app' = [b \in Application |->
       IF b \in call[c].unlocks /\ app[b] = "WAITING_PAYMENT" THEN "ACCEPTED"
       ELSE app[b]]
  /\ Goto(c, "leftovers")
  /\ UNCHANGED <<rowVars, terms, jobPaid, due, moneyVars, disturbed, bounds>>

\* ... and rejectLeftoversIfOfferFilled in a transaction of its own.
RejectLeftovers(c) ==
  /\ At(c, "leftovers")
  /\ app' = IF Cardinality(Hired) < quantity THEN app
            ELSE [b \in Application |->
                    IF app[b] = "ACCEPTED" THEN "ACCEPTED" ELSE "CLOSED"]
  /\ Leave(c)
  /\ UNCHANGED <<rowVars, terms, jobPaid, due, moneyVars, disturbed, bounds>>

\* The write fails and nothing changed.
CommitFails(c) ==
  /\ At(c, "commit")
  /\ Fail({})
  /\ Abandon(c)
  /\ UNCHANGED <<rowVars, offerVars, moneyVars, started>>

\* An error after the first write, which stays, or the death of the process.
PayInterrupted(c) ==
  /\ call[c].pc \in {"commit", "cascadeLoad", "cascade", "accept", "leftovers"}
  /\ Fail(IF PaysForJob(c) THEN Application ELSE {call[c].app})
  /\ \/ Leave(c)
     \/ ~At(c, "commit") /\ Abandon(c)
  /\ UNCHANGED <<rowVars, offerVars, moneyVars, started>>

Refund(a, s) == refunded' = [refunded EXCEPT ![<<a, s>>] = @ + 1]

RefundPayer(c) ==
  /\ At(c, "payRefund")
  /\ Refund(call[c].app, call[c].side)
  /\ Leave(c)
  /\ UNCHANGED <<rowVars, offerVars, charged, disturbed, bounds>>

\* A refund that fails is only logged.
RefundPayerFails(c) ==
  /\ At(c, "payRefund")
  /\ Fail({call[c].app})
  /\ Leave(c)
  /\ UNCHANGED <<rowVars, offerVars, moneyVars, started>>

----------------------------------------------------------------------------
(* Settling an attempt that expired or was abandoned: the row is loaded, the *)
(* refunds it calls for are made one by one, then the row is written.        *)

Settle(c, a, scan, sides) ==
  /\ call' = [call EXCEPT ![c] =
       [Idle EXCEPT !.pc = "settle", !.app = a, !.scan = scan,
          !.refunds = sides, !.release = "employer" \in sides,
          !.result = IF scan /\ sides = {} THEN "EXPIRED"
                     ELSE "CONVERTED_TO_CREDIT"]]
  /\ disturbed' =
       IF \E d \in Call \ {c} : a \in Holds(d) THEN disturbed \cup {a}
       ELSE disturbed

\* Mutant: of two that paid only the employer is refunded.
ExpiryRefundsOneSide(a) ==
  LET covered == CoveredAtJobLevel(jobPaid) IN
    IF hasPaid[a] = Side /\ ~covered THEN {"employer"}
    ELSE {s \in hasPaid[a] : s = "employer" => ~covered}

\* Both sides of a job for one person; otherwise the side that paid alone, where
\* a payment for the whole job is not the attempt's.
ExpiryRefunds(a) ==
  LET covered == CoveredAtJobLevel(jobPaid)
      worker == "worker" \in hasPaid[a]
      employer == "employer" \in hasPaid[a]
  IN  IF quantity = 1 /\ employer /\ worker THEN Side
      ELSE IF worker /\ (covered \/ ~employer) THEN {"worker"}
      ELSE IF ~covered /\ employer /\ ~worker THEN {"employer"}
      ELSE {}

\* processExpiredAttempts, for one of the attempts it loaded.
ScanExpired(c, a) ==
  /\ At(c, "idle") /\ Start
  /\ status[a] \in Pending /\ a \in due
  /\ Settle(c, a, TRUE, ExpiryRefunds(a))
  /\ UNCHANGED <<rowVars, offerVars, moneyVars, failures>>

\* The worker's cancel: the status it read decides whether the attempt is
\* abandoned, ...
Cancel(c, a) ==
  /\ At(c, "idle") /\ Start
  /\ app[a] # "CLOSED"
  /\ call' = [call EXCEPT ![c] =
       [Idle EXCEPT !.app = a,
          !.pc = IF app[a] = "WAITING_PAYMENT" THEN "cancelUnpaid" ELSE "cancel"]]
  /\ UNCHANGED <<rowVars, offerVars, moneyVars, disturbed, failures>>

\* ... whatever the transaction finds, unless it was cancelled already.
CommitCancel(c) ==
  /\ call[c].pc \in {"cancel", "cancelUnpaid"}
  /\ \/ /\ app' = [app EXCEPT ![call[c].app] = "CLOSED"]
        /\ IF At(c, "cancelUnpaid") THEN Goto(c, "abort") ELSE Leave(c)
     \/ app[call[c].app] = "CLOSED" /\ Leave(c) /\ UNCHANGED app
  /\ UNCHANGED <<rowVars, terms, jobPaid, due, moneyVars, disturbed, bounds>>

\* abortPendingUnlockByApplication gives back what each side paid, the payment
\* for the whole job excepted.
AbortRefunds(a) ==
  {s \in hasPaid[a] : s = "employer" => ~CoveredAtJobLevel(jobPaid)}

AbortPendingUnlock(c) ==
  /\ At(c, "abort")
  /\ LET a == call[c].app IN
       IF status[a] \in Pending THEN Settle(c, a, FALSE, AbortRefunds(a))
       ELSE Leave(c) /\ UNCHANGED disturbed
  /\ UNCHANGED <<rowVars, offerVars, moneyVars, bounds>>

\* Mutant: a unit given back is given back again.
ReleaseUnitAgain(a) ==
  IF unit[a] # "none"
  THEN /\ unit' = [unit EXCEPT ![a] = "released"]
       /\ unitsLeft' = IF unitsLeft < planUnits THEN unitsLeft + 1 ELSE unitsLeft
  ELSE UNCHANGED <<unit, unitsLeft>>

\* releaseUnlock: a unit is given back once.
ReleaseUnit(a) ==
  IF unit[a] = "used"
  THEN /\ unit' = [unit EXCEPT ![a] = "released"]
       /\ unitsLeft' = unitsLeft + 1
  ELSE UNCHANGED <<unit, unitsLeft>>

\* refundEmployerSide: a covered attempt cost the employer no money.  The scan
\* releases the unit at once, abandoning does in the final transaction; wallet
\* refunds are transactions of their own on both paths.
RefundEmployerSide(c) ==
  /\ At(c, "settle") /\ "employer" \in call[c].refunds
  /\ LET a == call[c].app IN
       /\ IF call[c].scan THEN ReleaseUnit(a) ELSE UNCHANGED <<unit, unitsLeft>>
       /\ IF unit[a] = "none" THEN Refund(a, "employer") ELSE UNCHANGED refunded
  /\ call' = [call EXCEPT ![c].refunds = @ \ {"employer"}]
  /\ UNCHANGED <<status, hasPaid, offerVars, charged, disturbed, bounds>>

RefundWorkerSide(c) ==
  /\ At(c, "settle") /\ call[c].refunds = {"worker"}
  /\ Refund(call[c].app, "worker")
  /\ call' = [call EXCEPT ![c].refunds = {}]
  /\ UNCHANGED <<rowVars, offerVars, charged, disturbed, bounds>>

\* The row is written whatever became of it since it was loaded.
CloseAttempt(c) ==
  /\ At(c, "settle") /\ call[c].refunds = {}
  /\ LET a == call[c].app IN
       /\ status' = [status EXCEPT ![a] = call[c].result]
       /\ IF ~call[c].scan /\ call[c].release THEN ReleaseUnit(a)
          ELSE UNCHANGED <<unit, unitsLeft>>
  /\ IF call[c].scan THEN Goto(c, "sync") ELSE Leave(c)
  /\ UNCHANGED <<hasPaid, offerVars, moneyVars, disturbed, bounds>>

SyncWaitingPayment(c) ==
  /\ At(c, "sync")
  /\ app' = IF app[call[c].app] = "WAITING_PAYMENT"
            THEN [app EXCEPT ![call[c].app] = "CLOSED"] ELSE app
  /\ Leave(c)
  /\ UNCHANGED <<rowVars, terms, jobPaid, due, moneyVars, disturbed, bounds>>

\* An error is logged and the attempt left as it is; so does a process death.
SettleInterrupted(c) ==
  /\ call[c].pc \in {"cancel", "cancelUnpaid", "abort", "settle", "sync"}
  /\ Fail(Holds(c))
  /\ Leave(c)
  /\ UNCHANGED <<rowVars, offerVars, moneyVars, started>>

----------------------------------------------------------------------------
PayStep(c) ==
  \/ \E a \in Application, s \in Side, wallet \in BOOLEAN : PayUnlock(c, a, s, wallet)
  \/ Debit(c)
  \/ RecordWalletUnlockPayment(c)
  \/ RecordFails(c)
  \/ Commit(c)
  \/ CommitFails(c)
  \/ MarkJobPaid(c)
  \/ LoadUnpaidAttempts(c)
  \/ \E b \in Application : Cascade(c, b)
  \/ EndCascade(c)
  \/ MarkAccepted(c)
  \/ RejectLeftovers(c)
  \/ PayInterrupted(c)
  \/ RefundPayer(c)
  \/ RefundPayerFails(c)

SettleStep(c) ==
  \/ \E a \in Application : ScanExpired(c, a)
  \/ \E a \in Application : Cancel(c, a)
  \/ CommitCancel(c)
  \/ AbortPendingUnlock(c)
  \/ RefundEmployerSide(c)
  \/ RefundWorkerSide(c)
  \/ CloseAttempt(c)
  \/ SyncWaitingPayment(c)
  \/ SettleInterrupted(c)

Next ==
  \/ \E c \in Call : PayStep(c) \/ SettleStep(c)
  \/ \E a \in Application : Accept(a) \/ CloseApplication(a) \/ Expire(a)

Spec == Init /\ [][Next]_vars

----------------------------------------------------------------------------
(* Properties. *)

\* The calls that work on an attempt, through to the refund of its payer.
WorksOn(c) ==
  IF At(c, "idle") THEN {}
  ELSE IF PaysForJob(c) THEN Application
  ELSE {call[c].app}

AtRest(a) == \A c \in Call : a \notin WorksOn(c)

Net(a, s) == charged[a, s] - refunded[a, s]

\* "This prevents a double-charge if two concurrent requests both pass": once no
\* call works on an attempt, one side has paid at most once for it, however
\* payments, expiry and cancellation raced; a failed call adds at most one.
\* (The employer of an offer for several people pays for the job, not here.)
ChargedOnce ==
  \A a \in Application, s \in Side :
    AtRest(a) /\ (s = "worker" \/ quantity = 1) => Net(a, s) <= 1 + failures

\* Contacts are released and hires confirmed only when both sides have paid or
\* are covered, in whatever order payments, cascades and settlements write.
ReleasedWhenPaid ==
  \A a \in Application :
    /\ status[a] = "UNLOCKED" => hasPaid[a] = Side
    /\ app[a] = "ACCEPTED" =>
         /\ "worker" \in hasPaid[a]
         /\ "employer" \in hasPaid[a] \/ CoveredAtJobLevel(jobPaid)

\* "Vous ne perdez pas votre argent": an attempt that ends without contacts has
\* given back what each side paid for it, and its plan unit; only the payment
\* for a whole job is kept.  Attempts are exempt once a settlement overlapped
\* another call on them or a call failed half-way.
SettledGivesBack ==
  \A a \in Application \ disturbed :
    status[a] \in {"EXPIRED", "CONVERTED_TO_CREDIT"} /\ AtRest(a) =>
      /\ Net(a, "worker") = 0
      /\ \/ Net(a, "employer") = 0 /\ unit[a] # "used"
         \/ CoveredAtJobLevel(jobPaid)

\* Nobody gets a contact for free: with the same exemption, an unlocked attempt
\* was paid by its worker and by its employer, by the plan or for the job.
UnlockedIsFunded ==
  \A a \in Application \ disturbed :
    status[a] = "UNLOCKED" /\ AtRest(a) =>
      /\ Net(a, "worker") = 1
      /\ Net(a, "employer") = 1 \/ unit[a] = "used" \/ CoveredAtJobLevel(jobPaid)

\* "Quand les deux ont payé, les coordonnées sont envoyées aux deux": once both
\* sides have paid and no call is under way, the attempt is not left pending.
BothPaidUnlocks ==
  \A a \in Application :
    hasPaid[a] = Side /\ AtRest(a) => status[a] \notin Pending

\* The unlocks left in the plan are those it had less the ones in use.
PlanUnitsCounted ==
  unitsLeft = planUnits - Cardinality({a \in Application : unit[a] = "used"})
==========================================================================
