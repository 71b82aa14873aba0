-------------------------- MODULE PenaltyBilling --------------------------
(***************************************************************************)
(* One worker's penalties: how they are created, paid from the wallet, by  *)
(* mobile money or outside the platform, archived and restored, and what   *)
(* they do to the billing status and to the account.                       *)
(*                                                                         *)
(* A database transaction whose work depends on what it counted is two     *)
(* steps: its statements, then its commit.  Until the commit nothing it    *)
(* wrote is visible (read committed) and the rows it wrote are locked.     *)
(* Every other await is a step boundary too.                               *)
(***************************************************************************)
EXTENDS Integers, FiniteSets, FiniteSetsExt

CONSTANTS
  Penalty,             \* penalty rows, some not created yet
  Caller,              \* concurrent calls of any operation below
  Amount,              \* what each penalty costs
  InitialWallet,       \* the worker's wallet
  InitialPhone,        \* the worker's mobile-money balance
  BlockThreshold,      \* fees.billing_block_threshold
  SuspensionThreshold, \* fees.penalty_suspension_threshold
  Operations,          \* bound: the operations the environment calls
  MaxInterruptions     \* bound: calls that die or fail half-way

ASSUME PenaltyAssumption ==
  /\ IsFiniteSet(Penalty)
  /\ Amount \in [Penalty -> Nat \ {0}]
  /\ InitialWallet \in Nat /\ InitialPhone \in Nat
  /\ BlockThreshold \in Nat \ {0} /\ SuspensionThreshold \in Nat \ {0}
  /\ MaxInterruptions \in Nat

VARIABLES
  row,       \* "ABSENT", or whether penalties.paid_at is set
  archived,  \* penalties with deleted_at set
  charged,   \* times money was taken, or a payment reported, for a penalty
  claims,    \* times payPenaltyFromWallet or a confirmation booked a penalty
  wallet, phone,
  waived,    \* history: penalties cleared beyond what a payment was priced for
  billing,   \* profiles.billing_status
  account,   \* profiles.status (SUSPENDED: with source UNPAID_PENALTIES)
  call, interruptions

moneyVars == <<charged, claims, wallet, phone, waived>>
profileVars == <<billing, account>>
vars == <<row, archived, moneyVars, profileVars, call, interruptions>>

Billing == {"CLEAR", "PENDING_PAYMENT", "BLOCKED"}
Label ==
  {"idle", "paying", "listed", "debited", "settlingAll", "priced", "charging",
   "charged", "settlingPriced", "confirming", "archiving", "resyncing",
   "resynced", "created", "penalising", "penalised", "suspending", "paidOutside",
   "reported", "reactivating"}
\* beyond: what the settlement of a link without ids may clear that was not priced.
CallState ==
  [pc : Label, penalties : SUBSET Penalty, unpaid : Nat, beyond : SUBSET Penalty]
Idle == [pc |-> "idle", penalties |-> {}, unpaid |-> 0, beyond |-> {}]

TypeOK ==
  /\ row \in [Penalty -> {"ABSENT", "UNPAID", "PAID"}]
  /\ archived \in SUBSET Penalty
  /\ charged \in [Penalty -> Nat] /\ claims \in [Penalty -> Nat]
  /\ wallet \in Nat /\ phone \in Nat
  /\ waived \in SUBSET Penalty
  /\ billing \in Billing
  /\ account \in {"ACTIVE", "SUSPENDED"}
  /\ call \in [Caller -> CallState]
  /\ interruptions \in 0 .. MaxInterruptions

Init ==
  /\ row = [p \in Penalty |-> "ABSENT"]
  /\ archived = {}
  /\ charged = [p \in Penalty |-> 0] /\ claims = [p \in Penalty |-> 0]
  /\ wallet = InitialWallet /\ phone = InitialPhone
  /\ waived = {}
  /\ billing = "CLEAR" /\ account = "ACTIVE"
  /\ call = [c \in Caller |-> Idle]
  /\ interruptions = 0

----------------------------------------------------------------------------
(* What is owed, what is locked, and the status each service derives. *)

Owed(p) == row[p] = "UNPAID" /\ p \notin archived
OwedSet == {p \in Penalty : Owed(p)}
Total(S) == MapThenSumSet(LAMBDA p : Amount[p], S)

At(c, label) == call[c].pc = label
Proceed(c, label, S, n, B) ==
  call' = [call EXCEPT
             ![c] = [pc |-> label, penalties |-> S, unpaid |-> n, beyond |-> B]]
Goto(c, label, S, n) == Proceed(c, label, S, n, {})
Return(c) == call' = [call EXCEPT ![c] = Idle]

InTransaction(c) ==
  call[c].pc \in {"paying", "settlingAll", "settlingPriced", "penalising"}
Unlocked(S) == \A c \in Caller : InTransaction(c) => call[c].penalties \cap S = {}
WalletUnlocked == \A c \in Caller : ~At(c, "paying")
\* A late cancellation lowers the score, so it locks the profile before it counts.
ProfileUnlocked == \A c \in Caller : ~At(c, "penalising")

\* recomputeBillingStatus, syncBillingStatus and handlePenaltyPostPayment.
BillingFor(n) ==
  IF n = 0 THEN "CLEAR"
  ELSE IF n >= BlockThreshold THEN "BLOCKED" ELSE "PENDING_PAYMENT"

\* The admin service's derivation.
ResyncFor(n) == IF n = 0 THEN "CLEAR" ELSE "PENDING_PAYMENT"

MarkPaid(S) == row' = [p \in Penalty |-> IF p \in S THEN "PAID" ELSE row[p]]
Plus(f, S) == [p \in Penalty |-> f[p] + (IF p \in S THEN 1 ELSE 0)]
Charge(S) == charged' = Plus(charged, S)
Claim(S) == Charge(S) /\ claims' = Plus(claims, S)

----------------------------------------------------------------------------
(* payPenaltyFromWallet: claim, debit and recount in one transaction. *)

\* Mutant: the balance is not a condition of the debit.
PayPenaltyUnfunded(c, p) ==
  /\ "payPenalty" \in Operations /\ At(c, "idle")
  /\ Owed(p)
  /\ Unlocked({p}) /\ WalletUnlocked
  /\ Goto(c, "paying", {p}, Cardinality(OwedSet \ {p}))
  /\ UNCHANGED <<row, archived, moneyVars, profileVars, interruptions>>

PayPenalty(c, p) ==
  /\ "payPenalty" \in Operations /\ At(c, "idle")
  /\ Owed(p) /\ wallet >= Amount[p]
  /\ Unlocked({p}) /\ WalletUnlocked
  /\ Goto(c, "paying", {p}, Cardinality(OwedSet \ {p}))
  /\ UNCHANGED <<row, archived, moneyVars, profileVars, interruptions>>

CommitPayPenalty(c) ==
  /\ At(c, "paying") /\ ProfileUnlocked
  /\ MarkPaid(call[c].penalties) /\ Claim(call[c].penalties)
  /\ wallet' = wallet - Total(call[c].penalties)
  /\ billing' = BillingFor(call[c].unpaid)
  /\ Return(c)
  /\ UNCHANGED <<archived, phone, waived, account, interruptions>>

----------------------------------------------------------------------------
(* payAllPenaltiesWithWallet: list, debit in one transaction, settle in the *)
(* next.                                                                    *)

ListUnpaid(c) ==
  /\ "payAll" \in Operations /\ At(c, "idle")
  /\ OwedSet # {}
  /\ Goto(c, "listed", OwedSet, 0)
  /\ UNCHANGED <<row, archived, moneyVars, profileVars, interruptions>>

DebitAll(c) ==
  /\ At(c, "listed") /\ WalletUnlocked
  /\ LET S == call[c].penalties IN
       IF wallet >= Total(S)
       THEN /\ wallet' = wallet - Total(S)
            /\ Charge(S)
            /\ Goto(c, "debited", S, 0)
       ELSE Return(c) /\ UNCHANGED <<wallet, charged>>
  /\ UNCHANGED <<row, archived, claims, phone, waived, profileVars, interruptions>>

SettleAll(c) ==
  /\ At(c, "debited") /\ Unlocked(call[c].penalties)
  /\ Goto(c, "settlingAll", call[c].penalties, Cardinality(OwedSet \ call[c].penalties))
  /\ UNCHANGED <<row, archived, moneyVars, profileVars, interruptions>>

CommitSettleAll(c) ==
  /\ At(c, "settlingAll") /\ ProfileUnlocked
  /\ MarkPaid(call[c].penalties)
  /\ billing' = BillingFor(call[c].unpaid)
  /\ Return(c)
  /\ UNCHANGED <<archived, moneyVars, account, interruptions>>

----------------------------------------------------------------------------
(* A payment link: priced for what is owed, started only if all of it still *)
(* is, approved on the payer's phone later, then settled.  Links made before *)
(* requests carried the ids of their penalties are not checked, and settle   *)
(* every penalty dated before them.                                          *)

PriceRequest(c) ==
  /\ "gateway" \in Operations /\ At(c, "idle")
  /\ OwedSet # {}
  /\ Goto(c, "priced", OwedSet, 0)
  /\ UNCHANGED <<row, archived, moneyVars, profileVars, interruptions>>

\* created_at is the start of the transaction that inserts the row.
Dated(p) ==
  \/ row[p] # "ABSENT"
  \/ \E d \in Caller : At(d, "penalising") /\ p \in call[d].penalties

PriceWithoutIds(c) ==
  /\ "oldLink" \in Operations /\ At(c, "idle")
  /\ OwedSet # {}
  /\ Proceed(c, "charging", OwedSet, 0, {p \in Penalty : Dated(p)} \ OwedSet)
  /\ UNCHANGED <<row, archived, moneyVars, profileVars, interruptions>>

StartPayment(c) ==
  /\ At(c, "priced")
  /\ IF call[c].penalties \subseteq OwedSet
     THEN Goto(c, "charging", call[c].penalties, 0)
     ELSE Return(c)
  /\ UNCHANGED <<row, archived, moneyVars, profileVars, interruptions>>

CollectPayment(c) ==
  /\ At(c, "charging")
  /\ LET S == call[c].penalties IN
       \/ /\ phone >= Total(S)
          /\ phone' = phone - Total(S)
          /\ Charge(S)
          /\ Proceed(c, "charged", S, 0, call[c].beyond)
       \/ Return(c) /\ UNCHANGED <<phone, charged>>
  /\ UNCHANGED <<row, archived, claims, wallet, waived, profileVars, interruptions>>

\* Mutant: the link settles whatever the profile owes when it is paid.
PricedForEverything(c) == OwedSet

\* What handlePenaltyPostPayment marks paid: of the penalties the ids name, or of
\* those dated before a link without ids, the ones owed now.
PricedPenalties(c) == (call[c].penalties \cup call[c].beyond) \cap OwedSet

SettlePriced(c) ==
  /\ At(c, "charged") /\ Unlocked(PricedPenalties(c))
  /\ Proceed(c, "settlingPriced", PricedPenalties(c),
             Cardinality(OwedSet \ PricedPenalties(c)), call[c].beyond)
  /\ UNCHANGED <<row, archived, moneyVars, profileVars, interruptions>>

\* History: what the open settlement of c clears though it was not priced for it.
WaivedBy(c) == call[c].penalties \cap call[c].beyond

\* Mutant: the billing status is left for later.
SettleWithoutRecompute(c) ==
  /\ At(c, "settlingPriced") /\ ProfileUnlocked
  /\ MarkPaid(call[c].penalties) /\ waived' = waived \cup WaivedBy(c)
  /\ Return(c)
  /\ UNCHANGED <<archived, charged, claims, wallet, phone, profileVars, interruptions>>

CommitSettlePriced(c) ==
  /\ At(c, "settlingPriced") /\ ProfileUnlocked
  /\ MarkPaid(call[c].penalties) /\ waived' = waived \cup WaivedBy(c)
  /\ billing' = BillingFor(call[c].unpaid)
  /\ Return(c)
  /\ UNCHANGED <<archived, charged, claims, wallet, phone, account, interruptions>>

----------------------------------------------------------------------------
(* confirmPenaltyPaymentByAdmin: check, transaction, recount, write. *)

StartConfirm(c, p) ==
  /\ "confirm" \in Operations /\ At(c, "idle")
  /\ row[p] = "UNPAID"
  /\ Goto(c, "confirming", {p}, 0)
  /\ UNCHANGED <<row, archived, moneyVars, profileVars, interruptions>>

\* Mutant: the settlement inside the transaction is unconditional.
ConfirmTwice(c) ==
  /\ At(c, "confirming") /\ Unlocked(call[c].penalties)
  /\ MarkPaid(call[c].penalties) /\ Claim(call[c].penalties)
  /\ Goto(c, "resyncing", {}, 0)
  /\ UNCHANGED <<archived, wallet, phone, waived, profileVars, interruptions>>

Confirm(c) ==
  /\ At(c, "confirming") /\ Unlocked(call[c].penalties)
  /\ IF call[c].penalties \subseteq OwedSet
     THEN /\ MarkPaid(call[c].penalties) /\ Claim(call[c].penalties)
                  /\ Goto(c, "resyncing", {}, 0)
     ELSE Return(c) /\ UNCHANGED <<row, charged, claims>>
  /\ UNCHANGED <<archived, wallet, phone, waived, profileVars, interruptions>>

CountForResync(c) ==
  /\ At(c, "resyncing")
  /\ Goto(c, "resynced", {}, Cardinality(OwedSet))
  /\ UNCHANGED <<row, archived, moneyVars, profileVars, interruptions>>

WriteResync(c) ==
  /\ At(c, "resynced") /\ ProfileUnlocked
  /\ billing' = ResyncFor(call[c].unpaid)
  /\ Return(c)
  /\ UNCHANGED <<row, archived, moneyVars, account, interruptions>>

----------------------------------------------------------------------------
(* Penalties an admin creates, archives and restores. *)

CreatePenalty(c, p) ==
  /\ "create" \in Operations /\ At(c, "idle")
  /\ row[p] = "ABSENT" /\ Unlocked({p})
  /\ row' = [row EXCEPT ![p] = "UNPAID"]
  /\ Goto(c, "created", {}, 0)
  /\ UNCHANGED <<archived, moneyVars, profileVars, interruptions>>

FlagCreated(c) ==
  /\ At(c, "created") /\ ProfileUnlocked
  /\ billing' = "PENDING_PAYMENT"
  /\ Return(c)
  /\ UNCHANGED <<row, archived, moneyVars, account, interruptions>>

\* deletePenalty and bulkSoftDeletePenalties select first and write by id later.
StartArchive(c) ==
  /\ "archive" \in Operations /\ At(c, "idle")
  /\ \E S \in SUBSET OwedSet \ {{}} : Goto(c, "archiving", S, 0)
  /\ UNCHANGED <<row, archived, moneyVars, profileVars, interruptions>>

Archive(c) ==
  /\ At(c, "archiving") /\ Unlocked(call[c].penalties)
  /\ archived' = archived \cup call[c].penalties
  /\ Goto(c, "resyncing", {}, 0)
  /\ UNCHANGED <<row, moneyVars, profileVars, interruptions>>

Restore(c) ==
  /\ "restore" \in Operations /\ At(c, "idle")
  /\ \E S \in SUBSET archived \ {{}} :
       Unlocked(S) /\ archived' = archived \ S
  /\ Goto(c, "resyncing", {}, 0)
  /\ UNCHANGED <<row, moneyVars, profileVars, interruptions>>

----------------------------------------------------------------------------
(* cancel, when it is late: the penalty and the billing status in one        *)
(* transaction, then a second count that may suspend the account.            *)

Penalise(c, p) ==
  /\ "cancel" \in Operations /\ At(c, "idle")
  /\ row[p] = "ABSENT" /\ Unlocked({p}) /\ ProfileUnlocked
  /\ Goto(c, "penalising", {p}, Cardinality(OwedSet \cup {p}))
  /\ UNCHANGED <<row, archived, moneyVars, profileVars, interruptions>>

CommitPenalise(c) ==
  /\ At(c, "penalising")
  /\ row' = [p \in Penalty |-> IF p \in call[c].penalties THEN "UNPAID" ELSE row[p]]
  /\ billing' = BillingFor(call[c].unpaid)
  /\ Goto(c, "penalised", {}, 0)
  /\ UNCHANGED <<archived, moneyVars, account, interruptions>>

\* Mutant: the account is suspended above the threshold only.
CountAboveThreshold(c) ==
  /\ At(c, "penalised")
  /\ IF Cardinality(OwedSet) > SuspensionThreshold
     THEN Goto(c, "suspending", {}, 0)
     ELSE Return(c)
  /\ UNCHANGED <<row, archived, moneyVars, profileVars, interruptions>>

CountForSuspension(c) ==
  /\ At(c, "penalised")
  /\ IF Cardinality(OwedSet) >= SuspensionThreshold
     THEN Goto(c, "suspending", {}, 0)
     ELSE Return(c)
  /\ UNCHANGED <<row, archived, moneyVars, profileVars, interruptions>>

Suspend(c) ==
  /\ At(c, "suspending") /\ ProfileUnlocked
  /\ account' = "SUSPENDED"
  /\ Return(c)
  /\ UNCHANGED <<row, archived, moneyVars, billing, interruptions>>

----------------------------------------------------------------------------
(* The penalty page outside the platform: its link carries the amount owed,  *)
(* and handlePenaltyPaymentSuccess, the webhook that later reports it paid,  *)
(* is told the profile alone and marks whatever is owed by then.             *)

PayOutside(c) ==
  /\ "webhook" \in Operations /\ At(c, "idle")
  /\ OwedSet # {} /\ phone >= Total(OwedSet)
  /\ phone' = phone - Total(OwedSet)
  /\ Charge(OwedSet)
  /\ Goto(c, "paidOutside", OwedSet, 0)
  /\ UNCHANGED <<row, archived, claims, wallet, waived, profileVars, interruptions>>

ReportPaid(c) ==
  /\ At(c, "paidOutside") /\ Unlocked(OwedSet)
  /\ MarkPaid(OwedSet)
  /\ waived' = waived \cup (OwedSet \ call[c].penalties)
  /\ Goto(c, "reported", {}, 0)
  /\ UNCHANGED <<archived, charged, claims, wallet, phone, profileVars, interruptions>>

CountRemaining(c) ==
  /\ At(c, "reported")
  /\ IF OwedSet = {} THEN Goto(c, "reactivating", {}, 0) ELSE Return(c)
  /\ UNCHANGED <<row, archived, moneyVars, profileVars, interruptions>>

Reactivate(c) ==
  /\ At(c, "reactivating") /\ ProfileUnlocked
  /\ account' = "ACTIVE"
  /\ Return(c)
  /\ UNCHANGED <<row, archived, moneyVars, billing, interruptions>>

----------------------------------------------------------------------------
\* A process dies, a statement fails or a deadlocked transaction is rolled
\* back: what was committed stays, the rest of the call never happens.
Interrupt(c) ==
  /\ ~At(c, "idle") /\ interruptions < MaxInterruptions
  /\ interruptions' = interruptions + 1
  /\ Return(c)
  /\ UNCHANGED <<row, archived, moneyVars, profileVars>>

WalletStep(c) ==
  \/ \E p \in Penalty : PayPenalty(c, p)
  \/ CommitPayPenalty(c)
  \/ ListUnpaid(c) \/ DebitAll(c) \/ SettleAll(c) \/ CommitSettleAll(c)

GatewayStep(c) ==
  \/ PriceRequest(c) \/ PriceWithoutIds(c) \/ StartPayment(c) \/ CollectPayment(c)
  \/ SettlePriced(c) \/ CommitSettlePriced(c)
  \/ PayOutside(c) \/ ReportPaid(c) \/ CountRemaining(c) \/ Reactivate(c)

AdminStep(c) ==
  \/ \E p \in Penalty : StartConfirm(c, p) \/ CreatePenalty(c, p)
  \/ Confirm(c) \/ CountForResync(c) \/ WriteResync(c) \/ FlagCreated(c)
  \/ StartArchive(c) \/ Archive(c) \/ Restore(c)

CancelStep(c) ==
  \/ \E p \in Penalty : Penalise(c, p)
  \/ CommitPenalise(c) \/ CountForSuspension(c) \/ Suspend(c)

Next ==
  \E c \in Caller :
    WalletStep(c) \/ GatewayStep(c) \/ AdminStep(c) \/ CancelStep(c) \/ Interrupt(c)

Spec == Init /\ [][Next]_vars

----------------------------------------------------------------------------
(* Properties. *)

Quiescent == \A c \in Caller : At(c, "idle")

\* However wallet payments of one penalty and manual confirmations race each other
\* and every other operation, a penalty is booked by at most one of them: the
\* guards "already settled" of payPenaltyFromWallet and confirmPenaltyPaymentManually.
ClaimedOnce == \A p \in Penalty : claims[p] <= 1

\* Whatever pays for it, a penalty is charged once.
ChargedOnce == \A p \in Penalty : charged[p] <= 1

\* Every penalty marked paid was paid for: the wallet, a confirmation and a link
\* clear only what they charged, never a penalty issued in between (payAll's list,
\* pricedPenalties).  Exempt is what two settlements clear beyond their price: the
\* webhook, whatever was issued or restored since the payment it reports, and a
\* link without ids, what was archived or uncommitted when it was made.
NothingClearedForFree ==
  \A p \in Penalty : row[p] = "PAID" => charged[p] > 0 \/ p \in waived

\* Whenever calls run one after another, the billing status says what is still
\* unpaid: CLEAR, BLOCKED from the threshold on, PENDING_PAYMENT in between.
BillingFollowsDebt == Quiescent => billing = BillingFor(Cardinality(OwedSet))

\* A worker whose late cancellations bring the unpaid penalties to the suspension
\* threshold is suspended by then.
ThresholdSuspends ==
  Quiescent /\ Cardinality(OwedSet) >= SuspensionThreshold => account = "SUSPENDED"

----------------------------------------------------------------------------
(* What the proofs rest on. *)

\* A call that settles, settles what it charged, or what its link may clear besides.
SettlersHavePaid ==
  \A c \in Caller :
    /\ call[c].pc \in {"debited", "settlingAll", "charged", "paidOutside"} =>
         \A p \in call[c].penalties : charged[p] > 0
    /\ At(c, "settlingPriced") =>
         \A p \in call[c].penalties : charged[p] > 0 \/ p \in call[c].beyond

\* Only the webhook and links without ids clear anything beyond their price.
OnlyUnboundedWaive ==
  /\ waived # {} => Operations \cap {"oldLink", "webhook"} # {}
  /\ \A c \in Caller :
       /\ call[c].beyond # {} => "oldLink" \in Operations
       /\ At(c, "paidOutside") => "webhook" \in Operations

\* Open transactions lock disjoint penalties, one at a time pays from the wallet.
LocksAreDisjoint ==
  \A c, d \in Caller :
    c # d /\ InTransaction(c) /\ InTransaction(d) =>
      call[c].penalties \cap call[d].penalties = {}

\* Only paid penalties were claimed, and what a call is paying or creating is
\* still unpaid or absent.
ClaimsArePaid ==
  /\ \A p \in Penalty : row[p] # "PAID" => claims[p] = 0
  /\ \A c \in Caller : At(c, "paying") =>
       \A p \in call[c].penalties : row[p] = "UNPAID"
  /\ \A c \in Caller : At(c, "penalising") =>
       \A p \in call[c].penalties : row[p] = "ABSENT"
==========================================================================
