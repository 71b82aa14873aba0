------------------------ MODULE MobileMoneyPayout ------------------------
(***************************************************************************)
(* Money an admin sends from the gateway account to a mobile-money number. *)
(* The dialog's request id is unique, so a payout row stands for one       *)
(* dialog; the gateway makes at most one transfer per row and the row's id *)
(* names it.  Concurrent submissions of a dialog, gateway callbacks,       *)
(* manual refreshes and the reconciliation of stale rows interleave at     *)
(* every await.                                                            *)
(***************************************************************************)
EXTENDS Integers, FiniteSets

CONSTANTS
  Payout,        \* dialogs, by client_request_id
  Sender,        \* concurrent calls of send
  Settler,       \* concurrent callbacks, refreshes and reconciliations
  Amount,        \* what each dialog sends
  InitialLedger, \* opening balance of the MOBILE_MONEY wallet
  InitialFunds,  \* opening balance of the gateway account
  MaxWithdrawals,\* bound: manual withdrawals of one franc
  MaxDbErrors,   \* bound: database errors while a gateway reference is stored
  MaxCrashes,    \* bound: process deaths
  NoPayout       \* null

ASSUME PayoutAssumption ==
  /\ NoPayout \notin Payout
  /\ Amount \in [Payout -> Nat \ {0}]
  /\ InitialLedger \in Nat /\ InitialFunds \in Nat
  /\ MaxWithdrawals \in Nat /\ MaxDbErrors \in Nat /\ MaxCrashes \in Nat

VARIABLES
  status,        \* mobile_money_payouts.status ("ABSENT": no row yet)
  refStored,     \* whether gateway_ref is set
  transfer,      \* the gateway's record of the payout
  gatewayFunds,  \* the gateway account's live balance
  ledger,        \* balance of the MOBILE_MONEY wallet
  debits,        \* MOBILE_MONEY_WITHDRAWAL ledger rows per payout
  sends,         \* times the gateway was asked to send, per payout
  sender, settler,
  withdrawals, dbErrors, crashes

rowVars == <<status, refStored>>
gatewayVars == <<transfer, gatewayFunds, sends>>
ledgerVars == <<ledger, debits>>
bounds == <<withdrawals, dbErrors, crashes>>
vars == <<rowVars, gatewayVars, ledgerVars, sender, settler, bounds>>

Status == {"ABSENT", "PENDING", "COMPLETED", "FAILED"}
TransferState == {"NONE", "LOST", "PENDING", "COMPLETED", "FAILED"}
Seen == {"PENDING", "COMPLETED", "FAILED"}

SenderState == [pc : {"idle", "ledgerOk", "covered", "created", "accepted", "failing"},
                payout : Payout \cup {NoPayout}]
SettlerState == [pc : {"idle", "settling"}, payout : Payout \cup {NoPayout},
                 seen : Seen]

IdleSender == [pc |-> "idle", payout |-> NoPayout]
IdleSettler == [pc |-> "idle", payout |-> NoPayout, seen |-> "PENDING"]

TypeOK ==
  /\ status \in [Payout -> Status]
  /\ refStored \in [Payout -> BOOLEAN]
  /\ transfer \in [Payout -> TransferState]
  /\ gatewayFunds \in Nat
  /\ ledger \in Int
  /\ debits \in [Payout -> Nat]
  /\ sends \in [Payout -> Nat]
  /\ sender \in [Sender -> SenderState]
  /\ settler \in [Settler -> SettlerState]
  /\ withdrawals \in 0 .. MaxWithdrawals
  /\ dbErrors \in 0 .. MaxDbErrors
  /\ crashes \in 0 .. MaxCrashes

Init ==
  /\ status = [p \in Payout |-> "ABSENT"]
  /\ refStored = [p \in Payout |-> FALSE]
  /\ transfer = [p \in Payout |-> "NONE"]
  /\ gatewayFunds = InitialFunds
  /\ ledger = InitialLedger
  /\ debits = [p \in Payout |-> 0]
  /\ sends = [p \in Payout |-> 0]
  /\ sender = [s \in Sender |-> IdleSender]
  /\ settler = [k \in Settler |-> IdleSettler]
  /\ withdrawals = 0 /\ dbErrors = 0 /\ crashes = 0

----------------------------------------------------------------------------
(* send. *)

At(s, label) == sender[s].pc = label
Goto(s, label) == sender' = [sender EXCEPT ![s].pc = label]
Leave(s) == sender' = [sender EXCEPT ![s] = IdleSender]

\* A dialog already submitted is answered from its row; otherwise the ledger
\* must cover the amount at this moment.
CheckLedger(s, p) ==
  /\ At(s, "idle")
  /\ status[p] = "ABSENT"
  /\ ledger >= Amount[p]
  /\ sender' = [sender EXCEPT ![s] = [pc |-> "ledgerOk", payout |-> p]]
  /\ UNCHANGED <<rowVars, gatewayVars, ledgerVars, settler, bounds>>

\* So must the gateway's live balance; an error or a shortage ends the call.
CheckGatewayBalance(s) ==
  /\ At(s, "ledgerOk")
  /\ \/ gatewayFunds >= Amount[sender[s].payout] /\ Goto(s, "covered")
     \/ Leave(s)
  /\ UNCHANGED <<rowVars, gatewayVars, ledgerVars, settler, bounds>>

\* Mutant: client_request_id is not unique.
CreateRowAgain(s) ==
  /\ At(s, "covered")
  /\ status' = [status EXCEPT ![sender[s].payout] = "PENDING"]
  /\ Goto(s, "created")
  /\ UNCHANGED <<refStored, gatewayVars, ledgerVars, settler, bounds>>

\* The unique client_request_id lets one submission of a dialog through.
CreateRow(s) ==
  /\ At(s, "covered")
  /\ LET p == sender[s].payout IN
       IF status[p] = "ABSENT"
       THEN /\ status' = [status EXCEPT ![p] = "PENDING"]
            /\ Goto(s, "created")
       ELSE Leave(s) /\ UNCHANGED status
  /\ UNCHANGED <<refStored, gatewayVars, ledgerVars, settler, bounds>>

\* The gateway takes the payout and reserves the money, or the call is lost
\* without an answer; both return a reference.
InitiatePayout(s) ==
  /\ At(s, "created")
  /\ LET p == sender[s].payout IN
       /\ \/ /\ gatewayFunds >= Amount[p]
             /\ transfer' = [transfer EXCEPT ![p] = "PENDING"]
             /\ gatewayFunds' = gatewayFunds - Amount[p]
          \/ /\ transfer' = [transfer EXCEPT ![p] = "LOST"]
             /\ UNCHANGED gatewayFunds
       /\ sends' = [sends EXCEPT ![p] = @ + 1]
  /\ Goto(s, "accepted")
  /\ UNCHANGED <<rowVars, ledgerVars, settler, bounds>>

PayoutRefused(s) ==
  /\ At(s, "created")
  /\ sends' = [sends EXCEPT ![sender[s].payout] = @ + 1]
  /\ Goto(s, "failing")
  /\ UNCHANGED <<rowVars, transfer, gatewayFunds, ledgerVars, settler, bounds>>

StoreRef(s) ==
  /\ At(s, "accepted")
  /\ refStored' = [refStored EXCEPT ![sender[s].payout] = TRUE]
  /\ Leave(s)
  /\ UNCHANGED <<status, gatewayVars, ledgerVars, settler, bounds>>

\* The update of gateway_ref fails, before or after it took effect: the same
\* catch block as a refusal.
StoreRefError(s) ==
  /\ At(s, "accepted")
  /\ dbErrors < MaxDbErrors
  /\ dbErrors' = dbErrors + 1
  /\ \E b \in BOOLEAN : refStored' = [refStored EXCEPT ![sender[s].payout] = b]
  /\ Goto(s, "failing")
  /\ UNCHANGED <<status, gatewayVars, ledgerVars, settler, withdrawals, crashes>>

\* Unconditional.
MarkFailed(s) ==
  /\ At(s, "failing")
  /\ status' = [status EXCEPT ![sender[s].payout] = "FAILED"]
  /\ Leave(s)
  /\ UNCHANGED <<refStored, gatewayVars, ledgerVars, settler, bounds>>

----------------------------------------------------------------------------
(* The gateway (external). *)

\* A failed transfer gives the reserved money back.
SettleTransfer(p) ==
  /\ transfer[p] = "PENDING"
  /\ \/ /\ transfer' = [transfer EXCEPT ![p] = "COMPLETED"]
        /\ UNCHANGED gatewayFunds
     \/ /\ transfer' = [transfer EXCEPT ![p] = "FAILED"]
        /\ gatewayFunds' = gatewayFunds + Amount[p]
  /\ UNCHANGED <<rowVars, sends, ledgerVars, sender, settler, bounds>>

\* An error reads as PENDING, an unknown payout as FAILED.
CheckPayoutStatus(p) ==
  {"PENDING"} \cup (IF transfer[p] = "LOST" THEN {"FAILED"} ELSE {transfer[p]})

----------------------------------------------------------------------------
(* refresh, handleCallback and reconcileStale: each loads a PENDING row with *)
(* a reference, asks the gateway and settles.                                *)

\* Mutant: a row whose reference is not stored yet is checked too.
LoadPendingWithoutRef(k, p) ==
  /\ settler[k].pc = "idle"
  /\ status[p] = "PENDING"
  /\ \E v \in CheckPayoutStatus(p) :
       settler' = [settler EXCEPT ![k] =
                     [pc |-> "settling", payout |-> p, seen |-> v]]
  /\ UNCHANGED <<rowVars, gatewayVars, ledgerVars, sender, bounds>>

LoadPending(k, p) ==
  /\ settler[k].pc = "idle"
  /\ status[p] = "PENDING" /\ refStored[p]
  /\ \E v \in CheckPayoutStatus(p) :
       settler' = [settler EXCEPT ![k] =
                     [pc |-> "settling", payout |-> p, seen |-> v]]
  /\ UNCHANGED <<rowVars, gatewayVars, ledgerVars, sender, bounds>>

\* Mutant: the debit does not depend on the claim.
SettleWithoutClaim(k) ==
  /\ settler[k].pc = "settling"
  /\ settler' = [settler EXCEPT ![k] = IdleSettler]
  /\ LET p == settler[k].payout
         v == settler[k].seen
     IN  \/ /\ v = "COMPLETED"
            /\ status' = [status EXCEPT ![p] = v]
            /\ ledger' = ledger - Amount[p]
            /\ debits' = [debits EXCEPT ![p] = @ + 1]
         \/ v # "COMPLETED" /\ UNCHANGED <<status, ledgerVars>>
  /\ UNCHANGED <<refStored, gatewayVars, sender, bounds>>

\* Mutant: anything but COMPLETED counts as a failure.
SettlePendingAsFailed(k) ==
  /\ settler[k].pc = "settling"
  /\ settler' = [settler EXCEPT ![k] = IdleSettler]
  /\ LET p == settler[k].payout
         v == settler[k].seen
     IN  IF status[p] # "PENDING" THEN UNCHANGED <<status, ledgerVars>>
         ELSE IF v = "COMPLETED"
         THEN /\ status' = [status EXCEPT ![p] = v]
              /\ ledger' = ledger - Amount[p]
              /\ debits' = [debits EXCEPT ![p] = @ + 1]
         ELSE status' = [status EXCEPT ![p] = "FAILED"] /\ UNCHANGED ledgerVars
  /\ UNCHANGED <<refStored, gatewayVars, sender, bounds>>

\* settle: the claim PENDING -> COMPLETED and the debit are one transaction.
Settle(k) ==
  /\ settler[k].pc = "settling"
  /\ settler' = [settler EXCEPT ![k] = IdleSettler]
  /\ LET p == settler[k].payout
         v == settler[k].seen
     IN  IF status[p] = "PENDING" /\ v # "PENDING"
         THEN /\ status' = [status EXCEPT ![p] = v]
              /\ IF v = "COMPLETED"
                 THEN /\ ledger' = ledger - Amount[p]
                      /\ debits' = [debits EXCEPT ![p] = @ + 1]
                 ELSE UNCHANGED ledgerVars
         ELSE UNCHANGED <<status, ledgerVars>>
  /\ UNCHANGED <<refStored, gatewayVars, sender, bounds>>

----------------------------------------------------------------------------
(* recordMobileMoneyWithdrawal: an admin records a withdrawal made by hand. *)

RecordMobileMoneyWithdrawal ==
  /\ withdrawals < MaxWithdrawals
  /\ ledger >= 1
  /\ ledger' = ledger - 1
  /\ withdrawals' = withdrawals + 1
  /\ UNCHANGED <<rowVars, gatewayVars, debits, sender, settler, dbErrors, crashes>>

CrashSender(s) ==
  /\ ~At(s, "idle")
  /\ crashes < MaxCrashes
  /\ crashes' = crashes + 1
  /\ Leave(s)
  /\ UNCHANGED <<rowVars, gatewayVars, ledgerVars, settler, withdrawals, dbErrors>>

CrashSettler(k) ==
  /\ settler[k].pc # "idle"
  /\ crashes < MaxCrashes
  /\ crashes' = crashes + 1
  /\ settler' = [settler EXCEPT ![k] = IdleSettler]
  /\ UNCHANGED <<rowVars, gatewayVars, ledgerVars, sender, withdrawals, dbErrors>>

SendStep(s) ==
  \/ \E p \in Payout : CheckLedger(s, p)
  \/ CheckGatewayBalance(s)
  \/ CreateRow(s)
  \/ InitiatePayout(s)
  \/ PayoutRefused(s)
  \/ StoreRef(s)
  \/ StoreRefError(s)
  \/ MarkFailed(s)
  \/ CrashSender(s)

SettleStep(k) ==
  \/ \E p \in Payout : LoadPending(k, p)
  \/ Settle(k)
  \/ CrashSettler(k)

Next ==
  \/ \E s \in Sender : SendStep(s)
  \/ \E k \in Settler : SettleStep(k)
  \/ \E p \in Payout : SettleTransfer(p)
  \/ RecordMobileMoneyWithdrawal

Spec == Init /\ [][Next]_vars

----------------------------------------------------------------------------
(* Properties. *)

\* "a double click or a retried request returns the payout already made instead
\* of sending the money again": one dialog reaches the gateway at most once.
SentAtMostOnce == \A p \in Payout : sends[p] <= 1

\* "a callback and a manual refresh racing each other cannot debit twice": a
\* payout is debited at most once, only after the gateway paid it out, and a
\* COMPLETED row was debited.
DebitedOnce ==
  \A p \in Payout :
    /\ debits[p] <= 1
    /\ debits[p] = 1 => transfer[p] = "COMPLETED"
    /\ status[p] = "PENDING" => debits[p] = 0
    /\ status[p] = "COMPLETED" => debits[p] = 1

\* "Refused by the gateway: nothing was sent": a FAILED payout has no transfer
\* that moved money or still may.
FailedMeansNothingSent ==
  \A p \in Payout :
    status[p] = "FAILED" => transfer[p] \notin {"PENDING", "COMPLETED"}

\* Unless storing a reference failed, a FAILED payout moved no money, whatever
\* crashes and whichever refusals, callbacks and refreshes race.
FailedWithoutDbError == dbErrors = 0 => FailedMeansNothingSent

----------------------------------------------------------------------------
(* What makes the safety properties inductive. *)

\* The submission that created a row is the only one that works on it, and it
\* has not called the gateway before.
RowHasOneSender ==
  /\ \A s \in Sender :
       /\ ~At(s, "idle") => sender[s].payout \in Payout
       /\ sender[s].pc \in {"created", "accepted", "failing"} =>
            status[sender[s].payout] # "ABSENT"
       /\ At(s, "created") => sends[sender[s].payout] = 0
       /\ At(s, "accepted") => transfer[sender[s].payout] # "NONE"
  /\ \A s, t \in Sender :
       /\ sender[s].pc \in {"created", "accepted", "failing"}
       /\ sender[t].pc \in {"created", "accepted", "failing"}
       /\ sender[s].payout = sender[t].payout
       => s = t

\* Nothing exists of a payout before its row, and no transfer before a send.
NothingBeforeTheRow ==
  \A p \in Payout :
    /\ status[p] = "ABSENT" => sends[p] = 0
    /\ sends[p] = 0 => transfer[p] = "NONE"
    /\ transfer[p] = "NONE" => ~refStored[p] /\ debits[p] = 0

\* What a settler read of a transfer is still true when it settles.
SettlerCarriesEvidence ==
  \A k \in Settler :
    settler[k].pc = "settling" =>
      /\ settler[k].payout \in Payout
      /\ settler[k].seen = "COMPLETED" =>
           transfer[settler[k].payout] = "COMPLETED"

IndInv ==
  /\ TypeOK
  /\ SentAtMostOnce
  /\ DebitedOnce
  /\ RowHasOneSender
  /\ NothingBeforeTheRow
  /\ SettlerCarriesEvidence
==========================================================================
