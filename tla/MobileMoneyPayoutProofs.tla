--------------------- MODULE MobileMoneyPayoutProofs ---------------------
(* Proofs about MobileMoneyPayout, for any dialogs, amounts, balances,     *)
(* numbers of concurrent calls, database errors and crashes.               *)
EXTENDS MobileMoneyPayout, TLAPS

\* Every step keeps the rows, balances and calls in their types.
LEMMA TypeStep ==
  ASSUME TypeOK, RowHasOneSender, NothingBeforeTheRow, SettlerCarriesEvidence, [Next]_vars
  PROVE  TypeOK'
<1> USE PayoutAssumption DEF TypeOK, Status, TransferState, Seen, SenderState, SettlerState, IdleSender, IdleSettler, RowHasOneSender, NothingBeforeTheRow, SettlerCarriesEvidence, At, rowVars, gatewayVars, ledgerVars, bounds
<1>1. ASSUME NEW s \in Sender, NEW p \in Payout, CheckLedger(s, p) PROVE TypeOK'
  BY <1>1 DEF CheckLedger, At
<1>2. ASSUME NEW s \in Sender, CheckGatewayBalance(s) PROVE TypeOK'
  BY <1>2 DEF CheckGatewayBalance, At, Goto, Leave
<1>3. ASSUME NEW s \in Sender, CreateRow(s) PROVE TypeOK'
  BY <1>3 DEF CreateRow, At, Goto, Leave
<1>4. ASSUME NEW s \in Sender, InitiatePayout(s) PROVE TypeOK'
  <2>1. sender[s].payout \in Payout /\ Amount[sender[s].payout] \in Nat
    BY <1>4 DEF InitiatePayout
  <2>2. gatewayFunds' \in Nat
    BY <1>4, <2>1 DEF InitiatePayout
  <2>3. transfer' \in [Payout -> TransferState] /\ sends' \in [Payout -> Nat]
    BY <1>4 DEF InitiatePayout
  <2>4. sender' \in [Sender -> SenderState]
    BY <1>4 DEF InitiatePayout, Goto
  <2> QED
    BY <1>4, <2>2, <2>3, <2>4 DEF InitiatePayout
<1>5. ASSUME NEW s \in Sender, PayoutRefused(s) PROVE TypeOK'
  BY <1>5 DEF PayoutRefused, At, Goto
<1>6. ASSUME NEW s \in Sender, StoreRef(s) PROVE TypeOK'
  BY <1>6 DEF StoreRef, At, Leave
<1>7. ASSUME NEW s \in Sender, StoreRefError(s) PROVE TypeOK'
  BY <1>7 DEF StoreRefError, At, Goto
<1>8. ASSUME NEW s \in Sender, MarkFailed(s) PROVE TypeOK'
  BY <1>8 DEF MarkFailed, At, Leave
<1>9. ASSUME NEW s \in Sender, CrashSender(s) PROVE TypeOK'
  BY <1>9 DEF CrashSender, At, Leave
<1>10. ASSUME NEW k \in Settler, NEW p \in Payout, LoadPending(k, p) PROVE TypeOK'
  <2>1. PICK v \in CheckPayoutStatus(p) :
          settler' = [settler EXCEPT ![k] =
                        [pc |-> "settling", payout |-> p, seen |-> v]]
    BY <1>10 DEF LoadPending
  <2>2. v \in Seen /\ (v = "COMPLETED" => transfer[p] = "COMPLETED")
    BY <1>10, <2>1 DEF LoadPending, CheckPayoutStatus
  <2> QED
    BY <1>10, <2>1, <2>2 DEF LoadPending
<1>11. ASSUME NEW k \in Settler, Settle(k) PROVE TypeOK'
  BY <1>11 DEF Settle
<1>12. ASSUME NEW k \in Settler, CrashSettler(k) PROVE TypeOK'
  BY <1>12 DEF CrashSettler
<1>13. ASSUME NEW p \in Payout, SettleTransfer(p) PROVE TypeOK'
  BY <1>13 DEF SettleTransfer
<1>14. ASSUME RecordMobileMoneyWithdrawal PROVE TypeOK'
  BY <1>14 DEF RecordMobileMoneyWithdrawal
<1>15. ASSUME UNCHANGED vars PROVE TypeOK'
  BY <1>15 DEF vars
<1> QED
  BY <1>1, <1>2, <1>3, <1>4, <1>5, <1>6, <1>7, <1>8, <1>9, <1>10, <1>11,
     <1>12, <1>13, <1>14, <1>15
     DEF Next, SendStep, SettleStep

\* Only the unique insert makes a submission the owner of a row.
LEMMA SenderStep ==
  ASSUME TypeOK, RowHasOneSender, NothingBeforeTheRow, [Next]_vars
  PROVE  RowHasOneSender'
<1> USE PayoutAssumption DEF TypeOK, Status, TransferState, Seen, SenderState, SettlerState, IdleSender, IdleSettler, RowHasOneSender, NothingBeforeTheRow, At, rowVars, gatewayVars, ledgerVars, bounds
<1>1. ASSUME NEW s \in Sender, NEW p \in Payout, CheckLedger(s, p) PROVE RowHasOneSender'
  BY <1>1 DEF CheckLedger, At
<1>2. ASSUME NEW s \in Sender, CheckGatewayBalance(s) PROVE RowHasOneSender'
  <2>1. \A t \in Sender : sender'[t].pc \in {"created", "accepted", "failing"} =>
          sender'[t] = sender[t]
    BY <1>2 DEF CheckGatewayBalance, Goto, Leave
  <2>2. \A t \in Sender : sender'[t].pc # "idle" => sender'[t].payout \in Payout
    BY <1>2 DEF CheckGatewayBalance, Goto, Leave
  <2>3. UNCHANGED <<status, sends, transfer>>
    BY <1>2 DEF CheckGatewayBalance
  <2> QED
    BY <2>1, <2>2, <2>3
<1>3. ASSUME NEW s \in Sender, CreateRow(s) PROVE RowHasOneSender'
  BY <1>3 DEF CreateRow, At, Goto, Leave
<1>4. ASSUME NEW s \in Sender, InitiatePayout(s) PROVE RowHasOneSender'
  BY <1>4 DEF InitiatePayout, At, Goto
<1>5. ASSUME NEW s \in Sender, PayoutRefused(s) PROVE RowHasOneSender'
  BY <1>5 DEF PayoutRefused, At, Goto
<1>6. ASSUME NEW s \in Sender, StoreRef(s) PROVE RowHasOneSender'
  BY <1>6 DEF StoreRef, At, Leave
<1>7. ASSUME NEW s \in Sender, StoreRefError(s) PROVE RowHasOneSender'
  BY <1>7 DEF StoreRefError, At, Goto
<1>8. ASSUME NEW s \in Sender, MarkFailed(s) PROVE RowHasOneSender'
  BY <1>8 DEF MarkFailed, At, Leave
<1>9. ASSUME NEW s \in Sender, CrashSender(s) PROVE RowHasOneSender'
  BY <1>9 DEF CrashSender, At, Leave
<1>10. ASSUME NEW k \in Settler, NEW p \in Payout, LoadPending(k, p) PROVE RowHasOneSender'
  BY <1>10 DEF LoadPending, CheckPayoutStatus
<1>11. ASSUME NEW k \in Settler, Settle(k) PROVE RowHasOneSender'
  BY <1>11 DEF Settle
<1>12. ASSUME NEW k \in Settler, CrashSettler(k) PROVE RowHasOneSender'
  BY <1>12 DEF CrashSettler
<1>13. ASSUME NEW p \in Payout, SettleTransfer(p) PROVE RowHasOneSender'
  BY <1>13 DEF SettleTransfer
<1>14. ASSUME RecordMobileMoneyWithdrawal PROVE RowHasOneSender'
  BY <1>14 DEF RecordMobileMoneyWithdrawal
<1>15. ASSUME UNCHANGED vars PROVE RowHasOneSender'
  BY <1>15 DEF vars
<1> QED
  BY <1>1, <1>2, <1>3, <1>4, <1>5, <1>6, <1>7, <1>8, <1>9, <1>10, <1>11,
     <1>12, <1>13, <1>14, <1>15
     DEF Next, SendStep, SettleStep

\* A row precedes its send, a send its transfer, a transfer its reference.
LEMMA BeforeStep ==
  ASSUME TypeOK, RowHasOneSender, NothingBeforeTheRow,
         SettlerCarriesEvidence, [Next]_vars
  PROVE  NothingBeforeTheRow'
<1> USE PayoutAssumption DEF TypeOK, Status, TransferState, Seen, SenderState, SettlerState, IdleSender, IdleSettler, RowHasOneSender, NothingBeforeTheRow, SettlerCarriesEvidence, At, rowVars, gatewayVars, ledgerVars, bounds
<1>1. ASSUME NEW s \in Sender, NEW p \in Payout, CheckLedger(s, p) PROVE NothingBeforeTheRow'
  BY <1>1 DEF CheckLedger, At
<1>2. ASSUME NEW s \in Sender, CheckGatewayBalance(s) PROVE NothingBeforeTheRow'
  BY <1>2 DEF CheckGatewayBalance, At, Goto, Leave
<1>3. ASSUME NEW s \in Sender, CreateRow(s) PROVE NothingBeforeTheRow'
  BY <1>3 DEF CreateRow, At, Goto, Leave
<1>4. ASSUME NEW s \in Sender, InitiatePayout(s) PROVE NothingBeforeTheRow'
  BY <1>4 DEF InitiatePayout, At, Goto
<1>5. ASSUME NEW s \in Sender, PayoutRefused(s) PROVE NothingBeforeTheRow'
  BY <1>5 DEF PayoutRefused, At, Goto
<1>6. ASSUME NEW s \in Sender, StoreRef(s) PROVE NothingBeforeTheRow'
  BY <1>6 DEF StoreRef, At, Leave
<1>7. ASSUME NEW s \in Sender, StoreRefError(s) PROVE NothingBeforeTheRow'
  BY <1>7 DEF StoreRefError, At, Goto
<1>8. ASSUME NEW s \in Sender, MarkFailed(s) PROVE NothingBeforeTheRow'
  BY <1>8 DEF MarkFailed, At, Leave
<1>9. ASSUME NEW s \in Sender, CrashSender(s) PROVE NothingBeforeTheRow'
  BY <1>9 DEF CrashSender, At, Leave
<1>10. ASSUME NEW k \in Settler, NEW p \in Payout, LoadPending(k, p) PROVE NothingBeforeTheRow'
  BY <1>10 DEF LoadPending, CheckPayoutStatus
<1>11. ASSUME NEW k \in Settler, Settle(k) PROVE NothingBeforeTheRow'
  BY <1>11 DEF Settle
<1>12. ASSUME NEW k \in Settler, CrashSettler(k) PROVE NothingBeforeTheRow'
  BY <1>12 DEF CrashSettler
<1>13. ASSUME NEW p \in Payout, SettleTransfer(p) PROVE NothingBeforeTheRow'
  BY <1>13 DEF SettleTransfer
<1>14. ASSUME RecordMobileMoneyWithdrawal PROVE NothingBeforeTheRow'
  BY <1>14 DEF RecordMobileMoneyWithdrawal
<1>15. ASSUME UNCHANGED vars PROVE NothingBeforeTheRow'
  BY <1>15 DEF vars
<1> QED
  BY <1>1, <1>2, <1>3, <1>4, <1>5, <1>6, <1>7, <1>8, <1>9, <1>10, <1>11,
     <1>12, <1>13, <1>14, <1>15
     DEF Next, SendStep, SettleStep

\* Final transfer states are final.
LEMMA EvidenceStep ==
  ASSUME TypeOK, RowHasOneSender, NothingBeforeTheRow,
         SettlerCarriesEvidence, [Next]_vars
  PROVE  SettlerCarriesEvidence'
<1> USE PayoutAssumption DEF TypeOK, Status, TransferState, Seen, SenderState, SettlerState, IdleSender, IdleSettler, RowHasOneSender, NothingBeforeTheRow, SettlerCarriesEvidence, At, rowVars, gatewayVars, ledgerVars, bounds
<1>1. ASSUME NEW s \in Sender, NEW p \in Payout, CheckLedger(s, p) PROVE SettlerCarriesEvidence'
  BY <1>1 DEF CheckLedger, At
<1>2. ASSUME NEW s \in Sender, CheckGatewayBalance(s) PROVE SettlerCarriesEvidence'
  BY <1>2 DEF CheckGatewayBalance, At, Goto, Leave
<1>3. ASSUME NEW s \in Sender, CreateRow(s) PROVE SettlerCarriesEvidence'
  BY <1>3 DEF CreateRow, At, Goto, Leave
<1>4. ASSUME NEW s \in Sender, InitiatePayout(s) PROVE SettlerCarriesEvidence'
  BY <1>4 DEF InitiatePayout, At, Goto
<1>5. ASSUME NEW s \in Sender, PayoutRefused(s) PROVE SettlerCarriesEvidence'
  BY <1>5 DEF PayoutRefused, At, Goto
<1>6. ASSUME NEW s \in Sender, StoreRef(s) PROVE SettlerCarriesEvidence'
  BY <1>6 DEF StoreRef, At, Leave
<1>7. ASSUME NEW s \in Sender, StoreRefError(s) PROVE SettlerCarriesEvidence'
  BY <1>7 DEF StoreRefError, At, Goto
<1>8. ASSUME NEW s \in Sender, MarkFailed(s) PROVE SettlerCarriesEvidence'
  BY <1>8 DEF MarkFailed, At, Leave
<1>9. ASSUME NEW s \in Sender, CrashSender(s) PROVE SettlerCarriesEvidence'
  BY <1>9 DEF CrashSender, At, Leave
<1>10. ASSUME NEW k \in Settler, NEW p \in Payout, LoadPending(k, p) PROVE SettlerCarriesEvidence'
  <2>1. PICK v \in CheckPayoutStatus(p) :
          settler' = [settler EXCEPT ![k] =
                        [pc |-> "settling", payout |-> p, seen |-> v]]
    BY <1>10 DEF LoadPending
  <2>2. v \in Seen /\ (v = "COMPLETED" => transfer[p] = "COMPLETED")
    BY <1>10, <2>1 DEF LoadPending, CheckPayoutStatus
  <2> QED
    BY <1>10, <2>1, <2>2 DEF LoadPending
<1>11. ASSUME NEW k \in Settler, Settle(k) PROVE SettlerCarriesEvidence'
  BY <1>11 DEF Settle
<1>12. ASSUME NEW k \in Settler, CrashSettler(k) PROVE SettlerCarriesEvidence'
  BY <1>12 DEF CrashSettler
<1>13. ASSUME NEW p \in Payout, SettleTransfer(p) PROVE SettlerCarriesEvidence'
  BY <1>13 DEF SettleTransfer
<1>14. ASSUME RecordMobileMoneyWithdrawal PROVE SettlerCarriesEvidence'
  BY <1>14 DEF RecordMobileMoneyWithdrawal
<1>15. ASSUME UNCHANGED vars PROVE SettlerCarriesEvidence'
  BY <1>15 DEF vars
<1> QED
  BY <1>1, <1>2, <1>3, <1>4, <1>5, <1>6, <1>7, <1>8, <1>9, <1>10, <1>11,
     <1>12, <1>13, <1>14, <1>15
     DEF Next, SendStep, SettleStep

\* The owner of a row calls the gateway once.
LEMMA SentStep ==
  ASSUME TypeOK, RowHasOneSender, NothingBeforeTheRow, SentAtMostOnce, [Next]_vars
  PROVE  SentAtMostOnce'
<1> USE PayoutAssumption DEF TypeOK, Status, TransferState, Seen, SenderState, SettlerState, IdleSender, IdleSettler, RowHasOneSender, NothingBeforeTheRow, SentAtMostOnce, At, rowVars, gatewayVars, ledgerVars, bounds
<1>1. ASSUME NEW s \in Sender, NEW p \in Payout, CheckLedger(s, p) PROVE SentAtMostOnce'
  BY <1>1 DEF CheckLedger, At
<1>2. ASSUME NEW s \in Sender, CheckGatewayBalance(s) PROVE SentAtMostOnce'
  BY <1>2 DEF CheckGatewayBalance, At, Goto, Leave
<1>3. ASSUME NEW s \in Sender, CreateRow(s) PROVE SentAtMostOnce'
  BY <1>3 DEF CreateRow, At, Goto, Leave
<1>4. ASSUME NEW s \in Sender, InitiatePayout(s) PROVE SentAtMostOnce'
  BY <1>4 DEF InitiatePayout, At, Goto
<1>5. ASSUME NEW s \in Sender, PayoutRefused(s) PROVE SentAtMostOnce'
  BY <1>5 DEF PayoutRefused, At, Goto
<1>6. ASSUME NEW s \in Sender, StoreRef(s) PROVE SentAtMostOnce'
  BY <1>6 DEF StoreRef, At, Leave
<1>7. ASSUME NEW s \in Sender, StoreRefError(s) PROVE SentAtMostOnce'
  BY <1>7 DEF StoreRefError, At, Goto
<1>8. ASSUME NEW s \in Sender, MarkFailed(s) PROVE SentAtMostOnce'
  BY <1>8 DEF MarkFailed, At, Leave
<1>9. ASSUME NEW s \in Sender, CrashSender(s) PROVE SentAtMostOnce'
  BY <1>9 DEF CrashSender, At, Leave
<1>10. ASSUME NEW k \in Settler, NEW p \in Payout, LoadPending(k, p) PROVE SentAtMostOnce'
  BY <1>10 DEF LoadPending, CheckPayoutStatus
<1>11. ASSUME NEW k \in Settler, Settle(k) PROVE SentAtMostOnce'
  BY <1>11 DEF Settle
<1>12. ASSUME NEW k \in Settler, CrashSettler(k) PROVE SentAtMostOnce'
  BY <1>12 DEF CrashSettler
<1>13. ASSUME NEW p \in Payout, SettleTransfer(p) PROVE SentAtMostOnce'
  BY <1>13 DEF SettleTransfer
<1>14. ASSUME RecordMobileMoneyWithdrawal PROVE SentAtMostOnce'
  BY <1>14 DEF RecordMobileMoneyWithdrawal
<1>15. ASSUME UNCHANGED vars PROVE SentAtMostOnce'
  BY <1>15 DEF vars
<1> QED
  BY <1>1, <1>2, <1>3, <1>4, <1>5, <1>6, <1>7, <1>8, <1>9, <1>10, <1>11,
     <1>12, <1>13, <1>14, <1>15
     DEF Next, SendStep, SettleStep

\* Only the claim of a PENDING row debits, and it is the first to do so.
LEMMA DebitStep ==
  ASSUME TypeOK, RowHasOneSender, NothingBeforeTheRow,
         SettlerCarriesEvidence, DebitedOnce, [Next]_vars
  PROVE  DebitedOnce'
<1> USE PayoutAssumption DEF TypeOK, Status, TransferState, Seen, SenderState, SettlerState, IdleSender, IdleSettler, RowHasOneSender, NothingBeforeTheRow, SettlerCarriesEvidence, At, DebitedOnce, rowVars, gatewayVars, ledgerVars, bounds
<1>1. ASSUME NEW s \in Sender, NEW p \in Payout, CheckLedger(s, p) PROVE DebitedOnce'
  BY <1>1 DEF CheckLedger, At
<1>2. ASSUME NEW s \in Sender, CheckGatewayBalance(s) PROVE DebitedOnce'
  BY <1>2 DEF CheckGatewayBalance, At, Goto, Leave
<1>3. ASSUME NEW s \in Sender, CreateRow(s) PROVE DebitedOnce'
  BY <1>3 DEF CreateRow, At, Goto, Leave
<1>4. ASSUME NEW s \in Sender, InitiatePayout(s) PROVE DebitedOnce'
  BY <1>4 DEF InitiatePayout, At, Goto
<1>5. ASSUME NEW s \in Sender, PayoutRefused(s) PROVE DebitedOnce'
  BY <1>5 DEF PayoutRefused, At, Goto
<1>6. ASSUME NEW s \in Sender, StoreRef(s) PROVE DebitedOnce'
  BY <1>6 DEF StoreRef, At, Leave
<1>7. ASSUME NEW s \in Sender, StoreRefError(s) PROVE DebitedOnce'
  BY <1>7 DEF StoreRefError, At, Goto
<1>8. ASSUME NEW s \in Sender, MarkFailed(s) PROVE DebitedOnce'
  BY <1>8 DEF MarkFailed, At, Leave
<1>9. ASSUME NEW s \in Sender, CrashSender(s) PROVE DebitedOnce'
  BY <1>9 DEF CrashSender, At, Leave
<1>10. ASSUME NEW k \in Settler, NEW p \in Payout, LoadPending(k, p) PROVE DebitedOnce'
  BY <1>10 DEF LoadPending, CheckPayoutStatus
<1>11. ASSUME NEW k \in Settler, Settle(k) PROVE DebitedOnce'
  BY <1>11 DEF Settle
<1>12. ASSUME NEW k \in Settler, CrashSettler(k) PROVE DebitedOnce'
  BY <1>12 DEF CrashSettler
<1>13. ASSUME NEW p \in Payout, SettleTransfer(p) PROVE DebitedOnce'
  BY <1>13 DEF SettleTransfer
<1>14. ASSUME RecordMobileMoneyWithdrawal PROVE DebitedOnce'
  BY <1>14 DEF RecordMobileMoneyWithdrawal
<1>15. ASSUME UNCHANGED vars PROVE DebitedOnce'
  BY <1>15 DEF vars
<1> QED
  BY <1>1, <1>2, <1>3, <1>4, <1>5, <1>6, <1>7, <1>8, <1>9, <1>10, <1>11,
     <1>12, <1>13, <1>14, <1>15
     DEF Next, SendStep, SettleStep

\* The inductive invariant holds in every reachable state.
THEOREM Invariance == Spec => []IndInv
<1>1. Init => IndInv
  <2> SUFFICES ASSUME Init PROVE IndInv
    OBVIOUS
  <2> USE PayoutAssumption DEF Init, IdleSender, IdleSettler
  <2>1. TypeOK
    BY DEF TypeOK, Status, TransferState, Seen, SenderState, SettlerState
  <2>2. SentAtMostOnce /\ DebitedOnce
    BY DEF SentAtMostOnce, DebitedOnce
  <2>3. RowHasOneSender /\ NothingBeforeTheRow /\ SettlerCarriesEvidence
    BY DEF RowHasOneSender, NothingBeforeTheRow, SettlerCarriesEvidence, At
  <2> QED
    BY <2>1, <2>2, <2>3 DEF IndInv
<1>2. IndInv /\ [Next]_vars => IndInv'
  BY TypeStep, SenderStep, BeforeStep, EvidenceStep, SentStep, DebitStep
     DEF IndInv
<1> QED
  BY <1>1, <1>2, PTL DEF Spec

\* The unique dialog id: however often and concurrently a dialog is submitted,
\* the gateway is asked to send its money at most once.
THEOREM SendsAtMostOnce == Spec => []SentAtMostOnce
<1>1. IndInv => SentAtMostOnce
  BY DEF IndInv
<1> QED
  BY <1>1, Invariance, PTL

\* settle's claim: a payout is debited at most once, only after the gateway paid
\* it out, whatever callbacks, refreshes, reconciliations and errors race.
THEOREM DebitsOnce == Spec => []DebitedOnce
<1>1. IndInv => DebitedOnce
  BY DEF IndInv
<1> QED
  BY <1>1, Invariance, PTL

\* Rows, balances and calls keep their types.
THEOREM TypeCorrect == Spec => []TypeOK
<1>1. IndInv => TypeOK
  BY DEF IndInv
<1> QED
  BY <1>1, Invariance, PTL

\* What a FAILED row needs: its transfer is not under way.  A refusal reaches only
\* the transfer that never began, a settler only one that has ended.
FailuresAreClean ==
  /\ \A k \in Settler :
       settler[k].pc = "settling" =>
         /\ transfer[settler[k].payout] # "NONE"
         /\ settler[k].seen = "FAILED" => transfer[settler[k].payout] \in {"LOST", "FAILED"}
  /\ \A s \in Sender : At(s, "created") => status[sender[s].payout] = "PENDING"
  /\ dbErrors = 0 => \A s \in Sender : At(s, "failing") => transfer[sender[s].payout] = "NONE"
  /\ FailedWithoutDbError

\* Unless storing a reference fails, every failure is clean.
LEMMA CleanStep ==
  ASSUME IndInv, FailuresAreClean, [Next]_vars
  PROVE  FailuresAreClean'
<1> USE PayoutAssumption DEF IndInv, TypeOK, FailuresAreClean, FailedWithoutDbError, FailedMeansNothingSent, Status, TransferState, Seen, SenderState, SettlerState, IdleSender, IdleSettler, RowHasOneSender, NothingBeforeTheRow, SettlerCarriesEvidence, At, rowVars, gatewayVars, ledgerVars, bounds
<1>1. ASSUME NEW s \in Sender, NEW p \in Payout, CheckLedger(s, p) PROVE FailuresAreClean'
  BY <1>1 DEF CheckLedger, Goto, Leave, CheckPayoutStatus
<1>2. ASSUME NEW s \in Sender, CheckGatewayBalance(s) PROVE FailuresAreClean'
  <2>1. UNCHANGED <<status, transfer, settler, dbErrors>>
    BY <1>2 DEF CheckGatewayBalance
  <2>2. \A t \in Sender : t # s => sender'[t] = sender[t]
    BY <1>2 DEF CheckGatewayBalance, Goto, Leave
  <2>3. sender'[s].pc \in {"covered", "idle"}
    BY <1>2 DEF CheckGatewayBalance, Goto, Leave
  <2>4. /\ \A t \in Sender : At(t, "created")' => At(t, "created") /\ sender'[t] = sender[t]
        /\ \A t \in Sender : At(t, "failing")' => At(t, "failing") /\ sender'[t] = sender[t]
    BY <2>2, <2>3
  <2> QED
    BY <2>1, <2>4
<1>3. ASSUME NEW s \in Sender, CreateRow(s) PROVE FailuresAreClean'
  <2>1. CASE status[sender[s].payout] = "ABSENT"
    <3>1. /\ status' = [status EXCEPT ![sender[s].payout] = "PENDING"]
          /\ sender' = [sender EXCEPT ![s].pc = "created"]
          /\ UNCHANGED <<transfer, settler, dbErrors>>
      BY <1>3, <2>1 DEF CreateRow, Goto
    <3>2. \A t \in Sender : At(t, "created")' => status'[sender'[t].payout] = "PENDING"
      BY <1>3, <3>1 DEF CreateRow
    <3>3. \A t \in Sender : At(t, "failing")' => At(t, "failing") /\ sender'[t].payout = sender[t].payout
      BY <3>1
    <3>4. FailedMeansNothingSent => FailedMeansNothingSent'
      BY <3>1
    <3> QED
      BY <3>1, <3>2, <3>3, <3>4
  <2>2. CASE status[sender[s].payout] # "ABSENT"
    BY <1>3, <2>2 DEF CreateRow, Leave
  <2> QED
    BY <2>1, <2>2
<1>4. ASSUME NEW s \in Sender, InitiatePayout(s) PROVE FailuresAreClean'
  BY <1>4 DEF InitiatePayout, Goto, Leave, CheckPayoutStatus
<1>5. ASSUME NEW s \in Sender, PayoutRefused(s) PROVE FailuresAreClean'
  BY <1>5 DEF PayoutRefused, Goto, Leave, CheckPayoutStatus
<1>6. ASSUME NEW s \in Sender, StoreRef(s) PROVE FailuresAreClean'
  BY <1>6 DEF StoreRef, Goto, Leave, CheckPayoutStatus
<1>7. ASSUME NEW s \in Sender, StoreRefError(s) PROVE FailuresAreClean'
  BY <1>7 DEF StoreRefError, Goto, Leave, CheckPayoutStatus
<1>8. ASSUME NEW s \in Sender, MarkFailed(s) PROVE FailuresAreClean'
  BY <1>8 DEF MarkFailed, Goto, Leave, CheckPayoutStatus
<1>9. ASSUME NEW s \in Sender, CrashSender(s) PROVE FailuresAreClean'
  BY <1>9 DEF CrashSender, Goto, Leave, CheckPayoutStatus
<1>10. ASSUME NEW k \in Settler, NEW p \in Payout, LoadPending(k, p) PROVE FailuresAreClean'
  BY <1>10 DEF LoadPending, Goto, Leave, CheckPayoutStatus
<1>11. ASSUME NEW k \in Settler, Settle(k) PROVE FailuresAreClean'
  BY <1>11 DEF Settle, Goto, Leave, CheckPayoutStatus
<1>12. ASSUME NEW k \in Settler, CrashSettler(k) PROVE FailuresAreClean'
  BY <1>12 DEF CrashSettler, Goto, Leave, CheckPayoutStatus
<1>13. ASSUME NEW p \in Payout, SettleTransfer(p) PROVE FailuresAreClean'
  BY <1>13 DEF SettleTransfer, Goto, Leave, CheckPayoutStatus
<1>14. ASSUME RecordMobileMoneyWithdrawal PROVE FailuresAreClean'
  BY <1>14 DEF RecordMobileMoneyWithdrawal, Goto, Leave, CheckPayoutStatus
<1>15. ASSUME UNCHANGED vars PROVE FailuresAreClean'
  BY <1>15 DEF vars
<1> QED
  BY <1>1, <1>2, <1>3, <1>4, <1>5, <1>6, <1>7, <1>8, <1>9, <1>10, <1>11,
     <1>12, <1>13, <1>14, <1>15
     DEF Next, SendStep, SettleStep

\* Unless the reference of an accepted payout could not be stored, a FAILED payout
\* has moved no money and will not, whatever refusals, callbacks, refreshes,
\* reconciliations and crashes race (send, settle).
THEOREM FailedMovedNothing == Spec => []FailedWithoutDbError
<1>1. Init => FailuresAreClean
  BY DEF Init, FailuresAreClean, FailedWithoutDbError, FailedMeansNothingSent, At, IdleSender, IdleSettler
<1>2. IndInv /\ FailuresAreClean /\ [Next]_vars => FailuresAreClean'
  BY CleanStep
<1>3. FailuresAreClean => FailedWithoutDbError
  BY DEF FailuresAreClean
<1> QED
  BY <1>1, <1>2, <1>3, Invariance, PTL DEF Spec
==========================================================================
