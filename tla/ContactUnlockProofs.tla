----------------------- MODULE ContactUnlockProofs -----------------------
(* Proofs about ContactUnlock, for any applications, quantities, plan       *)
(* units, numbers of concurrent calls and failures.                         *)
EXTENDS ContactUnlock, FiniteSetTheorems, TLAPS

\* The part of the type invariant the proofs below need.
Shape ==
  /\ quantity \in Quantities /\ planUnits \in Plans
  /\ jobPaid \in BOOLEAN
  /\ app \in [Application -> ApplicationStatus]
  /\ status \in [Application -> Status]
  /\ hasPaid \in [Application -> SUBSET Side]
  /\ call \in [Call -> CallState]

\* An application that was not accepted yet has no attempt.
Unaccepted ==
  \A a \in Application :
    app[a] = "PENDING" => status[a] = "NONE" /\ hasPaid[a] = {}

\* What a call read stays true of the rows it is about to write: attempts are
\* not deleted and payments not taken back.
Carried ==
  \A c \in Call :
    /\ ~At(c, "idle") => call[c].app \in Application
    /\ Paying(c) => /\ status[call[c].app] # "NONE"
                    /\ call[c].seen \subseteq hasPaid[call[c].app]
    /\ Settling(c) => status[call[c].app] # "NONE"
    /\ call[c].pc \in {"cascadeLoad", "cascade"} => CoveredAtJobLevel(jobPaid)
    /\ \A b \in call[c].todo : status[b] # "NONE"
    /\ \A b \in call[c].unlocks :
         /\ "worker" \in hasPaid[b]
         /\ At(c, "accept") =>
              "employer" \in hasPaid[b] \/ CoveredAtJobLevel(jobPaid)

\* The record of a call that does nothing.
LEMMA IdleIsCall == Idle \in CallState
  BY DEF Idle, CallState, Label, Side

\* The record of a call that moves on.
LEMMA MoveIsCall ==
  ASSUME NEW r \in CallState, NEW l \in Label PROVE [r EXCEPT !.pc = l] \in CallState
  BY DEF CallState

\* Replacing one call's record by another keeps the calls in their type.
LEMMA CallsKeepShape ==
  ASSUME call \in [Call -> CallState], NEW c \in Call, NEW r \in CallState,
         call' = [call EXCEPT ![c] = r]
  PROVE  call' \in [Call -> CallState]
  OBVIOUS

\* A call that moves on.
LEMMA GotoKeepsShape ==
  ASSUME call \in [Call -> CallState], NEW c \in Call, NEW l \in Label, Goto(c, l)
  PROVE  call' \in [Call -> CallState]
  BY MoveIsCall DEF Goto

\* A call that ends.
LEMMA LeaveKeepsShape ==
  ASSUME call \in [Call -> CallState], NEW c \in Call, Leave(c)
  PROVE  call' \in [Call -> CallState]
  BY IdleIsCall DEF Leave

\* Settling starts from a fresh record, and leaves the other calls alone.
LEMMA SettleKeepsShape ==
  ASSUME call \in [Call -> CallState], NEW c \in Call, NEW a \in Application,
         NEW scan \in BOOLEAN, NEW sides \in SUBSET Side, Settle(c, a, scan, sides)
  PROVE  /\ call' \in [Call -> CallState]
         /\ call'[c].pc = "settle" /\ call'[c].app = a
         /\ call'[c].todo = {} /\ call'[c].unlocks = {}
         /\ \A d \in Call : d # c => call'[d] = call[d]
<1>1. ("employer" \in sides) \in BOOLEAN
  OBVIOUS
<1>2. PICK w \in BOOLEAN : w = ("employer" \in sides)
  BY <1>1
<1>3. PICK x \in {"EXPIRED", "CONVERTED_TO_CREDIT"} :
        x = IF scan /\ sides = {} THEN "EXPIRED" ELSE "CONVERTED_TO_CREDIT"
  OBVIOUS
<1>4. [Idle EXCEPT !.pc = "settle", !.app = a, !.scan = scan, !.refunds = sides,
                   !.release = w, !.result = x] \in CallState
  BY IdleIsCall DEF CallState, Label
<1>5. call' = [call EXCEPT ![c] = [Idle EXCEPT !.pc = "settle", !.app = a,
                 !.scan = scan, !.refunds = sides, !.release = w, !.result = x]]
  BY <1>2, <1>3 DEF Settle
<1>6. /\ call'[c].pc = "settle" /\ call'[c].app = a
      /\ call'[c].todo = {} /\ call'[c].unlocks = {}
      /\ \A d \in Call : d # c => call'[d] = call[d]
  BY <1>5 DEF Idle
<1> QED
  BY <1>4, <1>5, <1>6, CallsKeepShape

\* Every step keeps offer, rows and calls in their types.
LEMMA ShapeStep ==
  ASSUME Shape, Carried, [Next]_vars
  PROVE  Shape'
<1>1. ASSUME NEW c \in Call, NEW a \in Application, NEW s \in Side, NEW wallet \in BOOLEAN, PayUnlock(c, a, s, wallet) PROVE Shape'
  <2>1. call' \in [Call -> CallState]
    <3>1. hasPaid[a] \in SUBSET Side
      BY DEF Shape
    <3>2. [Idle EXCEPT !.pc = IF wallet THEN "debit" ELSE "commit", !.app = a,
                       !.side = s, !.wallet = wallet, !.seen = hasPaid[a]] \in CallState
      BY <3>1, IdleIsCall DEF CallState, Label
    <3> QED
      BY <1>1, <3>2, CallsKeepShape DEF PayUnlock, Shape
  <2>2. (quantity \in Quantities /\ planUnits \in Plans /\ jobPaid \in BOOLEAN)'
    BY <1>1 DEF Shape, terms, offerVars, PayUnlock, At, Goto, Leave
  <2>3. (app \in [Application -> ApplicationStatus])'
    BY <1>1 DEF Shape, terms, offerVars, ApplicationStatus, PayUnlock, At, Goto, Leave
  <2>4. (status \in [Application -> Status] /\ hasPaid \in [Application -> SUBSET Side])'
    BY <1>1 DEF Shape, rowVars, Status, Pending, Side, CallState, PayUnlock, At, Goto, Leave
  <2> QED
    BY <2>1, <2>2, <2>3, <2>4 DEF Shape
<1>2. ASSUME NEW c \in Call, Debit(c) PROVE Shape'
  <2>1. call' \in [Call -> CallState]
    BY <1>2, GotoKeepsShape, LeaveKeepsShape DEF Shape, Label, Debit
  <2>2. (quantity \in Quantities /\ planUnits \in Plans /\ jobPaid \in BOOLEAN)'
    BY <1>2 DEF Shape, terms, offerVars, Debit, At, Goto, Leave
  <2>3. (app \in [Application -> ApplicationStatus])'
    BY <1>2 DEF Shape, terms, offerVars, ApplicationStatus, Debit, At, Goto, Leave
  <2>4. (status \in [Application -> Status] /\ hasPaid \in [Application -> SUBSET Side])'
    BY <1>2 DEF Shape, rowVars, Status, Pending, Side, CallState, Debit, At, Goto, Leave
  <2> QED
    BY <2>1, <2>2, <2>3, <2>4 DEF Shape
<1>3. ASSUME NEW c \in Call, RecordWalletUnlockPayment(c) PROVE Shape'
  <2>1. call' \in [Call -> CallState]
    BY <1>3, GotoKeepsShape, LeaveKeepsShape DEF Shape, Label, RecordWalletUnlockPayment
  <2>2. (quantity \in Quantities /\ planUnits \in Plans /\ jobPaid \in BOOLEAN)'
    BY <1>3 DEF Shape, terms, offerVars, RecordWalletUnlockPayment, At, Goto, Leave
  <2>3. (app \in [Application -> ApplicationStatus])'
    BY <1>3 DEF Shape, terms, offerVars, ApplicationStatus, RecordWalletUnlockPayment, At, Goto, Leave
  <2>4. (status \in [Application -> Status] /\ hasPaid \in [Application -> SUBSET Side])'
    BY <1>3 DEF Shape, rowVars, Status, Pending, Side, CallState, RecordWalletUnlockPayment, At, Goto, Leave
  <2> QED
    BY <2>1, <2>2, <2>3, <2>4 DEF Shape
<1>4. ASSUME NEW c \in Call, RecordFails(c) PROVE Shape'
  <2>1. call' \in [Call -> CallState]
    BY <1>4, GotoKeepsShape, LeaveKeepsShape DEF Shape, Label, RecordFails
  <2>2. (quantity \in Quantities /\ planUnits \in Plans /\ jobPaid \in BOOLEAN)'
    BY <1>4 DEF Shape, terms, offerVars, RecordFails, At, Goto, Leave
  <2>3. (app \in [Application -> ApplicationStatus])'
    BY <1>4 DEF Shape, terms, offerVars, ApplicationStatus, RecordFails, At, Goto, Leave
  <2>4. (status \in [Application -> Status] /\ hasPaid \in [Application -> SUBSET Side])'
    BY <1>4 DEF Shape, rowVars, Status, Pending, Side, CallState, RecordFails, At, Goto, Leave
  <2> QED
    BY <2>1, <2>2, <2>3, <2>4 DEF Shape
<1>5. ASSUME NEW c \in Call, Commit(c) PROVE Shape'
  <2>1. call' \in [Call -> CallState]
    <3>1. call[c] \in CallState /\ call[c].app \in Application
      BY <1>5 DEF Shape, Carried, Commit, At
    <3>2. [call[c] EXCEPT !.pc = "accept",
             !.unlocks = {call[c].app}] \in CallState
      BY <3>1 DEF CallState, Label
    <3>3. CASE call' = [call EXCEPT ![c].pc = "accept",
             ![c].unlocks = {call[c].app}]
      BY <3>2, <3>3 DEF Shape
    <3> QED
      BY <1>5, <3>3, GotoKeepsShape, LeaveKeepsShape DEF Shape, Label, Commit, Abandon
  <2>2. (quantity \in Quantities /\ planUnits \in Plans /\ jobPaid \in BOOLEAN)'
    BY <1>5 DEF Shape, terms, offerVars, Commit, At, Goto, Leave, Abandon
  <2>3. (app \in [Application -> ApplicationStatus])'
    BY <1>5 DEF Shape, terms, offerVars, ApplicationStatus, Commit, At, Goto, Leave, Abandon
  <2>4. (status \in [Application -> Status] /\ hasPaid \in [Application -> SUBSET Side])'
    BY <1>5 DEF Shape, rowVars, Status, Pending, Side, CallState, Commit, At, Goto, Leave, Abandon
  <2> QED
    BY <2>1, <2>2, <2>3, <2>4 DEF Shape
<1>6. ASSUME NEW c \in Call, CommitFails(c) PROVE Shape'
  <2>1. call' \in [Call -> CallState]
    BY <1>6, GotoKeepsShape, LeaveKeepsShape DEF Shape, Label, CommitFails, Abandon
  <2>2. (quantity \in Quantities /\ planUnits \in Plans /\ jobPaid \in BOOLEAN)'
    BY <1>6 DEF Shape, terms, offerVars, CommitFails, At, Goto, Leave, Abandon
  <2>3. (app \in [Application -> ApplicationStatus])'
    BY <1>6 DEF Shape, terms, offerVars, ApplicationStatus, CommitFails, At, Goto, Leave, Abandon
  <2>4. (status \in [Application -> Status] /\ hasPaid \in [Application -> SUBSET Side])'
    BY <1>6 DEF Shape, rowVars, Status, Pending, Side, CallState, CommitFails, At, Goto, Leave, Abandon
  <2> QED
    BY <2>1, <2>2, <2>3, <2>4 DEF Shape
<1>7. ASSUME NEW c \in Call, MarkJobPaid(c) PROVE Shape'
  <2>1. call' \in [Call -> CallState]
    BY <1>7, GotoKeepsShape, LeaveKeepsShape DEF Shape, Label, MarkJobPaid
  <2>2. (quantity \in Quantities /\ planUnits \in Plans /\ jobPaid \in BOOLEAN)'
    BY <1>7 DEF Shape, terms, offerVars, MarkJobPaid, At, Goto, Leave
  <2>3. (app \in [Application -> ApplicationStatus])'
    BY <1>7 DEF Shape, terms, offerVars, ApplicationStatus, MarkJobPaid, At, Goto, Leave
  <2>4. (status \in [Application -> Status] /\ hasPaid \in [Application -> SUBSET Side])'
    BY <1>7 DEF Shape, rowVars, Status, Pending, Side, CallState, MarkJobPaid, At, Goto, Leave
  <2> QED
    BY <2>1, <2>2, <2>3, <2>4 DEF Shape
<1>8. ASSUME NEW c \in Call, LoadUnpaidAttempts(c) PROVE Shape'
  <2>1. call' \in [Call -> CallState]
    <3>1. PICK T \in SUBSET Application, U \in SUBSET Application :
            call' = [call EXCEPT ![c].pc = "cascade", ![c].todo = T, ![c].unlocks = U]
      BY <1>8 DEF LoadUnpaidAttempts
    <3>2. [call[c] EXCEPT !.pc = "cascade", !.todo = T, !.unlocks = U] \in CallState
      <4>1. call[c] \in CallState
        BY DEF Shape
      <4> QED
        BY <4>1 DEF CallState, Label
    <3> QED
      BY <3>1, <3>2 DEF Shape
  <2>2. (quantity \in Quantities /\ planUnits \in Plans /\ jobPaid \in BOOLEAN)'
    BY <1>8 DEF Shape, terms, offerVars, LoadUnpaidAttempts, At, Goto, Leave
  <2>3. (app \in [Application -> ApplicationStatus])'
    BY <1>8 DEF Shape, terms, offerVars, ApplicationStatus, LoadUnpaidAttempts, At, Goto, Leave
  <2>4. (status \in [Application -> Status] /\ hasPaid \in [Application -> SUBSET Side])'
    BY <1>8 DEF Shape, rowVars, Status, Pending, Side, CallState, LoadUnpaidAttempts, At, Goto, Leave
  <2> QED
    BY <2>1, <2>2, <2>3, <2>4 DEF Shape
<1>9. ASSUME NEW c \in Call, NEW b \in Application, Cascade(c, b) PROVE Shape'
  <2>1. call' \in [Call -> CallState]
    <3>1. [call[c] EXCEPT !.todo = @ \ {b}] \in CallState
      BY DEF Shape, CallState
    <3> QED
      BY <1>9, <3>1 DEF Shape, Cascade
  <2>2. (quantity \in Quantities /\ planUnits \in Plans /\ jobPaid \in BOOLEAN)'
    BY <1>9 DEF Shape, terms, offerVars, Cascade, At, Goto, Leave
  <2>3. (app \in [Application -> ApplicationStatus])'
    BY <1>9 DEF Shape, terms, offerVars, ApplicationStatus, Cascade, At, Goto, Leave
  <2>4. (status \in [Application -> Status] /\ hasPaid \in [Application -> SUBSET Side])'
    BY <1>9 DEF Shape, rowVars, Status, Pending, Side, CallState, Cascade, At, Goto, Leave
  <2> QED
    BY <2>1, <2>2, <2>3, <2>4 DEF Shape
<1>10. ASSUME NEW c \in Call, EndCascade(c) PROVE Shape'
  <2>1. call' \in [Call -> CallState]
    <3>1. call[c] \in CallState /\ call[c].app \in Application
      BY <1>10 DEF Shape, Carried, EndCascade, At
    <3>2. [call[c] EXCEPT !.pc = "accept",
             !.unlocks = call[c].unlocks \cup IF "worker" \in call[c].seen THEN {call[c].app} ELSE {}] \in CallState
      BY <3>1 DEF CallState, Label
    <3>3. CASE call' = [call EXCEPT ![c].pc = "accept",
             ![c].unlocks = call[c].unlocks \cup IF "worker" \in call[c].seen THEN {call[c].app} ELSE {}]
      BY <3>2, <3>3 DEF Shape
    <3> QED
      BY <1>10, <3>3, GotoKeepsShape, LeaveKeepsShape DEF Shape, Label, EndCascade
  <2>2. (quantity \in Quantities /\ planUnits \in Plans /\ jobPaid \in BOOLEAN)'
    BY <1>10 DEF Shape, terms, offerVars, EndCascade, At, Goto, Leave
  <2>3. (app \in [Application -> ApplicationStatus])'
    BY <1>10 DEF Shape, terms, offerVars, ApplicationStatus, EndCascade, At, Goto, Leave
  <2>4. (status \in [Application -> Status] /\ hasPaid \in [Application -> SUBSET Side])'
    BY <1>10 DEF Shape, rowVars, Status, Pending, Side, CallState, EndCascade, At, Goto, Leave
  <2> QED
    BY <2>1, <2>2, <2>3, <2>4 DEF Shape
<1>11. ASSUME NEW c \in Call, MarkAccepted(c) PROVE Shape'
  <2>1. call' \in [Call -> CallState]
    BY <1>11, GotoKeepsShape, LeaveKeepsShape DEF Shape, Label, MarkAccepted
  <2>2. (quantity \in Quantities /\ planUnits \in Plans /\ jobPaid \in BOOLEAN)'
    BY <1>11 DEF Shape, terms, offerVars, MarkAccepted, At, Goto, Leave
  <2>3. (app \in [Application -> ApplicationStatus])'
    BY <1>11 DEF Shape, terms, offerVars, ApplicationStatus, MarkAccepted, At, Goto, Leave
  <2>4. (status \in [Application -> Status] /\ hasPaid \in [Application -> SUBSET Side])'
    BY <1>11 DEF Shape, rowVars, Status, Pending, Side, CallState, MarkAccepted, At, Goto, Leave
  <2> QED
    BY <2>1, <2>2, <2>3, <2>4 DEF Shape
<1>12. ASSUME NEW c \in Call, RejectLeftovers(c) PROVE Shape'
  <2>1. call' \in [Call -> CallState]
    BY <1>12, GotoKeepsShape, LeaveKeepsShape DEF Shape, Label, RejectLeftovers
  <2>2. (quantity \in Quantities /\ planUnits \in Plans /\ jobPaid \in BOOLEAN)'
    BY <1>12 DEF Shape, terms, offerVars, RejectLeftovers, At, Goto, Leave
  <2>3. (app \in [Application -> ApplicationStatus])'
    BY <1>12 DEF Shape, terms, offerVars, ApplicationStatus, RejectLeftovers, At, Goto, Leave
  <2>4. (status \in [Application -> Status] /\ hasPaid \in [Application -> SUBSET Side])'
    BY <1>12 DEF Shape, rowVars, Status, Pending, Side, CallState, RejectLeftovers, At, Goto, Leave
  <2> QED
    BY <2>1, <2>2, <2>3, <2>4 DEF Shape
<1>13. ASSUME NEW c \in Call, PayInterrupted(c) PROVE Shape'
  <2>1. call' \in [Call -> CallState]
    BY <1>13, GotoKeepsShape, LeaveKeepsShape DEF Shape, Label, PayInterrupted, Abandon
  <2>2. (quantity \in Quantities /\ planUnits \in Plans /\ jobPaid \in BOOLEAN)'
    BY <1>13 DEF Shape, terms, offerVars, PayInterrupted, At, Goto, Leave, Abandon
  <2>3. (app \in [Application -> ApplicationStatus])'
    BY <1>13 DEF Shape, terms, offerVars, ApplicationStatus, PayInterrupted, At, Goto, Leave, Abandon
  <2>4. (status \in [Application -> Status] /\ hasPaid \in [Application -> SUBSET Side])'
    BY <1>13 DEF Shape, rowVars, Status, Pending, Side, CallState, PayInterrupted, At, Goto, Leave, Abandon
  <2> QED
    BY <2>1, <2>2, <2>3, <2>4 DEF Shape
<1>14. ASSUME NEW c \in Call, RefundPayer(c) PROVE Shape'
  <2>1. call' \in [Call -> CallState]
    BY <1>14, GotoKeepsShape, LeaveKeepsShape DEF Shape, Label, RefundPayer
  <2>2. (quantity \in Quantities /\ planUnits \in Plans /\ jobPaid \in BOOLEAN)'
    BY <1>14 DEF Shape, terms, offerVars, RefundPayer, At, Goto, Leave
  <2>3. (app \in [Application -> ApplicationStatus])'
    BY <1>14 DEF Shape, terms, offerVars, ApplicationStatus, RefundPayer, At, Goto, Leave
  <2>4. (status \in [Application -> Status] /\ hasPaid \in [Application -> SUBSET Side])'
    BY <1>14 DEF Shape, rowVars, Status, Pending, Side, CallState, RefundPayer, At, Goto, Leave
  <2> QED
    BY <2>1, <2>2, <2>3, <2>4 DEF Shape
<1>15. ASSUME NEW c \in Call, RefundPayerFails(c) PROVE Shape'
  <2>1. call' \in [Call -> CallState]
    BY <1>15, GotoKeepsShape, LeaveKeepsShape DEF Shape, Label, RefundPayerFails
  <2>2. (quantity \in Quantities /\ planUnits \in Plans /\ jobPaid \in BOOLEAN)'
    BY <1>15 DEF Shape, terms, offerVars, RefundPayerFails, At, Goto, Leave
  <2>3. (app \in [Application -> ApplicationStatus])'
    BY <1>15 DEF Shape, terms, offerVars, ApplicationStatus, RefundPayerFails, At, Goto, Leave
  <2>4. (status \in [Application -> Status] /\ hasPaid \in [Application -> SUBSET Side])'
    BY <1>15 DEF Shape, rowVars, Status, Pending, Side, CallState, RefundPayerFails, At, Goto, Leave
  <2> QED
    BY <2>1, <2>2, <2>3, <2>4 DEF Shape
<1>16. ASSUME NEW c \in Call, NEW a \in Application, ScanExpired(c, a) PROVE Shape'
  <2>1. call' \in [Call -> CallState]
    <3>1. ExpiryRefunds(a) \in SUBSET Side
      BY DEF ExpiryRefunds, Side
    <3> QED
      BY <1>16, <3>1, SettleKeepsShape DEF ScanExpired, Shape
  <2>2. (quantity \in Quantities /\ planUnits \in Plans /\ jobPaid \in BOOLEAN)'
    BY <1>16 DEF Shape, terms, offerVars, ScanExpired, At, Goto, Leave, Settle, ExpiryRefunds
  <2>3. (app \in [Application -> ApplicationStatus])'
    BY <1>16 DEF Shape, terms, offerVars, ApplicationStatus, ScanExpired, At, Goto, Leave, Settle, ExpiryRefunds
  <2>4. (status \in [Application -> Status] /\ hasPaid \in [Application -> SUBSET Side])'
    BY <1>16 DEF Shape, rowVars, Status, Pending, Side, CallState, ScanExpired, At, Goto, Leave, Settle, ExpiryRefunds
  <2> QED
    BY <2>1, <2>2, <2>3, <2>4 DEF Shape
<1>17. ASSUME NEW c \in Call, NEW a \in Application, Cancel(c, a) PROVE Shape'
  <2>1. call' \in [Call -> CallState]
    <3>1. [Idle EXCEPT !.app = a,
              !.pc = IF app[a] = "WAITING_PAYMENT" THEN "cancelUnpaid" ELSE "cancel"]
            \in CallState
      BY IdleIsCall DEF CallState, Label
    <3> QED
      BY <1>17, <3>1, CallsKeepShape DEF Cancel, Shape
  <2>2. (quantity \in Quantities /\ planUnits \in Plans /\ jobPaid \in BOOLEAN)'
    BY <1>17 DEF Shape, terms, offerVars, Cancel, At, Goto, Leave
  <2>3. (app \in [Application -> ApplicationStatus])'
    BY <1>17 DEF Shape, terms, offerVars, ApplicationStatus, Cancel, At, Goto, Leave
  <2>4. (status \in [Application -> Status] /\ hasPaid \in [Application -> SUBSET Side])'
    BY <1>17 DEF Shape, rowVars, Status, Pending, Side, CallState, Cancel, At, Goto, Leave
  <2> QED
    BY <2>1, <2>2, <2>3, <2>4 DEF Shape
<1>18. ASSUME NEW c \in Call, CommitCancel(c) PROVE Shape'
  <2>1. call' \in [Call -> CallState]
    BY <1>18, GotoKeepsShape, LeaveKeepsShape DEF Shape, Label, CommitCancel
  <2>2. (quantity \in Quantities /\ planUnits \in Plans /\ jobPaid \in BOOLEAN)'
    BY <1>18 DEF Shape, terms, offerVars, CommitCancel, At, Goto, Leave
  <2>3. (app \in [Application -> ApplicationStatus])'
    BY <1>18 DEF Shape, terms, offerVars, ApplicationStatus, CommitCancel, At, Goto, Leave
  <2>4. (status \in [Application -> Status] /\ hasPaid \in [Application -> SUBSET Side])'
    BY <1>18 DEF Shape, rowVars, Status, Pending, Side, CallState, CommitCancel, At, Goto, Leave
  <2> QED
    BY <2>1, <2>2, <2>3, <2>4 DEF Shape
<1>19. ASSUME NEW c \in Call, AbortPendingUnlock(c) PROVE Shape'
  <2>1. call' \in [Call -> CallState]
    <3>1. call[c].app \in Application
      BY <1>19 DEF Carried, AbortPendingUnlock, At
    <3>2. AbortRefunds(call[c].app) \in SUBSET Side
      BY <3>1 DEF AbortRefunds, Shape
    <3> QED
      BY <1>19, <3>1, <3>2, SettleKeepsShape, LeaveKeepsShape DEF AbortPendingUnlock, Shape
  <2>2. (quantity \in Quantities /\ planUnits \in Plans /\ jobPaid \in BOOLEAN)'
    BY <1>19 DEF Shape, terms, offerVars, AbortPendingUnlock, At, Goto, Leave, Settle, AbortRefunds
  <2>3. (app \in [Application -> ApplicationStatus])'
    BY <1>19 DEF Shape, terms, offerVars, ApplicationStatus, AbortPendingUnlock, At, Goto, Leave, Settle, AbortRefunds
  <2>4. (status \in [Application -> Status] /\ hasPaid \in [Application -> SUBSET Side])'
    BY <1>19 DEF Shape, rowVars, Status, Pending, Side, CallState, AbortPendingUnlock, At, Goto, Leave, Settle, AbortRefunds
  <2> QED
    BY <2>1, <2>2, <2>3, <2>4 DEF Shape
<1>20. ASSUME NEW c \in Call, RefundEmployerSide(c) PROVE Shape'
  <2>1. call' \in [Call -> CallState]
    <3>1. [call[c] EXCEPT !.refunds = @ \ {"employer"}] \in CallState
      BY DEF Shape, CallState, Side
    <3> QED
      BY <1>20, <3>1 DEF Shape, RefundEmployerSide
  <2>2. (quantity \in Quantities /\ planUnits \in Plans /\ jobPaid \in BOOLEAN)'
    BY <1>20 DEF Shape, terms, offerVars, RefundEmployerSide, At, Goto, Leave
  <2>3. (app \in [Application -> ApplicationStatus])'
    BY <1>20 DEF Shape, terms, offerVars, ApplicationStatus, RefundEmployerSide, At, Goto, Leave
  <2>4. (status \in [Application -> Status] /\ hasPaid \in [Application -> SUBSET Side])'
    BY <1>20 DEF Shape, rowVars, Status, Pending, Side, CallState, RefundEmployerSide, At, Goto, Leave
  <2> QED
    BY <2>1, <2>2, <2>3, <2>4 DEF Shape
<1>21. ASSUME NEW c \in Call, RefundWorkerSide(c) PROVE Shape'
  <2>1. call' \in [Call -> CallState]
    <3>1. [call[c] EXCEPT !.refunds = {}] \in CallState
      BY DEF Shape, CallState, Side
    <3> QED
      BY <1>21, <3>1 DEF Shape, RefundWorkerSide
  <2>2. (quantity \in Quantities /\ planUnits \in Plans /\ jobPaid \in BOOLEAN)'
    BY <1>21 DEF Shape, terms, offerVars, RefundWorkerSide, At, Goto, Leave
  <2>3. (app \in [Application -> ApplicationStatus])'
    BY <1>21 DEF Shape, terms, offerVars, ApplicationStatus, RefundWorkerSide, At, Goto, Leave
  <2>4. (status \in [Application -> Status] /\ hasPaid \in [Application -> SUBSET Side])'
    BY <1>21 DEF Shape, rowVars, Status, Pending, Side, CallState, RefundWorkerSide, At, Goto, Leave
  <2> QED
    BY <2>1, <2>2, <2>3, <2>4 DEF Shape
<1>22. ASSUME NEW c \in Call, CloseAttempt(c) PROVE Shape'
  <2>1. call' \in [Call -> CallState]
    BY <1>22, GotoKeepsShape, LeaveKeepsShape DEF Shape, Label, CloseAttempt
  <2>2. (quantity \in Quantities /\ planUnits \in Plans /\ jobPaid \in BOOLEAN)'
    BY <1>22 DEF Shape, terms, offerVars, CloseAttempt, At, Goto, Leave
  <2>3. (app \in [Application -> ApplicationStatus])'
    BY <1>22 DEF Shape, terms, offerVars, ApplicationStatus, CloseAttempt, At, Goto, Leave
  <2>4. (status \in [Application -> Status] /\ hasPaid \in [Application -> SUBSET Side])'
    BY <1>22 DEF Shape, rowVars, Status, Pending, Side, CallState, CloseAttempt, At, Goto, Leave
  <2> QED
    BY <2>1, <2>2, <2>3, <2>4 DEF Shape
<1>23. ASSUME NEW c \in Call, SyncWaitingPayment(c) PROVE Shape'
  <2>1. call' \in [Call -> CallState]
    BY <1>23, GotoKeepsShape, LeaveKeepsShape DEF Shape, Label, SyncWaitingPayment
  <2>2. (quantity \in Quantities /\ planUnits \in Plans /\ jobPaid \in BOOLEAN)'
    BY <1>23 DEF Shape, terms, offerVars, SyncWaitingPayment, At, Goto, Leave
  <2>3. (app \in [Application -> ApplicationStatus])'
    BY <1>23 DEF Shape, terms, offerVars, ApplicationStatus, SyncWaitingPayment, At, Goto, Leave
  <2>4. (status \in [Application -> Status] /\ hasPaid \in [Application -> SUBSET Side])'
    BY <1>23 DEF Shape, rowVars, Status, Pending, Side, CallState, SyncWaitingPayment, At, Goto, Leave
  <2> QED
    BY <2>1, <2>2, <2>3, <2>4 DEF Shape
<1>24. ASSUME NEW c \in Call, SettleInterrupted(c) PROVE Shape'
  <2>1. call' \in [Call -> CallState]
    BY <1>24, GotoKeepsShape, LeaveKeepsShape DEF Shape, Label, SettleInterrupted
  <2>2. (quantity \in Quantities /\ planUnits \in Plans /\ jobPaid \in BOOLEAN)'
    BY <1>24 DEF Shape, terms, offerVars, SettleInterrupted, At, Goto, Leave
  <2>3. (app \in [Application -> ApplicationStatus])'
    BY <1>24 DEF Shape, terms, offerVars, ApplicationStatus, SettleInterrupted, At, Goto, Leave
  <2>4. (status \in [Application -> Status] /\ hasPaid \in [Application -> SUBSET Side])'
    BY <1>24 DEF Shape, rowVars, Status, Pending, Side, CallState, SettleInterrupted, At, Goto, Leave
  <2> QED
    BY <2>1, <2>2, <2>3, <2>4 DEF Shape
<1>25. ASSUME NEW a \in Application, Accept(a) PROVE Shape'
  <2>1. call' \in [Call -> CallState]
    BY <1>25, GotoKeepsShape, LeaveKeepsShape DEF Shape, Label, Accept
  <2>2. (quantity \in Quantities /\ planUnits \in Plans /\ jobPaid \in BOOLEAN)'
    BY <1>25 DEF Shape, terms, offerVars, Accept, At, Goto, Leave, InitiateUnlock
  <2>3. (app \in [Application -> ApplicationStatus])'
    BY <1>25 DEF Shape, terms, offerVars, ApplicationStatus, Accept, At, Goto, Leave, InitiateUnlock
  <2>4. (status \in [Application -> Status] /\ hasPaid \in [Application -> SUBSET Side])'
    BY <1>25 DEF Shape, rowVars, Status, Pending, Side, CallState, Accept, At, Goto, Leave, InitiateUnlock
  <2> QED
    BY <2>1, <2>2, <2>3, <2>4 DEF Shape
<1>26. ASSUME NEW a \in Application, CloseApplication(a) PROVE Shape'
  <2>1. call' \in [Call -> CallState]
    BY <1>26, GotoKeepsShape, LeaveKeepsShape DEF Shape, Label, CloseApplication
  <2>2. (quantity \in Quantities /\ planUnits \in Plans /\ jobPaid \in BOOLEAN)'
    BY <1>26 DEF Shape, terms, offerVars, CloseApplication, At, Goto, Leave
  <2>3. (app \in [Application -> ApplicationStatus])'
    BY <1>26 DEF Shape, terms, offerVars, ApplicationStatus, CloseApplication, At, Goto, Leave
  <2>4. (status \in [Application -> Status] /\ hasPaid \in [Application -> SUBSET Side])'
    BY <1>26 DEF Shape, rowVars, Status, Pending, Side, CallState, CloseApplication, At, Goto, Leave
  <2> QED
    BY <2>1, <2>2, <2>3, <2>4 DEF Shape
<1>27. ASSUME NEW a \in Application, Expire(a) PROVE Shape'
  <2>1. call' \in [Call -> CallState]
    BY <1>27, GotoKeepsShape, LeaveKeepsShape DEF Shape, Label, Expire
  <2>2. (quantity \in Quantities /\ planUnits \in Plans /\ jobPaid \in BOOLEAN)'
    BY <1>27 DEF Shape, terms, offerVars, Expire, At, Goto, Leave
  <2>3. (app \in [Application -> ApplicationStatus])'
    BY <1>27 DEF Shape, terms, offerVars, ApplicationStatus, Expire, At, Goto, Leave
  <2>4. (status \in [Application -> Status] /\ hasPaid \in [Application -> SUBSET Side])'
    BY <1>27 DEF Shape, rowVars, Status, Pending, Side, CallState, Expire, At, Goto, Leave
  <2> QED
    BY <2>1, <2>2, <2>3, <2>4 DEF Shape
<1>28. ASSUME UNCHANGED vars PROVE Shape'
  BY <1>28 DEF vars, Shape, rowVars, terms, offerVars
<1> QED
  BY <1>1, <1>2, <1>3, <1>4, <1>5, <1>6, <1>7, <1>8, <1>9, <1>10, <1>11,
     <1>12, <1>13, <1>14, <1>15, <1>16, <1>17, <1>18, <1>19, <1>20, <1>21,
     <1>22, <1>23, <1>24, <1>25, <1>26, <1>27, <1>28
     DEF Next, PayStep, SettleStep

\* Only accepting an application gives it an attempt.
LEMMA UnacceptedStep ==
  ASSUME Shape, Unaccepted, Carried, [Next]_vars
  PROVE  Unaccepted'
<1> USE DEF Shape, ApplicationStatus, Status, Pending, Side, CallState, Label, Idle, At, Unaccepted, Carried, Paying, Settling, rowVars, terms, offerVars, moneyVars
<1>1. ASSUME NEW c \in Call, NEW a \in Application, NEW s \in Side, NEW wallet \in BOOLEAN, PayUnlock(c, a, s, wallet) PROVE Unaccepted'
  BY <1>1 DEF PayUnlock, At, Goto, Leave
<1>2. ASSUME NEW c \in Call, Debit(c) PROVE Unaccepted'
  BY <1>2 DEF Debit, At, Goto, Leave
<1>3. ASSUME NEW c \in Call, RecordWalletUnlockPayment(c) PROVE Unaccepted'
  BY <1>3 DEF RecordWalletUnlockPayment, At, Goto, Leave
<1>4. ASSUME NEW c \in Call, RecordFails(c) PROVE Unaccepted'
  BY <1>4 DEF RecordFails, At, Goto, Leave
<1>5. ASSUME NEW c \in Call, Commit(c) PROVE Unaccepted'
  BY <1>5 DEF Commit, At, Goto, Leave, Abandon
<1>6. ASSUME NEW c \in Call, CommitFails(c) PROVE Unaccepted'
  BY <1>6 DEF CommitFails, At, Goto, Leave, Abandon
<1>7. ASSUME NEW c \in Call, MarkJobPaid(c) PROVE Unaccepted'
  BY <1>7 DEF MarkJobPaid, At, Goto, Leave
<1>8. ASSUME NEW c \in Call, LoadUnpaidAttempts(c) PROVE Unaccepted'
  BY <1>8 DEF LoadUnpaidAttempts, At, Goto, Leave
<1>9. ASSUME NEW c \in Call, NEW b \in Application, Cascade(c, b) PROVE Unaccepted'
  BY <1>9 DEF Cascade, At, Goto, Leave
<1>10. ASSUME NEW c \in Call, EndCascade(c) PROVE Unaccepted'
  BY <1>10 DEF EndCascade, At, Goto, Leave
<1>11. ASSUME NEW c \in Call, MarkAccepted(c) PROVE Unaccepted'
  BY <1>11 DEF MarkAccepted, At, Goto, Leave
<1>12. ASSUME NEW c \in Call, RejectLeftovers(c) PROVE Unaccepted'
  BY <1>12 DEF RejectLeftovers, At, Goto, Leave
<1>13. ASSUME NEW c \in Call, PayInterrupted(c) PROVE Unaccepted'
  BY <1>13 DEF PayInterrupted, At, Goto, Leave, Abandon
<1>14. ASSUME NEW c \in Call, RefundPayer(c) PROVE Unaccepted'
  BY <1>14 DEF RefundPayer, At, Goto, Leave
<1>15. ASSUME NEW c \in Call, RefundPayerFails(c) PROVE Unaccepted'
  BY <1>15 DEF RefundPayerFails, At, Goto, Leave
<1>16. ASSUME NEW c \in Call, NEW a \in Application, ScanExpired(c, a) PROVE Unaccepted'
  BY <1>16 DEF ScanExpired, At, Goto, Leave, Settle, ExpiryRefunds
<1>17. ASSUME NEW c \in Call, NEW a \in Application, Cancel(c, a) PROVE Unaccepted'
  BY <1>17 DEF Cancel, At, Goto, Leave
<1>18. ASSUME NEW c \in Call, CommitCancel(c) PROVE Unaccepted'
  BY <1>18 DEF CommitCancel, At, Goto, Leave
<1>19. ASSUME NEW c \in Call, AbortPendingUnlock(c) PROVE Unaccepted'
  BY <1>19 DEF AbortPendingUnlock, At, Goto, Leave, Settle, AbortRefunds
<1>20. ASSUME NEW c \in Call, RefundEmployerSide(c) PROVE Unaccepted'
  BY <1>20 DEF RefundEmployerSide, At, Goto, Leave
<1>21. ASSUME NEW c \in Call, RefundWorkerSide(c) PROVE Unaccepted'
  BY <1>21 DEF RefundWorkerSide, At, Goto, Leave
<1>22. ASSUME NEW c \in Call, CloseAttempt(c) PROVE Unaccepted'
  BY <1>22 DEF CloseAttempt, At, Goto, Leave
<1>23. ASSUME NEW c \in Call, SyncWaitingPayment(c) PROVE Unaccepted'
  BY <1>23 DEF SyncWaitingPayment, At, Goto, Leave
<1>24. ASSUME NEW c \in Call, SettleInterrupted(c) PROVE Unaccepted'
  BY <1>24 DEF SettleInterrupted, At, Goto, Leave
<1>25. ASSUME NEW a \in Application, Accept(a) PROVE Unaccepted'
  BY <1>25 DEF Accept, At, Goto, Leave, InitiateUnlock
<1>26. ASSUME NEW a \in Application, CloseApplication(a) PROVE Unaccepted'
  BY <1>26 DEF CloseApplication, At, Goto, Leave
<1>27. ASSUME NEW a \in Application, Expire(a) PROVE Unaccepted'
  BY <1>27 DEF Expire, At, Goto, Leave
<1>28. ASSUME UNCHANGED vars PROVE Unaccepted'
  BY <1>28 DEF vars
<1> QED
  BY <1>1, <1>2, <1>3, <1>4, <1>5, <1>6, <1>7, <1>8, <1>9, <1>10, <1>11,
     <1>12, <1>13, <1>14, <1>15, <1>16, <1>17, <1>18, <1>19, <1>20, <1>21,
     <1>22, <1>23, <1>24, <1>25, <1>26, <1>27, <1>28
     DEF Next, PayStep, SettleStep

\* Whatever other calls write in between, what a call read stays true.
LEMMA CarriedStep ==
  ASSUME Shape, Unaccepted, Carried, Shape', [Next]_vars
  PROVE  Carried'
<1> USE DEF Shape, ApplicationStatus, Status, Pending, Side, CallState, Label, Idle, At, Unaccepted, Carried, Paying, Settling, CoveredAtJobLevel, PaysForJob, rowVars, terms, offerVars, moneyVars
<1>1. ASSUME NEW c \in Call, NEW a \in Application, NEW s \in Side, NEW wallet \in BOOLEAN, PayUnlock(c, a, s, wallet) PROVE Carried'
  BY <1>1 DEF PayUnlock, At, Goto, Leave
<1>2. ASSUME NEW c \in Call, Debit(c) PROVE Carried'
  BY SMTT(20), <1>2 DEF Debit, At, Goto, Leave
<1>3. ASSUME NEW c \in Call, RecordWalletUnlockPayment(c) PROVE Carried'
  BY <1>3 DEF RecordWalletUnlockPayment, At, Goto, Leave
<1>4. ASSUME NEW c \in Call, RecordFails(c) PROVE Carried'
  BY <1>4 DEF RecordFails, At, Goto, Leave
<1>5. ASSUME NEW c \in Call, Commit(c) PROVE Carried'
  BY SMTT(20), <1>5 DEF Commit, At, Goto, Leave, Abandon
<1>6. ASSUME NEW c \in Call, CommitFails(c) PROVE Carried'
  BY SMTT(20), <1>6 DEF CommitFails, At, Goto, Leave, Abandon
<1>7. ASSUME NEW c \in Call, MarkJobPaid(c) PROVE Carried'
  BY <1>7 DEF MarkJobPaid, At, Goto, Leave
<1>8. ASSUME NEW c \in Call, LoadUnpaidAttempts(c) PROVE Carried'
  <2> DEFINE T == {b \in Application :
                    /\ status[b] \in {"PENDING_BOTH", "PENDING_EMPLOYER"}
                    /\ "employer" \notin hasPaid[b]}
             U == {b \in T : "worker" \in hasPaid[b]}
  <2>1. UNCHANGED <<status, hasPaid, quantity, jobPaid>>
    BY <1>8 DEF LoadUnpaidAttempts
  <2>2. call' = [call EXCEPT ![c].pc = "cascade", ![c].todo = T, ![c].unlocks = U]
    BY <1>8 DEF LoadUnpaidAttempts
  <2>3. /\ call'[c].pc = "cascade" /\ call'[c].app = call[c].app
        /\ call'[c].seen = call[c].seen /\ call'[c].todo = T /\ call'[c].unlocks = U
    <3> HIDE DEF T, U
    <3> QED
      BY <2>2
  <2>4. \A d \in Call : d # c => call'[d] = call[d]
    <3> HIDE DEF T, U
    <3> QED
      BY <2>2
  <2>5. (\A b \in T : status[b] # "NONE") /\ (\A b \in U : "worker" \in hasPaid[b])
    OBVIOUS
  <2>6. call[c].pc = "cascadeLoad"
    BY <1>8 DEF LoadUnpaidAttempts
  <2> HIDE DEF T, U
  <2> QED
    BY <2>1, <2>3, <2>4, <2>5, <2>6
<1>9. ASSUME NEW c \in Call, NEW b \in Application, Cascade(c, b) PROVE Carried'
  BY <1>9 DEF Cascade, At, Goto, Leave
<1>10. ASSUME NEW c \in Call, EndCascade(c) PROVE Carried'
  <2>1. UNCHANGED <<status, hasPaid, quantity, jobPaid>> /\ CoveredAtJobLevel(jobPaid)
    BY <1>10 DEF EndCascade
  <2>2. \A d \in Call : d # c => call'[d] = call[d]
    BY <1>10 DEF EndCascade, Leave
  <2>3. CASE call'[c] = Idle
    BY <2>1, <2>2, <2>3
  <2>4. CASE call'[c] # Idle
    <3>1. /\ call'[c].pc = "accept" /\ call'[c].app = call[c].app /\ call'[c].todo = call[c].todo
          /\ call'[c].unlocks = call[c].unlocks \cup
                (IF "worker" \in call[c].seen THEN {call[c].app} ELSE {})
      BY <1>10, <2>4 DEF EndCascade, Leave
    <3>2. \A b \in call'[c].unlocks : "worker" \in hasPaid[b]
      BY <1>10, <3>1 DEF EndCascade
    <3> QED
      BY <1>10, <2>1, <2>2, <3>1, <3>2 DEF EndCascade
  <2> QED
    BY <2>3, <2>4
<1>11. ASSUME NEW c \in Call, MarkAccepted(c) PROVE Carried'
  BY <1>11 DEF MarkAccepted, At, Goto, Leave
<1>12. ASSUME NEW c \in Call, RejectLeftovers(c) PROVE Carried'
  BY <1>12 DEF RejectLeftovers, At, Goto, Leave
<1>13. ASSUME NEW c \in Call, PayInterrupted(c) PROVE Carried'
  BY <1>13 DEF PayInterrupted, At, Goto, Leave, Abandon
<1>14. ASSUME NEW c \in Call, RefundPayer(c) PROVE Carried'
  BY <1>14 DEF RefundPayer, At, Goto, Leave
<1>15. ASSUME NEW c \in Call, RefundPayerFails(c) PROVE Carried'
  BY <1>15 DEF RefundPayerFails, At, Goto, Leave
<1>16. ASSUME NEW c \in Call, NEW a \in Application, ScanExpired(c, a) PROVE Carried'
  <2>1. /\ call'[c].pc = "settle" /\ call'[c].app = a
        /\ call'[c].todo = {} /\ call'[c].unlocks = {}
    <3>1. ExpiryRefunds(a) \in SUBSET Side
      BY DEF ExpiryRefunds
    <3> QED
      BY <1>16, <3>1, SettleKeepsShape DEF ScanExpired
  <2>2. UNCHANGED <<status, hasPaid, quantity, jobPaid>> /\ status[a] # "NONE"
    BY <1>16 DEF ScanExpired
  <2>3. \A d \in Call : d # c => call'[d] = call[d]
    BY ZenonT(60), <1>16 DEF ScanExpired, Settle
  <2> QED
    BY <2>1, <2>2, <2>3
<1>17. ASSUME NEW c \in Call, NEW a \in Application, Cancel(c, a) PROVE Carried'
  BY <1>17 DEF Cancel, At, Goto, Leave
<1>18. ASSUME NEW c \in Call, CommitCancel(c) PROVE Carried'
  BY <1>18 DEF CommitCancel, At, Goto, Leave
<1>19. ASSUME NEW c \in Call, AbortPendingUnlock(c) PROVE Carried'
  <2> DEFINE a == call[c].app
  <2>1. UNCHANGED <<status, hasPaid, quantity, jobPaid>> /\ a \in Application
    BY <1>19 DEF AbortPendingUnlock
  <2>2. CASE status[a] \in {"PENDING_BOTH", "PENDING_EMPLOYER", "PENDING_WORKER"}
    <3>1. /\ call'[c].pc = "settle" /\ call'[c].app = a
          /\ call'[c].todo = {} /\ call'[c].unlocks = {}
      <4>1. AbortRefunds(a) \in SUBSET Side
        BY <2>1 DEF AbortRefunds
      <4>2. Settle(c, a, FALSE, AbortRefunds(a))
        BY <1>19, <2>2 DEF AbortPendingUnlock
      <4>3. call \in [Call -> CallState] /\ FALSE \in BOOLEAN
        OBVIOUS
      <4> HIDE DEF a
      <4> QED
        BY ONLY <2>1, <4>1, <4>2, <4>3, SettleKeepsShape
    <3>2. \A d \in Call : d # c => call'[d] = call[d]
      BY <1>19, <2>2 DEF AbortPendingUnlock, Settle
    <3> QED
      BY <2>1, <2>2, <3>1, <3>2
  <2>3. CASE ~(status[a] \in {"PENDING_BOTH", "PENDING_EMPLOYER", "PENDING_WORKER"})
    <3>1. call'[c] = Idle /\ \A d \in Call : d # c => call'[d] = call[d]
      BY <1>19, <2>3 DEF AbortPendingUnlock, Leave
    <3> QED
      BY <2>1, <3>1
  <2> QED
    BY <2>2, <2>3
<1>20. ASSUME NEW c \in Call, RefundEmployerSide(c) PROVE Carried'
  BY <1>20 DEF RefundEmployerSide, At, Goto, Leave
<1>21. ASSUME NEW c \in Call, RefundWorkerSide(c) PROVE Carried'
  BY <1>21 DEF RefundWorkerSide, At, Goto, Leave
<1>22. ASSUME NEW c \in Call, CloseAttempt(c) PROVE Carried'
  BY <1>22 DEF CloseAttempt, At, Goto, Leave
<1>23. ASSUME NEW c \in Call, SyncWaitingPayment(c) PROVE Carried'
  BY <1>23 DEF SyncWaitingPayment, At, Goto, Leave
<1>24. ASSUME NEW c \in Call, SettleInterrupted(c) PROVE Carried'
  BY <1>24 DEF SettleInterrupted, At, Goto, Leave
<1>25. ASSUME NEW a \in Application, Accept(a) PROVE Carried'
  BY <1>25 DEF Accept, At, Goto, Leave, InitiateUnlock
<1>26. ASSUME NEW a \in Application, CloseApplication(a) PROVE Carried'
  BY <1>26 DEF CloseApplication, At, Goto, Leave
<1>27. ASSUME NEW a \in Application, Expire(a) PROVE Carried'
  BY <1>27 DEF Expire, At, Goto, Leave
<1>28. ASSUME UNCHANGED vars PROVE Carried'
  BY <1>28 DEF vars
<1> HIDE DEF Carried, Shape, CallState, Idle, Label, Paying, Settling, At, Unaccepted
<1> QED
  BY <1>1, <1>2, <1>3, <1>4, <1>5, <1>6, <1>7, <1>8, <1>9, <1>10, <1>11,
     <1>12, <1>13, <1>14, <1>15, <1>16, <1>17, <1>18, <1>19, <1>20, <1>21,
     <1>22, <1>23, <1>24, <1>25, <1>26, <1>27, <1>28
     DEF Next, PayStep, SettleStep

\* An attempt is unlocked, and a hire confirmed, on what is still true.
LEMMA ReleasedStep ==
  ASSUME Shape, Unaccepted, Carried, ReleasedWhenPaid, [Next]_vars
  PROVE  ReleasedWhenPaid'
<1> USE DEF Shape, ApplicationStatus, Status, Pending, Side, CallState, Label, Idle, At, Unaccepted, Carried, Paying, Settling, CoveredAtJobLevel, PaysForJob, ReleasedWhenPaid, rowVars, terms, offerVars, moneyVars
<1>1. ASSUME NEW c \in Call, NEW a \in Application, NEW s \in Side, NEW wallet \in BOOLEAN, PayUnlock(c, a, s, wallet) PROVE ReleasedWhenPaid'
  BY <1>1 DEF PayUnlock, At, Goto, Leave
<1>2. ASSUME NEW c \in Call, Debit(c) PROVE ReleasedWhenPaid'
  BY <1>2 DEF Debit, At, Goto, Leave
<1>3. ASSUME NEW c \in Call, RecordWalletUnlockPayment(c) PROVE ReleasedWhenPaid'
  BY <1>3 DEF RecordWalletUnlockPayment, At, Goto, Leave
<1>4. ASSUME NEW c \in Call, RecordFails(c) PROVE ReleasedWhenPaid'
  BY <1>4 DEF RecordFails, At, Goto, Leave
<1>5. ASSUME NEW c \in Call, Commit(c) PROVE ReleasedWhenPaid'
  BY <1>5 DEF Commit, At, Goto, Leave, Abandon
<1>6. ASSUME NEW c \in Call, CommitFails(c) PROVE ReleasedWhenPaid'
  BY <1>6 DEF CommitFails, At, Goto, Leave, Abandon
<1>7. ASSUME NEW c \in Call, MarkJobPaid(c) PROVE ReleasedWhenPaid'
  BY <1>7 DEF MarkJobPaid, At, Goto, Leave
<1>8. ASSUME NEW c \in Call, LoadUnpaidAttempts(c) PROVE ReleasedWhenPaid'
  BY <1>8 DEF LoadUnpaidAttempts, At, Goto, Leave
<1>9. ASSUME NEW c \in Call, NEW b \in Application, Cascade(c, b) PROVE ReleasedWhenPaid'
  BY <1>9 DEF Cascade, At, Goto, Leave
<1>10. ASSUME NEW c \in Call, EndCascade(c) PROVE ReleasedWhenPaid'
  BY <1>10 DEF EndCascade, At, Goto, Leave
<1>11. ASSUME NEW c \in Call, MarkAccepted(c) PROVE ReleasedWhenPaid'
  BY <1>11 DEF MarkAccepted, At, Goto, Leave
<1>12. ASSUME NEW c \in Call, RejectLeftovers(c) PROVE ReleasedWhenPaid'
  BY <1>12 DEF RejectLeftovers, At, Goto, Leave
<1>13. ASSUME NEW c \in Call, PayInterrupted(c) PROVE ReleasedWhenPaid'
  BY <1>13 DEF PayInterrupted, At, Goto, Leave, Abandon
<1>14. ASSUME NEW c \in Call, RefundPayer(c) PROVE ReleasedWhenPaid'
  BY <1>14 DEF RefundPayer, At, Goto, Leave
<1>15. ASSUME NEW c \in Call, RefundPayerFails(c) PROVE ReleasedWhenPaid'
  BY <1>15 DEF RefundPayerFails, At, Goto, Leave
<1>16. ASSUME NEW c \in Call, NEW a \in Application, ScanExpired(c, a) PROVE ReleasedWhenPaid'
  BY <1>16 DEF ScanExpired, At, Goto, Leave, Settle, ExpiryRefunds
<1>17. ASSUME NEW c \in Call, NEW a \in Application, Cancel(c, a) PROVE ReleasedWhenPaid'
  BY <1>17 DEF Cancel, At, Goto, Leave
<1>18. ASSUME NEW c \in Call, CommitCancel(c) PROVE ReleasedWhenPaid'
  BY <1>18 DEF CommitCancel, At, Goto, Leave
<1>19. ASSUME NEW c \in Call, AbortPendingUnlock(c) PROVE ReleasedWhenPaid'
  BY <1>19 DEF AbortPendingUnlock, At, Goto, Leave, Settle, AbortRefunds
<1>20. ASSUME NEW c \in Call, RefundEmployerSide(c) PROVE ReleasedWhenPaid'
  BY <1>20 DEF RefundEmployerSide, At, Goto, Leave
<1>21. ASSUME NEW c \in Call, RefundWorkerSide(c) PROVE ReleasedWhenPaid'
  BY <1>21 DEF RefundWorkerSide, At, Goto, Leave
<1>22. ASSUME NEW c \in Call, CloseAttempt(c) PROVE ReleasedWhenPaid'
  BY <1>22 DEF CloseAttempt, At, Goto, Leave
<1>23. ASSUME NEW c \in Call, SyncWaitingPayment(c) PROVE ReleasedWhenPaid'
  BY <1>23 DEF SyncWaitingPayment, At, Goto, Leave
<1>24. ASSUME NEW c \in Call, SettleInterrupted(c) PROVE ReleasedWhenPaid'
  BY <1>24 DEF SettleInterrupted, At, Goto, Leave
<1>25. ASSUME NEW a \in Application, Accept(a) PROVE ReleasedWhenPaid'
  BY <1>25 DEF Accept, At, Goto, Leave, InitiateUnlock
<1>26. ASSUME NEW a \in Application, CloseApplication(a) PROVE ReleasedWhenPaid'
  BY <1>26 DEF CloseApplication, At, Goto, Leave
<1>27. ASSUME NEW a \in Application, Expire(a) PROVE ReleasedWhenPaid'
  BY <1>27 DEF Expire, At, Goto, Leave
<1>28. ASSUME UNCHANGED vars PROVE ReleasedWhenPaid'
  BY <1>28 DEF vars
<1> QED
  BY <1>1, <1>2, <1>3, <1>4, <1>5, <1>6, <1>7, <1>8, <1>9, <1>10, <1>11,
     <1>12, <1>13, <1>14, <1>15, <1>16, <1>17, <1>18, <1>19, <1>20, <1>21,
     <1>22, <1>23, <1>24, <1>25, <1>26, <1>27, <1>28
     DEF Next, PayStep, SettleStep

\* Contacts are released and hires confirmed only for sides that paid or were
\* covered, for any number of concurrent payments, settlements and failures.
THEOREM ContactsReleasedWhenPaid == Spec => []ReleasedWhenPaid
<1> DEFINE I == Shape /\ Unaccepted /\ Carried /\ ReleasedWhenPaid
<1>1. ASSUME Init PROVE I
  <2>1. Shape
    BY <1>1, IdleIsCall DEF Init, Shape, ApplicationStatus, Status
  <2>2. \A c \in Call : call[c].pc = "idle" /\ call[c].todo = {} /\ call[c].unlocks = {}
    BY <1>1 DEF Init, Idle
  <2>3. Unaccepted /\ Carried /\ ReleasedWhenPaid
    BY <1>1, <2>2 DEF Init, Unaccepted, Carried, ReleasedWhenPaid, At, Paying, Settling
  <2> QED
    BY <2>1, <2>3
<1>2. I /\ [Next]_vars => I'
  BY ShapeStep, UnacceptedStep, CarriedStep, ReleasedStep
<1>3. I => ReleasedWhenPaid
  OBVIOUS
<1> QED
  BY <1>1, <1>2, <1>3, PTL DEF Spec

----------------------------------------------------------------------------
\* Units and their owners: an application that was not accepted uses none.
UnitsKept ==
  /\ unit \in [Application -> {"none", "used", "released"}]
  /\ unitsLeft \in Int
  /\ \A a \in Application : app[a] = "PENDING" => unit[a] = "none"

Used == {a \in Application : unit[a] = "used"}

\* Taking a unit for an attempt that has none.
LEMMA TakingAUnit ==
  ASSUME UnitsKept, PlanUnitsCounted, NEW a \in Application, unit[a] = "none",
         planUnits \in Plans, planUnits' = planUnits,
         unit' = [unit EXCEPT ![a] = "used"], unitsLeft' = unitsLeft - 1
  PROVE  PlanUnitsCounted'
<1>1. IsFiniteSet(Used)
  BY UnlockAssumption, FS_Subset DEF Used
<1>2. Used' = Used \cup {a} /\ a \notin Used
  BY DEF Used, UnitsKept
<1>3. Cardinality(Used') = Cardinality(Used) + 1
  BY <1>1, <1>2, FS_AddElement
<1>4. Cardinality(Used) \in Nat
  BY <1>1, FS_CardinalityType
<1> QED
  BY <1>3, <1>4, UnlockAssumption DEF PlanUnitsCounted, Used, UnitsKept

\* Giving a unit back, or finding that there is none to give back.
LEMMA GivingAUnitBack ==
  ASSUME UnitsKept, PlanUnitsCounted, NEW a \in Application, ReleaseUnit(a),
         planUnits \in Plans, planUnits' = planUnits
  PROVE  PlanUnitsCounted'
<1>1. CASE unit[a] = "used"
  <2>1. IsFiniteSet(Used)
    BY UnlockAssumption, FS_Subset DEF Used
  <2>2. Used' = Used \ {a} /\ a \in Used
    BY <1>1 DEF Used, UnitsKept, ReleaseUnit
  <2>3. Cardinality(Used') = Cardinality(Used) - 1
    BY <2>1, <2>2, FS_RemoveElement
  <2>4. Cardinality(Used) \in Nat
    BY <2>1, FS_CardinalityType
  <2>5. unitsLeft' = unitsLeft + 1
    BY <1>1 DEF ReleaseUnit
  <2> QED
    BY <2>3, <2>4, <2>5, UnlockAssumption DEF PlanUnitsCounted, Used, UnitsKept
<1>2. CASE unit[a] # "used"
  BY <1>2 DEF ReleaseUnit, PlanUnitsCounted
<1> QED
  BY <1>1, <1>2

\* Only accepting takes units, and only settling gives them back.
LEMMA UnitsStep ==
  ASSUME Shape, UnitsKept, Carried, [Next]_vars
  PROVE  UnitsKept'
<1> USE DEF UnitsKept, Shape, ApplicationStatus, Carried, At, rowVars, terms, offerVars, moneyVars
<1>1. ASSUME NEW c \in Call, NEW a \in Application, NEW s \in Side, NEW wallet \in BOOLEAN, PayUnlock(c, a, s, wallet) PROVE UnitsKept'
  BY <1>1 DEF PayUnlock, At, Goto, Leave
<1>2. ASSUME NEW c \in Call, Debit(c) PROVE UnitsKept'
  BY <1>2 DEF Debit, At, Goto, Leave
<1>3. ASSUME NEW c \in Call, RecordWalletUnlockPayment(c) PROVE UnitsKept'
  BY <1>3 DEF RecordWalletUnlockPayment, At, Goto, Leave
<1>4. ASSUME NEW c \in Call, RecordFails(c) PROVE UnitsKept'
  BY <1>4 DEF RecordFails, At, Goto, Leave
<1>5. ASSUME NEW c \in Call, Commit(c) PROVE UnitsKept'
  BY <1>5 DEF Commit, At, Goto, Leave, Abandon
<1>6. ASSUME NEW c \in Call, CommitFails(c) PROVE UnitsKept'
  BY <1>6 DEF CommitFails, At, Goto, Leave, Abandon
<1>7. ASSUME NEW c \in Call, MarkJobPaid(c) PROVE UnitsKept'
  BY <1>7 DEF MarkJobPaid, At, Goto, Leave
<1>8. ASSUME NEW c \in Call, LoadUnpaidAttempts(c) PROVE UnitsKept'
  BY <1>8 DEF LoadUnpaidAttempts, At, Goto, Leave
<1>9. ASSUME NEW c \in Call, NEW b \in Application, Cascade(c, b) PROVE UnitsKept'
  BY <1>9 DEF Cascade, At, Goto, Leave
<1>10. ASSUME NEW c \in Call, EndCascade(c) PROVE UnitsKept'
  BY <1>10 DEF EndCascade, At, Goto, Leave
<1>11. ASSUME NEW c \in Call, MarkAccepted(c) PROVE UnitsKept'
  BY <1>11 DEF MarkAccepted, At, Goto, Leave
<1>12. ASSUME NEW c \in Call, RejectLeftovers(c) PROVE UnitsKept'
  BY <1>12 DEF RejectLeftovers, At, Goto, Leave
<1>13. ASSUME NEW c \in Call, PayInterrupted(c) PROVE UnitsKept'
  BY <1>13 DEF PayInterrupted, At, Goto, Leave, Abandon
<1>14. ASSUME NEW c \in Call, RefundPayer(c) PROVE UnitsKept'
  BY <1>14 DEF RefundPayer, At, Goto, Leave
<1>15. ASSUME NEW c \in Call, RefundPayerFails(c) PROVE UnitsKept'
  BY <1>15 DEF RefundPayerFails, At, Goto, Leave
<1>16. ASSUME NEW c \in Call, NEW a \in Application, ScanExpired(c, a) PROVE UnitsKept'
  BY <1>16 DEF ScanExpired, At, Goto, Leave, Settle, ExpiryRefunds
<1>17. ASSUME NEW c \in Call, NEW a \in Application, Cancel(c, a) PROVE UnitsKept'
  BY <1>17 DEF Cancel, At, Goto, Leave
<1>18. ASSUME NEW c \in Call, CommitCancel(c) PROVE UnitsKept'
  BY <1>18 DEF CommitCancel, At, Goto, Leave
<1>19. ASSUME NEW c \in Call, AbortPendingUnlock(c) PROVE UnitsKept'
  BY <1>19 DEF AbortPendingUnlock, At, Goto, Leave, Settle, AbortRefunds
<1>20. ASSUME NEW c \in Call, RefundEmployerSide(c) PROVE UnitsKept'
  BY <1>20 DEF RefundEmployerSide, At, Goto, Leave, ReleaseUnit
<1>21. ASSUME NEW c \in Call, RefundWorkerSide(c) PROVE UnitsKept'
  BY <1>21 DEF RefundWorkerSide, At, Goto, Leave
<1>22. ASSUME NEW c \in Call, CloseAttempt(c) PROVE UnitsKept'
  BY <1>22 DEF CloseAttempt, At, Goto, Leave, ReleaseUnit
<1>23. ASSUME NEW c \in Call, SyncWaitingPayment(c) PROVE UnitsKept'
  BY <1>23 DEF SyncWaitingPayment, At, Goto, Leave
<1>24. ASSUME NEW c \in Call, SettleInterrupted(c) PROVE UnitsKept'
  BY <1>24 DEF SettleInterrupted, At, Goto, Leave
<1>25. ASSUME NEW a \in Application, Accept(a) PROVE UnitsKept'
  BY <1>25 DEF Accept, At, Goto, Leave, InitiateUnlock
<1>26. ASSUME NEW a \in Application, CloseApplication(a) PROVE UnitsKept'
  BY <1>26 DEF CloseApplication, At, Goto, Leave
<1>27. ASSUME NEW a \in Application, Expire(a) PROVE UnitsKept'
  BY <1>27 DEF Expire, At, Goto, Leave
<1>28. ASSUME UNCHANGED vars PROVE UnitsKept'
  BY <1>28 DEF vars
<1> QED
  BY <1>1, <1>2, <1>3, <1>4, <1>5, <1>6, <1>7, <1>8, <1>9, <1>10, <1>11,
     <1>12, <1>13, <1>14, <1>15, <1>16, <1>17, <1>18, <1>19, <1>20, <1>21,
     <1>22, <1>23, <1>24, <1>25, <1>26, <1>27, <1>28
     DEF Next, PayStep, SettleStep

\* Accepting and settling keep count of the units they move.
LEMMA CountedStep ==
  ASSUME Shape, UnitsKept, Carried, PlanUnitsCounted, [Next]_vars
  PROVE  PlanUnitsCounted'
<1> USE DEF PlanUnitsCounted, rowVars, terms, offerVars
<1>1. ASSUME NEW c \in Call, NEW a \in Application, NEW s \in Side, NEW wallet \in BOOLEAN, PayUnlock(c, a, s, wallet) PROVE PlanUnitsCounted'
  BY <1>1 DEF PayUnlock
<1>2. ASSUME NEW c \in Call, Debit(c) PROVE PlanUnitsCounted'
  BY <1>2 DEF Debit
<1>3. ASSUME NEW c \in Call, RecordWalletUnlockPayment(c) PROVE PlanUnitsCounted'
  BY <1>3 DEF RecordWalletUnlockPayment
<1>4. ASSUME NEW c \in Call, RecordFails(c) PROVE PlanUnitsCounted'
  BY <1>4 DEF RecordFails
<1>5. ASSUME NEW c \in Call, Commit(c) PROVE PlanUnitsCounted'
  BY <1>5 DEF Commit
<1>6. ASSUME NEW c \in Call, CommitFails(c) PROVE PlanUnitsCounted'
  BY <1>6 DEF CommitFails
<1>7. ASSUME NEW c \in Call, MarkJobPaid(c) PROVE PlanUnitsCounted'
  BY <1>7 DEF MarkJobPaid
<1>8. ASSUME NEW c \in Call, LoadUnpaidAttempts(c) PROVE PlanUnitsCounted'
  BY <1>8 DEF LoadUnpaidAttempts
<1>9. ASSUME NEW c \in Call, NEW b \in Application, Cascade(c, b) PROVE PlanUnitsCounted'
  BY <1>9 DEF Cascade
<1>10. ASSUME NEW c \in Call, EndCascade(c) PROVE PlanUnitsCounted'
  BY <1>10 DEF EndCascade
<1>11. ASSUME NEW c \in Call, MarkAccepted(c) PROVE PlanUnitsCounted'
  BY <1>11 DEF MarkAccepted
<1>12. ASSUME NEW c \in Call, RejectLeftovers(c) PROVE PlanUnitsCounted'
  BY <1>12 DEF RejectLeftovers
<1>13. ASSUME NEW c \in Call, PayInterrupted(c) PROVE PlanUnitsCounted'
  BY <1>13 DEF PayInterrupted
<1>14. ASSUME NEW c \in Call, RefundPayer(c) PROVE PlanUnitsCounted'
  BY <1>14 DEF RefundPayer
<1>15. ASSUME NEW c \in Call, RefundPayerFails(c) PROVE PlanUnitsCounted'
  BY <1>15 DEF RefundPayerFails
<1>16. ASSUME NEW c \in Call, NEW a \in Application, ScanExpired(c, a) PROVE PlanUnitsCounted'
  BY <1>16 DEF ScanExpired
<1>17. ASSUME NEW c \in Call, NEW a \in Application, Cancel(c, a) PROVE PlanUnitsCounted'
  BY <1>17 DEF Cancel
<1>18. ASSUME NEW c \in Call, CommitCancel(c) PROVE PlanUnitsCounted'
  BY <1>18 DEF CommitCancel
<1>19. ASSUME NEW c \in Call, AbortPendingUnlock(c) PROVE PlanUnitsCounted'
  BY <1>19 DEF AbortPendingUnlock
<1>20. ASSUME NEW c \in Call, RefundEmployerSide(c) PROVE PlanUnitsCounted'
  <2>0. planUnits \in Plans /\ planUnits' = planUnits
    BY <1>20 DEF RefundEmployerSide, Shape, terms, offerVars
  <2>1. call[c].app \in Application
    BY <1>20 DEF RefundEmployerSide, Carried, At
  <2>2. CASE ReleaseUnit(call[c].app)
    BY <2>0, <2>1, <2>2, GivingAUnitBack
  <2>3. CASE UNCHANGED <<unit, unitsLeft>>
    BY <2>0, <2>3 DEF PlanUnitsCounted
  <2> QED
    BY <1>20, <2>2, <2>3 DEF RefundEmployerSide
<1>21. ASSUME NEW c \in Call, RefundWorkerSide(c) PROVE PlanUnitsCounted'
  BY <1>21 DEF RefundWorkerSide
<1>22. ASSUME NEW c \in Call, CloseAttempt(c) PROVE PlanUnitsCounted'
  <2>0. planUnits \in Plans /\ planUnits' = planUnits
    BY <1>22 DEF CloseAttempt, Shape, terms, offerVars
  <2>1. call[c].app \in Application
    BY <1>22 DEF CloseAttempt, Carried, At
  <2>2. CASE ReleaseUnit(call[c].app)
    BY <2>0, <2>1, <2>2, GivingAUnitBack
  <2>3. CASE UNCHANGED <<unit, unitsLeft>>
    BY <2>0, <2>3 DEF PlanUnitsCounted
  <2> QED
    BY <1>22, <2>2, <2>3 DEF CloseAttempt
<1>23. ASSUME NEW c \in Call, SyncWaitingPayment(c) PROVE PlanUnitsCounted'
  BY <1>23 DEF SyncWaitingPayment
<1>24. ASSUME NEW c \in Call, SettleInterrupted(c) PROVE PlanUnitsCounted'
  BY <1>24 DEF SettleInterrupted
<1>25. ASSUME NEW a \in Application, Accept(a) PROVE PlanUnitsCounted'
  <2>0. planUnits \in Plans /\ planUnits' = planUnits
    BY <1>25 DEF Accept, Shape, terms
  <2>1. unit[a] = "none"
    BY <1>25 DEF Accept, UnitsKept
  <2>2. CASE ~CoveredAtJobLevel(jobPaid) /\ unitsLeft > 0
    <3>1. unit' = [unit EXCEPT ![a] = "used"] /\ unitsLeft' = unitsLeft - 1
      BY <1>25, <2>2 DEF Accept, InitiateUnlock
    <3> QED
      BY <2>0, <2>1, <3>1, TakingAUnit DEF UnitsKept
  <2>3. CASE ~(~CoveredAtJobLevel(jobPaid) /\ unitsLeft > 0)
    <3>1. unit' = [unit EXCEPT ![a] = "none"] /\ unitsLeft' = unitsLeft
      BY <1>25, <2>3 DEF Accept, InitiateUnlock
    <3>2. unit' = unit
      BY <2>1, <3>1 DEF UnitsKept
    <3> QED
      BY <2>0, <3>1, <3>2 DEF PlanUnitsCounted
  <2> QED
    BY <2>2, <2>3
<1>26. ASSUME NEW a \in Application, CloseApplication(a) PROVE PlanUnitsCounted'
  BY <1>26 DEF CloseApplication
<1>27. ASSUME NEW a \in Application, Expire(a) PROVE PlanUnitsCounted'
  BY <1>27 DEF Expire
<1>28. ASSUME UNCHANGED vars PROVE PlanUnitsCounted'
  BY <1>28 DEF vars
<1> QED
  BY <1>1, <1>2, <1>3, <1>4, <1>5, <1>6, <1>7, <1>8, <1>9, <1>10, <1>11,
     <1>12, <1>13, <1>14, <1>15, <1>16, <1>17, <1>18, <1>19, <1>20, <1>21,
     <1>22, <1>23, <1>24, <1>25, <1>26, <1>27, <1>28
     DEF Next, PayStep, SettleStep

\* releaseUnlock gives a unit back once and consume takes one only while there is
\* one: the plan's count of its units is right, whatever settlements race.
THEOREM PlanUnitsAreCounted == Spec => []PlanUnitsCounted
<1> DEFINE I == Shape /\ Unaccepted /\ Carried /\ UnitsKept /\ PlanUnitsCounted
<1>1. ASSUME Init PROVE I
  <2>1. Shape
    BY <1>1, IdleIsCall DEF Init, Shape, ApplicationStatus, Status
  <2>2. \A c \in Call : call[c].pc = "idle" /\ call[c].todo = {} /\ call[c].unlocks = {}
    BY <1>1 DEF Init, Idle
  <2>3. Unaccepted /\ Carried /\ UnitsKept
    BY <1>1, <2>2, UnlockAssumption
       DEF Init, Unaccepted, Carried, UnitsKept, At, Paying, Settling
  <2>4. {a \in Application : unit[a] = "used"} = {}
    BY <1>1 DEF Init
  <2>5. PlanUnitsCounted
    <3>1. Cardinality({a \in Application : unit[a] = "used"}) = 0
      BY <2>4, FS_EmptySet
    <3> QED
      BY <1>1, <3>1, UnlockAssumption DEF Init, PlanUnitsCounted
  <2> QED
    BY <2>1, <2>3, <2>5
<1>2. I /\ [Next]_vars => I'
  BY ShapeStep, UnacceptedStep, CarriedStep, UnitsStep, CountedStep
<1>3. I => PlanUnitsCounted
  OBVIOUS
<1> QED
  BY <1>1, <1>2, <1>3, PTL DEF Spec

----------------------------------------------------------------------------
\* The money, what was lost on the way, and calls that debit a wallet.
Money ==
  /\ charged \in [Application \X Side -> Nat]
  /\ refunded \in [Application \X Side -> Nat]
  /\ failures \in Nat
  /\ \A c \in Call : call[c].pc \in {"debit", "record"} => call[c].wallet

\* The call has debited its payer and not said so yet, or owes it a refund.
Limbo(c, a, s) ==
  /\ call[c].app = a /\ call[c].side = s
  /\ call[c].pc \in {"record", "payRefund"} \/ (call[c].pc = "commit" /\ call[c].wallet)

InLimbo(a, s) == {c \in Call : Limbo(c, a, s)}
Once(b) == IF b THEN 1 ELSE 0
HasPaid(a, s) == s \in hasPaid[a]

\* What a side has paid is what its mark stands for, or in limbo, or lost by a failure.
NetBound(a, s) ==
  charged[<<a, s>>] - refunded[<<a, s>>]
    <= Once(HasPaid(a, s)) + Cardinality(InLimbo(a, s)) + failures
NetBounded ==
  \A a \in Application, s \in Side :
    s = "worker" \/ quantity = 1 => NetBound(a, s)

\* Calls are countable.
LEMMA LimboIsFinite ==
  ASSUME NEW a, NEW s PROVE IsFiniteSet(InLimbo(a, s)) /\ Cardinality(InLimbo(a, s)) \in Nat
<1>1. InLimbo(a, s) \in SUBSET Call
  BY DEF InLimbo
<1> QED
  BY <1>1, UnlockAssumption, FS_Subset, FS_CardinalityType

\* Two sets that differ in one element at most.
LEMMA OneApart ==
  ASSUME NEW S, NEW T, NEW w, IsFiniteSet(S), S \ {w} = T \ {w}
  PROVE  /\ Cardinality(S) \in Nat /\ Cardinality(T) \in Nat
         /\ Cardinality(T) + Once(w \in S) = Cardinality(S) + Once(w \in T)
<1>1. /\ IsFiniteSet(S \ {w}) /\ Cardinality(S) \in Nat /\ Cardinality(S \ {w}) \in Nat
  BY FS_RemoveElement, FS_CardinalityType
<1>2. ASSUME NEW U, U \ {w} = S \ {w}
      PROVE  Cardinality(U) = Cardinality(S \ {w}) + Once(w \in U) /\ Cardinality(U) \in Nat
  <2>1. CASE w \in U
    <3>1. U = (S \ {w}) \cup {w}
      BY <1>2, <2>1
    <3>2. Cardinality(U) = Cardinality(S \ {w}) + 1
      BY <1>1, <3>1, FS_AddElement
    <3>3. Cardinality(U) \in Nat
      BY <1>1, <3>2
    <3> QED
      BY <3>2, <3>3, <2>1 DEF Once
  <2>2. CASE w \notin U
    <3>1. U = S \ {w}
      BY <1>2, <2>2
    <3>2. Cardinality(U) = Cardinality(S \ {w}) + 0 /\ Cardinality(U) \in Nat
      BY <1>1, <3>1
    <3> QED
      BY <3>2, <2>2 DEF Once
  <2> QED
    BY <2>1, <2>2
<1>3. Once(w \in S) \in {0, 1} /\ Once(w \in T) \in {0, 1}
  BY DEF Once
<1>4. Cardinality(S) = Cardinality(S \ {w}) + Once(w \in S)
  BY <1>2
<1>5. Cardinality(T) = Cardinality(S \ {w}) + Once(w \in T) /\ Cardinality(T) \in Nat
  BY <1>2
<1> QED
  BY <1>1, <1>3, <1>4, <1>5

\* A step of one call keeps a side's bound when what it takes is refunded, marked as
\* paid, in limbo or lost by a failure.
LEMMA NetKept ==
  ASSUME Money, Money', NEW c \in Call, NEW a \in Application, NEW s \in Side, NetBound(a, s),
         \A d \in Call \ {c} : call'[d] = call[d],
         charged'[<<a, s>>] + refunded[<<a, s>>] + Once(Limbo(c, a, s)) + failures + Once(HasPaid(a, s))
           <= charged[<<a, s>>] + refunded'[<<a, s>>] + Once(Limbo(c, a, s)') + failures'
                + Once(HasPaid(a, s)')
  PROVE  NetBound(a, s)'
<1>1. /\ charged[<<a, s>>] \in Nat /\ charged'[<<a, s>>] \in Nat /\ failures \in Nat /\ failures' \in Nat
      /\ refunded[<<a, s>>] \in Nat /\ refunded'[<<a, s>>] \in Nat
  BY DEF Money
<1>2. \A d \in Call \ {c} : Limbo(d, a, s)' = Limbo(d, a, s)
  BY DEF Limbo
<1>3. InLimbo(a, s)' \ {c} = InLimbo(a, s) \ {c}
  BY <1>2 DEF InLimbo
<1>4. Once(c \in InLimbo(a, s)) = Once(Limbo(c, a, s)) /\ Once(c \in InLimbo(a, s)') = Once(Limbo(c, a, s)')
  BY DEF InLimbo, Once
<1>5. /\ Cardinality(InLimbo(a, s)) \in Nat /\ Cardinality(InLimbo(a, s)') \in Nat
      /\ Cardinality(InLimbo(a, s)') + Once(Limbo(c, a, s)) = Cardinality(InLimbo(a, s)) + Once(Limbo(c, a, s)')
  BY <1>3, <1>4, LimboIsFinite, OneApart
<1>6. /\ Once(HasPaid(a, s)) \in {0, 1} /\ Once(HasPaid(a, s)') \in {0, 1}
      /\ Once(Limbo(c, a, s)) \in {0, 1} /\ Once(Limbo(c, a, s)') \in {0, 1}
  BY DEF Once
<1>7. charged[<<a, s>>] - refunded[<<a, s>>]
        <= Once(HasPaid(a, s)) + Cardinality(InLimbo(a, s)) + failures
  BY DEF NetBound
<1>8. charged'[<<a, s>>] - refunded'[<<a, s>>]
        <= Once(HasPaid(a, s)') + Cardinality(InLimbo(a, s)') + failures'
  BY <1>1, <1>5, <1>6, <1>7
<1> QED
  BY <1>8 DEF NetBound

\* A step that takes nothing, keeps what is in limbo and unmarks nobody.
LEMMA NetQuiet ==
  ASSUME Money, Money', NEW c \in Call, NEW a \in Application, NEW s \in Side, NetBound(a, s),
         \A d \in Call \ {c} : call'[d] = call[d],
         charged'[<<a, s>>] = charged[<<a, s>>], refunded'[<<a, s>>] >= refunded[<<a, s>>],
         failures' = failures,
         Limbo(c, a, s) => Limbo(c, a, s)', HasPaid(a, s) => HasPaid(a, s)'
  PROVE  NetBound(a, s)'
<1>1. /\ charged[<<a, s>>] \in Nat /\ failures \in Nat
      /\ refunded[<<a, s>>] \in Nat /\ refunded'[<<a, s>>] \in Nat
  BY DEF Money
<1>2. /\ Once(HasPaid(a, s)) \in {0, 1} /\ Once(HasPaid(a, s)') \in {0, 1}
      /\ Once(Limbo(c, a, s)) \in {0, 1} /\ Once(Limbo(c, a, s)') \in {0, 1}
  BY DEF Once
<1>3. Once(HasPaid(a, s)) <= Once(HasPaid(a, s)')
  BY DEF Once
<1>4. Once(Limbo(c, a, s)) <= Once(Limbo(c, a, s)')
  BY DEF Once
<1>5. charged'[<<a, s>>] + refunded[<<a, s>>] + Once(Limbo(c, a, s)) + failures + Once(HasPaid(a, s))
           <= charged[<<a, s>>] + refunded'[<<a, s>>] + Once(Limbo(c, a, s)') + failures'
                + Once(HasPaid(a, s)')
  BY <1>1, <1>2, <1>3, <1>4
<1> QED
  BY <1>5, NetKept

\* A step that moves no money and counts as a failure.
LEMMA NetFailed ==
  ASSUME Money, Money', NEW c \in Call, NEW a \in Application, NEW s \in Side, NetBound(a, s),
         \A d \in Call \ {c} : call'[d] = call[d],
         UNCHANGED <<charged, refunded, hasPaid>>, failures' = failures + 1
  PROVE  NetBound(a, s)'
<1>1. /\ charged[<<a, s>>] \in Nat /\ failures \in Nat /\ refunded[<<a, s>>] \in Nat
      /\ charged'[<<a, s>>] = charged[<<a, s>>] /\ refunded'[<<a, s>>] = refunded[<<a, s>>]
  BY DEF Money
<1>2. /\ Once(HasPaid(a, s)) \in {0, 1} /\ Once(HasPaid(a, s)') = Once(HasPaid(a, s))
      /\ Once(Limbo(c, a, s)) \in {0, 1} /\ Once(Limbo(c, a, s)') \in {0, 1}
  BY DEF Once, HasPaid
<1>3. charged'[<<a, s>>] + refunded[<<a, s>>] + Once(Limbo(c, a, s)) + failures + Once(HasPaid(a, s))
           <= charged[<<a, s>>] + refunded'[<<a, s>>] + Once(Limbo(c, a, s)') + failures'
                + Once(HasPaid(a, s)')
  BY <1>1, <1>2
<1> QED
  BY <1>3, NetKept

\* A step of no call.
LEMMA NetUntouched ==
  ASSUME NetBounded, Money, UNCHANGED <<call, charged, refunded, failures, quantity>>,
         \A a \in Application, s \in Side : HasPaid(a, s) => HasPaid(a, s)'
  PROVE  NetBounded'
<1> SUFFICES ASSUME NEW a \in Application, NEW s \in Side, s = "worker" \/ quantity = 1
             PROVE  NetBound(a, s)'
  BY DEF NetBounded
<1>1. InLimbo(a, s)' = InLimbo(a, s)
  BY DEF InLimbo, Limbo
<1>2. Once(HasPaid(a, s)) \in {0, 1} /\ Once(HasPaid(a, s)') \in {0, 1} /\ Once(HasPaid(a, s)) <= Once(HasPaid(a, s)')
  BY DEF Once
<1>3. charged[<<a, s>>] \in Nat /\ refunded[<<a, s>>] \in Nat /\ failures \in Nat
  BY DEF Money
<1>4. charged[<<a, s>>] - refunded[<<a, s>>]
        <= Once(HasPaid(a, s)) + Cardinality(InLimbo(a, s)) + failures
  BY DEF NetBounded, NetBound
<1>5. charged[<<a, s>>] - refunded[<<a, s>>]
        <= Once(HasPaid(a, s)') + Cardinality(InLimbo(a, s)) + failures
  BY <1>2, <1>3, <1>4, LimboIsFinite
<1> QED
  BY <1>1, <1>5 DEF NetBound

\* One payment or refund more.
LEMMA OneMorePaid ==
  ASSUME NEW f \in [Application \X Side -> Nat], NEW a \in Application, NEW s \in Side
  PROVE  [f EXCEPT ![<<a, s>>] = @ + 1] \in [Application \X Side -> Nat]
  OBVIOUS

\* What a call takes and gives back is counted.
LEMMA MoneyTyped ==
  ASSUME charged \in [Application \X Side -> Nat], refunded \in [Application \X Side -> Nat],
         NEW c \in Call, call[c].app \in Application, call[c].side \in Side,
         charged' = charged \/ Charge(c),
         refunded' = refunded \/ Refund(call[c].app, "employer") \/ Refund(call[c].app, "worker")
           \/ Refund(call[c].app, call[c].side)
  PROVE  charged' \in [Application \X Side -> Nat] /\ refunded' \in [Application \X Side -> Nat]
<1>1. charged' \in [Application \X Side -> Nat]
  <2>1. CASE Charge(c)
    BY <2>1, OneMorePaid DEF Charge
  <2> QED
    BY <2>1
<1>2. ASSUME NEW s \in Side, Refund(call[c].app, s) PROVE refunded' \in [Application \X Side -> Nat]
  BY <1>2, OneMorePaid DEF Refund
<1>3. "employer" \in Side /\ "worker" \in Side
  BY DEF Side
<1> QED
  BY <1>1, <1>2, <1>3

\* Every step keeps charges, refunds and failures counted.
LEMMA MoneyStep ==
  ASSUME Shape, Carried, Money, [Next]_vars
  PROVE  Money'
<1> USE DEF Shape, Money, CallState, Label, Idle, At, moneyVars, bounds, Goto, Leave
<1>1. ASSUME NEW c \in Call, NEW a \in Application, NEW s \in Side, NEW wallet \in BOOLEAN, PayUnlock(c, a, s, wallet) PROVE Money'
  BY <1>1 DEF PayUnlock, Fail, Abandon, Settle, Start
<1>2. ASSUME NEW c \in Call, Debit(c) PROVE Money'
  <2>1. call[c].app \in Application /\ call[c].side \in Side
    BY <1>2 DEF Carried, Debit
  <2>2. /\ charged' = charged \/ Charge(c)
        /\ refunded' = refunded \/ Refund(call[c].app, "employer") \/ Refund(call[c].app, "worker")
             \/ Refund(call[c].app, call[c].side)
        /\ failures' = failures
    BY <1>2 DEF Debit, Apply
  <2>3. charged' \in [Application \X Side -> Nat] /\ refunded' \in [Application \X Side -> Nat]
    BY <2>1, <2>2, MoneyTyped
  <2>4. \A d \in Call \ {c} : call'[d] = call[d]
    BY <1>2 DEF Debit, Abandon
  <2>5. call'[c].pc \in {"debit", "record"} => call'[c].wallet
    BY <1>2 DEF Debit, Abandon
  <2> QED
    BY <2>2, <2>3, <2>4, <2>5
<1>3. ASSUME NEW c \in Call, RecordWalletUnlockPayment(c) PROVE Money'
  BY <1>3 DEF RecordWalletUnlockPayment, Fail, Abandon, Settle, Start
<1>4. ASSUME NEW c \in Call, RecordFails(c) PROVE Money'
  BY <1>4 DEF RecordFails, Fail, Abandon, Settle, Start
<1>5. ASSUME NEW c \in Call, Commit(c) PROVE Money'
  <2>1. call[c].app \in Application /\ call[c].side \in Side
    BY <1>5 DEF Carried, Commit
  <2>2. /\ charged' = charged \/ Charge(c)
        /\ refunded' = refunded \/ Refund(call[c].app, "employer") \/ Refund(call[c].app, "worker")
             \/ Refund(call[c].app, call[c].side)
        /\ failures' = failures
    BY <1>5 DEF Commit, Apply
  <2>3. charged' \in [Application \X Side -> Nat] /\ refunded' \in [Application \X Side -> Nat]
    BY <2>1, <2>2, MoneyTyped
  <2>4. \A d \in Call \ {c} : call'[d] = call[d]
    BY <1>5 DEF Commit, Abandon
  <2>5. call'[c].pc \in {"debit", "record"} => call'[c].wallet
    BY <1>5 DEF Commit, Abandon
  <2> QED
    BY <2>2, <2>3, <2>4, <2>5
<1>6. ASSUME NEW c \in Call, CommitFails(c) PROVE Money'
  <2>1. /\ charged' = charged /\ refunded' = refunded
        /\ failures' = failures \/ failures' = failures + 1
    BY <1>6 DEF CommitFails, Fail
  <2>2. \A d \in Call \ {c} : call'[d] = call[d]
    BY <1>6 DEF CommitFails, Abandon, Settle
  <2>3. call'[c].pc \notin {"debit", "record"}
    BY <1>6 DEF CommitFails, Abandon, Settle
  <2> QED
    BY <2>1, <2>2, <2>3
<1>7. ASSUME NEW c \in Call, MarkJobPaid(c) PROVE Money'
  <2>1. call[c].app \in Application /\ call[c].side \in Side
    BY <1>7 DEF Carried, MarkJobPaid
  <2>2. /\ charged' = charged \/ Charge(c)
        /\ refunded' = refunded \/ Refund(call[c].app, "employer") \/ Refund(call[c].app, "worker")
             \/ Refund(call[c].app, call[c].side)
        /\ failures' = failures
    BY <1>7 DEF MarkJobPaid, Apply
  <2>3. charged' \in [Application \X Side -> Nat] /\ refunded' \in [Application \X Side -> Nat]
    BY <2>1, <2>2, MoneyTyped
  <2>4. \A d \in Call \ {c} : call'[d] = call[d]
    BY <1>7 DEF MarkJobPaid, Abandon
  <2>5. call'[c].pc \in {"debit", "record"} => call'[c].wallet
    BY <1>7 DEF MarkJobPaid, Abandon
  <2> QED
    BY <2>2, <2>3, <2>4, <2>5
<1>8. ASSUME NEW c \in Call, LoadUnpaidAttempts(c) PROVE Money'
  BY ZenonT(60), <1>8 DEF LoadUnpaidAttempts, Fail, Abandon, Settle, Start
<1>9. ASSUME NEW c \in Call, NEW b \in Application, Cascade(c, b) PROVE Money'
  BY <1>9 DEF Cascade, Fail, Abandon, Settle, Start
<1>10. ASSUME NEW c \in Call, EndCascade(c) PROVE Money'
  <2>1. /\ charged' = charged /\ refunded' = refunded
        /\ failures' = failures \/ failures' = failures + 1
    BY <1>10 DEF EndCascade, Fail
  <2>2. \A d \in Call \ {c} : call'[d] = call[d]
    BY <1>10 DEF EndCascade, Abandon, Settle
  <2>3. call'[c].pc \notin {"debit", "record"}
    BY <1>10 DEF EndCascade, Abandon, Settle
  <2> QED
    BY <2>1, <2>2, <2>3
<1>11. ASSUME NEW c \in Call, MarkAccepted(c) PROVE Money'
  BY <1>11 DEF MarkAccepted, Fail, Abandon, Settle, Start
<1>12. ASSUME NEW c \in Call, RejectLeftovers(c) PROVE Money'
  BY <1>12 DEF RejectLeftovers, Fail, Abandon, Settle, Start
<1>13. ASSUME NEW c \in Call, PayInterrupted(c) PROVE Money'
  BY <1>13 DEF PayInterrupted, Fail, Abandon, Settle, Start
<1>14. ASSUME NEW c \in Call, RefundPayer(c) PROVE Money'
  <2>1. call[c].app \in Application /\ call[c].side \in Side
    BY <1>14 DEF Carried, RefundPayer
  <2>2. /\ charged' = charged \/ Charge(c)
        /\ refunded' = refunded \/ Refund(call[c].app, "employer") \/ Refund(call[c].app, "worker")
             \/ Refund(call[c].app, call[c].side)
        /\ failures' = failures
    BY <1>14 DEF RefundPayer, Apply
  <2>3. charged' \in [Application \X Side -> Nat] /\ refunded' \in [Application \X Side -> Nat]
    BY <2>1, <2>2, MoneyTyped
  <2>4. \A d \in Call \ {c} : call'[d] = call[d]
    BY <1>14 DEF RefundPayer, Abandon
  <2>5. call'[c].pc \in {"debit", "record"} => call'[c].wallet
    BY <1>14 DEF RefundPayer, Abandon
  <2> QED
    BY <2>2, <2>3, <2>4, <2>5
<1>15. ASSUME NEW c \in Call, RefundPayerFails(c) PROVE Money'
  BY <1>15 DEF RefundPayerFails, Fail, Abandon, Settle, Start
<1>16. ASSUME NEW c \in Call, NEW a \in Application, ScanExpired(c, a) PROVE Money'
  BY <1>16 DEF ScanExpired, Fail, Abandon, Settle, Start
<1>17. ASSUME NEW c \in Call, NEW a \in Application, Cancel(c, a) PROVE Money'
  BY <1>17 DEF Cancel, Fail, Abandon, Settle, Start
<1>18. ASSUME NEW c \in Call, CommitCancel(c) PROVE Money'
  BY <1>18 DEF CommitCancel, Fail, Abandon, Settle, Start
<1>19. ASSUME NEW c \in Call, AbortPendingUnlock(c) PROVE Money'
  <2>1. /\ charged' = charged /\ refunded' = refunded
        /\ failures' = failures \/ failures' = failures + 1
    BY <1>19 DEF AbortPendingUnlock, Fail
  <2>2. \A d \in Call \ {c} : call'[d] = call[d]
    BY <1>19 DEF AbortPendingUnlock, Abandon, Settle
  <2>3. call'[c].pc \notin {"debit", "record"}
    <3>1. CASE Leave(c)
      BY <3>1
    <3>2. CASE Settle(c, call[c].app, FALSE, AbortRefunds(call[c].app))
      <4>1. call'[c].pc = "settle"
        BY <3>2 DEF Settle
      <4> QED
        BY <4>1
    <3> QED
      BY <1>19, <3>1, <3>2 DEF AbortPendingUnlock
  <2> QED
    BY <2>1, <2>2, <2>3
<1>20. ASSUME NEW c \in Call, RefundEmployerSide(c) PROVE Money'
  <2>1. call[c].app \in Application /\ call[c].side \in Side
    BY <1>20 DEF Carried, RefundEmployerSide
  <2>2. /\ charged' = charged \/ Charge(c)
        /\ refunded' = refunded \/ Refund(call[c].app, "employer") \/ Refund(call[c].app, "worker")
             \/ Refund(call[c].app, call[c].side)
        /\ failures' = failures
    BY <1>20 DEF RefundEmployerSide, Apply
  <2>3. charged' \in [Application \X Side -> Nat] /\ refunded' \in [Application \X Side -> Nat]
    BY <2>1, <2>2, MoneyTyped
  <2>4. \A d \in Call \ {c} : call'[d] = call[d]
    BY <1>20 DEF RefundEmployerSide, Abandon
  <2>5. call'[c].pc \in {"debit", "record"} => call'[c].wallet
    BY <1>20 DEF RefundEmployerSide, Abandon
  <2> QED
    BY <2>2, <2>3, <2>4, <2>5
<1>21. ASSUME NEW c \in Call, RefundWorkerSide(c) PROVE Money'
  <2>1. call[c].app \in Application /\ call[c].side \in Side
    BY <1>21 DEF Carried, RefundWorkerSide
  <2>2. /\ charged' = charged \/ Charge(c)
        /\ refunded' = refunded \/ Refund(call[c].app, "employer") \/ Refund(call[c].app, "worker")
             \/ Refund(call[c].app, call[c].side)
        /\ failures' = failures
    BY <1>21 DEF RefundWorkerSide, Apply
  <2>3. charged' \in [Application \X Side -> Nat] /\ refunded' \in [Application \X Side -> Nat]
    BY <2>1, <2>2, MoneyTyped
  <2>4. \A d \in Call \ {c} : call'[d] = call[d]
    BY <1>21 DEF RefundWorkerSide, Abandon
  <2>5. call'[c].pc \in {"debit", "record"} => call'[c].wallet
    BY <1>21 DEF RefundWorkerSide, Abandon
  <2> QED
    BY <2>2, <2>3, <2>4, <2>5
<1>22. ASSUME NEW c \in Call, CloseAttempt(c) PROVE Money'
  BY <1>22 DEF CloseAttempt, Fail, Abandon, Settle, Start
<1>23. ASSUME NEW c \in Call, SyncWaitingPayment(c) PROVE Money'
  BY <1>23 DEF SyncWaitingPayment, Fail, Abandon, Settle, Start
<1>24. ASSUME NEW c \in Call, SettleInterrupted(c) PROVE Money'
  BY <1>24 DEF SettleInterrupted, Fail, Abandon, Settle, Start
<1>25. ASSUME NEW a \in Application, Accept(a) PROVE Money'
  BY <1>25 DEF Accept, Fail, Abandon, Settle, Start
<1>26. ASSUME NEW a \in Application, CloseApplication(a) PROVE Money'
  BY <1>26 DEF CloseApplication, Fail, Abandon, Settle, Start
<1>27. ASSUME NEW a \in Application, Expire(a) PROVE Money'
  BY <1>27 DEF Expire, Fail, Abandon, Settle, Start
<1>28. ASSUME UNCHANGED vars PROVE Money'
  BY <1>28 DEF vars
<1> HIDE DEF Shape, Money, At, Goto, Leave, Idle, Label, CallState
<1> QED
  BY <1>1, <1>2, <1>3, <1>4, <1>5, <1>6, <1>7, <1>8, <1>9, <1>10, <1>11,
     <1>12, <1>13, <1>14, <1>15, <1>16, <1>17, <1>18, <1>19, <1>20, <1>21,
     <1>22, <1>23, <1>24, <1>25, <1>26, <1>27, <1>28
     DEF Next, PayStep, SettleStep

\* Every step keeps what a side pays bounded.
LEMMA NetStep ==
  ASSUME Shape, Unaccepted, Carried, Money, Money', NetBounded, [Next]_vars
  PROVE  NetBounded'
<1>1. ASSUME NEW c \in Call, NEW a \in Application, NEW s \in Side, NEW wallet \in BOOLEAN, PayUnlock(c, a, s, wallet) PROVE NetBounded'
  <2> SUFFICES ASSUME NEW x \in Application, NEW t \in Side, t = "worker" \/ quantity' = 1
               PROVE  NetBound(x, t)'
    BY DEF NetBounded
  <2>1. NetBound(x, t) /\ quantity' = quantity
    BY <1>1 DEF NetBounded, PayUnlock, rowVars, offerVars, terms
  <2>2. \A d \in Call \ {c} : call'[d] = call[d]
    BY <1>1 DEF PayUnlock, Goto, Leave, Abandon, Settle, Shape
  <2>3. charged'[<<x, t>>] = charged[<<x, t>>] /\ failures' = failures
    BY <1>1, <2>1 DEF PayUnlock, moneyVars, bounds, Start, Settle
  <2>4. refunded'[<<x, t>>] >= refunded[<<x, t>>]
    <3>1. refunded[<<x, t>>] \in Nat
      BY DEF Money
    <3>2. refunded' = refunded
      BY <1>1 DEF PayUnlock, moneyVars
    <3> QED
      BY <3>1, <3>2
  <2>5. Limbo(c, x, t) => Limbo(c, x, t)'
    BY <1>1, <2>1 DEF PayUnlock, Limbo, At, Goto, Leave, Settle, Shape, CallState, Label, Idle
  <2>6. HasPaid(x, t) => HasPaid(x, t)'
    BY <1>1 DEF PayUnlock, HasPaid, rowVars, Shape
  <2> QED
    BY <2>1, <2>2, <2>3, <2>4, <2>5, <2>6, NetQuiet
<1>2. ASSUME NEW c \in Call, Debit(c) PROVE NetBounded'
  <2> SUFFICES ASSUME NEW x \in Application, NEW t \in Side, t = "worker" \/ quantity' = 1
               PROVE  NetBound(x, t)'
    BY DEF NetBounded
  <2>1. NetBound(x, t) /\ quantity' = quantity
    BY <1>2 DEF NetBounded, Debit, rowVars, offerVars, terms
  <2>2. \A d \in Call \ {c} : call'[d] = call[d]
    BY <1>2 DEF Debit, Goto, Leave, Abandon, Settle, Shape
  <2>3. CASE Leave(c) /\ UNCHANGED charged
    <3>1. ~Limbo(c, x, t)
      BY <1>2 DEF Debit, At, Limbo
    <3>2. refunded[<<x, t>>] \in Nat
      BY DEF Money
    <3> QED
      BY <1>2, <2>1, <2>2, <2>3, <3>1, <3>2, NetQuiet DEF Debit, rowVars, bounds, HasPaid
  <2>4. CASE Charge(c) /\ Goto(c, "record")
    <3>0. UNCHANGED <<refunded, failures, hasPaid>>
      BY <1>2 DEF Debit, rowVars, bounds
    <3>1. CASE x = call[c].app /\ t = call[c].side
      <4>1. charged'[<<x, t>>] = charged[<<x, t>>] + 1 /\ charged[<<x, t>>] \in Nat /\ refunded[<<x, t>>] \in Nat
        BY <2>4, <3>1 DEF Charge, Money
      <4>2. ~Limbo(c, x, t) /\ Limbo(c, x, t)'
        BY <1>2, <2>4, <3>1 DEF Debit, At, Limbo, Goto, Shape, CallState, Label
      <4>3. Once(Limbo(c, x, t)) = 0 /\ Once(Limbo(c, x, t)') = 1 /\ Once(HasPaid(x, t)) \in {0, 1}
            /\ Once(HasPaid(x, t)') = Once(HasPaid(x, t)) /\ failures \in Nat
        BY <3>0, <4>2 DEF Once, HasPaid, Money
      <4>4. charged'[<<x, t>>] + refunded[<<x, t>>] + Once(Limbo(c, x, t)) + failures + Once(HasPaid(x, t))
              <= charged[<<x, t>>] + refunded'[<<x, t>>] + Once(Limbo(c, x, t)') + failures' + Once(HasPaid(x, t)')
        BY <3>0, <4>1, <4>3
      <4> QED
        BY <2>1, <2>2, <4>4, NetKept
    <3>2. CASE ~(x = call[c].app /\ t = call[c].side)
      <4>1. charged'[<<x, t>>] = charged[<<x, t>>] /\ refunded[<<x, t>>] \in Nat
        BY <2>4, <3>2 DEF Charge, Money
      <4>2. ~Limbo(c, x, t)
        BY <3>2 DEF Limbo
      <4> QED
        BY <2>1, <2>2, <3>0, <4>1, <4>2, NetQuiet DEF HasPaid
    <3> QED
      BY <3>1, <3>2
  <2> QED
    BY <1>2, <2>3, <2>4 DEF Debit
<1>3. ASSUME NEW c \in Call, RecordWalletUnlockPayment(c) PROVE NetBounded'
  <2> SUFFICES ASSUME NEW x \in Application, NEW t \in Side, t = "worker" \/ quantity' = 1
               PROVE  NetBound(x, t)'
    BY DEF NetBounded
  <2>1. NetBound(x, t) /\ quantity' = quantity
    BY <1>3 DEF NetBounded, RecordWalletUnlockPayment, rowVars, offerVars, terms
  <2>2. \A d \in Call \ {c} : call'[d] = call[d]
    BY <1>3 DEF RecordWalletUnlockPayment, Goto, Leave, Abandon, Settle, Shape
  <2>3. charged'[<<x, t>>] = charged[<<x, t>>] /\ failures' = failures
    BY <1>3, <2>1 DEF RecordWalletUnlockPayment, moneyVars, bounds, Start, Settle
  <2>4. refunded'[<<x, t>>] >= refunded[<<x, t>>]
    <3>1. refunded[<<x, t>>] \in Nat
      BY DEF Money
    <3>2. refunded' = refunded
      BY <1>3 DEF RecordWalletUnlockPayment, moneyVars
    <3> QED
      BY <3>1, <3>2
  <2>5. Limbo(c, x, t) => Limbo(c, x, t)'
    BY <1>3, <2>1 DEF RecordWalletUnlockPayment, Limbo, At, Goto, Leave, Settle, Shape, CallState, Label, Idle, Money
  <2>6. HasPaid(x, t) => HasPaid(x, t)'
    BY <1>3 DEF RecordWalletUnlockPayment, HasPaid, rowVars, Shape
  <2> QED
    BY <2>1, <2>2, <2>3, <2>4, <2>5, <2>6, NetQuiet
<1>4. ASSUME NEW c \in Call, RecordFails(c) PROVE NetBounded'
  <2> SUFFICES ASSUME NEW x \in Application, NEW t \in Side, t = "worker" \/ quantity' = 1
               PROVE  NetBound(x, t)'
    BY DEF NetBounded
  <2>1. NetBound(x, t) /\ quantity' = quantity
    BY <1>4 DEF NetBounded, RecordFails, rowVars, offerVars, terms
  <2>2. \A d \in Call \ {c} : call'[d] = call[d]
    BY <1>4 DEF RecordFails, Goto, Leave, Abandon, Settle, Shape
  <2>3. UNCHANGED <<charged, refunded, hasPaid>> /\ failures' = failures + 1
    BY <1>4 DEF RecordFails, Fail, moneyVars, rowVars
  <2> QED
    BY <2>1, <2>2, <2>3, NetFailed
<1>5. ASSUME NEW c \in Call, Commit(c) PROVE NetBounded'
  <2> SUFFICES ASSUME NEW x \in Application, NEW t \in Side, t = "worker" \/ quantity' = 1
               PROVE  NetBound(x, t)'
    BY DEF NetBounded
  <2>1. NetBound(x, t) /\ quantity' = quantity
    BY <1>5 DEF NetBounded, Commit, rowVars, offerVars, terms
  <2>2. \A d \in Call \ {c} : call'[d] = call[d]
    BY <1>5 DEF Commit, Goto, Leave, Abandon, Settle, Shape
  <2>3. UNCHANGED <<refunded, failures>> /\ At(c, "commit") /\ refunded[<<x, t>>] \in Nat /\ charged[<<x, t>>] \in Nat /\ failures \in Nat
    BY <1>5 DEF Commit, bounds, Money
  <2>4. HasPaid(x, t) => HasPaid(x, t)'
    BY <1>5 DEF Commit, HasPaid, Shape
  <2>5. CASE x # call[c].app \/ t # call[c].side
    <3>1. charged'[<<x, t>>] = charged[<<x, t>>]
      BY <1>5, <2>5 DEF Commit, Apply, Charge, Money
    <3>2. ~Limbo(c, x, t)
      BY <2>5 DEF Limbo
    <3> QED
      BY <2>1, <2>2, <2>3, <2>4, <3>1, <3>2, NetQuiet
  <2>6. CASE x = call[c].app /\ t = call[c].side /\ t \in hasPaid[x]
    <3>1. charged' = charged /\ Abandon(c)
      BY <1>5, <2>6 DEF Commit
    <3>2. Limbo(c, x, t) => Limbo(c, x, t)'
      BY <2>3, <2>6, <3>1 DEF Limbo, Abandon, Goto, At, Shape, CallState, Label
    <3> QED
      BY <2>1, <2>2, <2>3, <2>4, <3>1, <3>2, NetQuiet
  <2>7. CASE x = call[c].app /\ t = call[c].side /\ t \notin hasPaid[x]
    <3>1. Apply(c) /\ hasPaid' = [hasPaid EXCEPT ![x] = @ \cup {t}]
      BY <1>5, <2>7 DEF Commit
    <3>2. ~HasPaid(x, t) /\ HasPaid(x, t)'
      BY <2>7, <3>1 DEF HasPaid, Shape
    <3>3. Once(HasPaid(x, t)) = 0 /\ Once(HasPaid(x, t)') = 1
      BY <3>2 DEF Once
    <3>4. Once(Limbo(c, x, t)) \in {0, 1} /\ Once(Limbo(c, x, t)') \in {0, 1}
      BY DEF Once
    <3>5. CASE call[c].wallet
      <4>1. charged'[<<x, t>>] = charged[<<x, t>>]
        BY <3>1, <3>5 DEF Apply
      <4>2. charged'[<<x, t>>] + refunded[<<x, t>>] + Once(Limbo(c, x, t)) + failures + Once(HasPaid(x, t))
              <= charged[<<x, t>>] + refunded'[<<x, t>>] + Once(Limbo(c, x, t)') + failures' + Once(HasPaid(x, t)')
        BY <2>3, <3>3, <3>4, <4>1
      <4> QED
        BY <2>1, <2>2, <4>2, NetKept
    <3>6. CASE ~call[c].wallet
      <4>1. charged'[<<x, t>>] = charged[<<x, t>>] + 1
        BY <2>7, <3>1, <3>6 DEF Apply, Charge, Money
      <4>2. ~Limbo(c, x, t)
        BY <2>3, <3>6 DEF Limbo, At
      <4>3. Once(Limbo(c, x, t)) = 0
        BY <4>2 DEF Once
      <4>4. charged'[<<x, t>>] + refunded[<<x, t>>] + Once(Limbo(c, x, t)) + failures + Once(HasPaid(x, t))
              <= charged[<<x, t>>] + refunded'[<<x, t>>] + Once(Limbo(c, x, t)') + failures' + Once(HasPaid(x, t)')
        BY <2>3, <3>3, <3>4, <4>1, <4>3
      <4> QED
        BY <2>1, <2>2, <4>4, NetKept
    <3> QED
      BY <3>5, <3>6
  <2> QED
    BY <2>5, <2>6, <2>7
<1>6. ASSUME NEW c \in Call, CommitFails(c) PROVE NetBounded'
  <2> SUFFICES ASSUME NEW x \in Application, NEW t \in Side, t = "worker" \/ quantity' = 1
               PROVE  NetBound(x, t)'
    BY DEF NetBounded
  <2>1. NetBound(x, t) /\ quantity' = quantity
    BY <1>6 DEF NetBounded, CommitFails, rowVars, offerVars, terms
  <2>2. \A d \in Call \ {c} : call'[d] = call[d]
    BY <1>6 DEF CommitFails, Goto, Leave, Abandon, Settle, Shape
  <2>3. UNCHANGED <<charged, refunded, hasPaid>> /\ failures' = failures + 1
    BY <1>6 DEF CommitFails, Fail, moneyVars, rowVars
  <2> QED
    BY <2>1, <2>2, <2>3, NetFailed
<1>7. ASSUME NEW c \in Call, MarkJobPaid(c) PROVE NetBounded'
  <2> SUFFICES ASSUME NEW x \in Application, NEW t \in Side, t = "worker" \/ quantity' = 1
               PROVE  NetBound(x, t)'
    BY DEF NetBounded
  <2>1. NetBound(x, t) /\ quantity' = quantity
    BY <1>7 DEF NetBounded, MarkJobPaid, rowVars, offerVars, terms
  <2>2. \A d \in Call \ {c} : call'[d] = call[d]
    BY <1>7 DEF MarkJobPaid, Goto, Leave, Abandon, Settle, Shape
  <2>3. charged'[<<x, t>>] = charged[<<x, t>>] /\ failures' = failures
    BY <1>7, <2>1 DEF MarkJobPaid, moneyVars, bounds, Start, Settle, PaysForJob, Charge, Apply, Money
  <2>4. refunded'[<<x, t>>] >= refunded[<<x, t>>]
    <3>1. refunded[<<x, t>>] \in Nat
      BY DEF Money
    <3>2. refunded' = refunded
      BY <1>7 DEF MarkJobPaid, moneyVars
    <3> QED
      BY <3>1, <3>2
  <2>5. Limbo(c, x, t) => Limbo(c, x, t)'
    BY <1>7, <2>1 DEF MarkJobPaid, Limbo, At, Goto, Leave, Settle, Shape, CallState, Label, Idle, PaysForJob, Charge, Apply
  <2>6. HasPaid(x, t) => HasPaid(x, t)'
    BY <1>7 DEF MarkJobPaid, HasPaid, rowVars, Shape
  <2> QED
    BY <2>1, <2>2, <2>3, <2>4, <2>5, <2>6, NetQuiet
<1>8. ASSUME NEW c \in Call, LoadUnpaidAttempts(c) PROVE NetBounded'
  <2> SUFFICES ASSUME NEW x \in Application, NEW t \in Side, t = "worker" \/ quantity' = 1
               PROVE  NetBound(x, t)'
    BY DEF NetBounded
  <2>1. NetBound(x, t) /\ quantity' = quantity
    BY <1>8 DEF NetBounded, LoadUnpaidAttempts, rowVars, offerVars, terms
  <2>2. \A d \in Call \ {c} : call'[d] = call[d]
    BY <1>8 DEF LoadUnpaidAttempts, Goto, Leave, Abandon, Settle, Shape
  <2>3. charged'[<<x, t>>] = charged[<<x, t>>] /\ failures' = failures
    BY <1>8, <2>1 DEF LoadUnpaidAttempts, moneyVars, bounds, Start, Settle
  <2>4. refunded'[<<x, t>>] >= refunded[<<x, t>>]
    <3>1. refunded[<<x, t>>] \in Nat
      BY DEF Money
    <3>2. refunded' = refunded
      BY <1>8 DEF LoadUnpaidAttempts, moneyVars
    <3> QED
      BY <3>1, <3>2
  <2>5. Limbo(c, x, t) => Limbo(c, x, t)'
    BY <1>8, <2>1 DEF LoadUnpaidAttempts, Limbo, At, Goto, Leave, Settle, Shape, CallState, Label, Idle
  <2>6. HasPaid(x, t) => HasPaid(x, t)'
    BY <1>8 DEF LoadUnpaidAttempts, HasPaid, rowVars, Shape
  <2> QED
    BY <2>1, <2>2, <2>3, <2>4, <2>5, <2>6, NetQuiet
<1>9. ASSUME NEW c \in Call, NEW b \in Application, Cascade(c, b) PROVE NetBounded'
  <2> SUFFICES ASSUME NEW x \in Application, NEW t \in Side, t = "worker" \/ quantity' = 1
               PROVE  NetBound(x, t)'
    BY DEF NetBounded
  <2>1. NetBound(x, t) /\ quantity' = quantity
    BY <1>9 DEF NetBounded, Cascade, rowVars, offerVars, terms
  <2>2. \A d \in Call \ {c} : call'[d] = call[d]
    BY <1>9 DEF Cascade, Goto, Leave, Abandon, Settle, Shape
  <2>3. charged'[<<x, t>>] = charged[<<x, t>>] /\ failures' = failures
    BY <1>9, <2>1 DEF Cascade, moneyVars, bounds, Start, Settle
  <2>4. refunded'[<<x, t>>] >= refunded[<<x, t>>]
    <3>1. refunded[<<x, t>>] \in Nat
      BY DEF Money
    <3>2. refunded' = refunded
      BY <1>9 DEF Cascade, moneyVars
    <3> QED
      BY <3>1, <3>2
  <2>5. Limbo(c, x, t) => Limbo(c, x, t)'
    BY <1>9, <2>1 DEF Cascade, Limbo, At, Goto, Leave, Settle, Shape, CallState, Label, Idle
  <2>6. HasPaid(x, t) => HasPaid(x, t)'
    BY <1>9 DEF Cascade, HasPaid, rowVars, Shape
  <2> QED
    BY <2>1, <2>2, <2>3, <2>4, <2>5, <2>6, NetQuiet
<1>10. ASSUME NEW c \in Call, EndCascade(c) PROVE NetBounded'
  <2> SUFFICES ASSUME NEW x \in Application, NEW t \in Side, t = "worker" \/ quantity' = 1
               PROVE  NetBound(x, t)'
    BY DEF NetBounded
  <2>1. NetBound(x, t) /\ quantity' = quantity
    BY <1>10 DEF NetBounded, EndCascade, rowVars, offerVars, terms
  <2>2. \A d \in Call \ {c} : call'[d] = call[d]
    BY <1>10 DEF EndCascade, Goto, Leave, Abandon, Settle, Shape
  <2>3. charged'[<<x, t>>] = charged[<<x, t>>] /\ failures' = failures
    BY <1>10, <2>1 DEF EndCascade, moneyVars, bounds, Start, Settle
  <2>4. refunded'[<<x, t>>] >= refunded[<<x, t>>]
    <3>1. refunded[<<x, t>>] \in Nat
      BY DEF Money
    <3>2. refunded' = refunded
      BY <1>10 DEF EndCascade, moneyVars
    <3> QED
      BY <3>1, <3>2
  <2>5. Limbo(c, x, t) => Limbo(c, x, t)'
    BY <1>10, <2>1 DEF EndCascade, Limbo, At, Goto, Leave, Settle, Shape, CallState, Label, Idle
  <2>6. HasPaid(x, t) => HasPaid(x, t)'
    BY <1>10 DEF EndCascade, HasPaid, rowVars, Shape
  <2> QED
    BY <2>1, <2>2, <2>3, <2>4, <2>5, <2>6, NetQuiet
<1>11. ASSUME NEW c \in Call, MarkAccepted(c) PROVE NetBounded'
  <2> SUFFICES ASSUME NEW x \in Application, NEW t \in Side, t = "worker" \/ quantity' = 1
               PROVE  NetBound(x, t)'
    BY DEF NetBounded
  <2>1. NetBound(x, t) /\ quantity' = quantity
    BY <1>11 DEF NetBounded, MarkAccepted, rowVars, offerVars, terms
  <2>2. \A d \in Call \ {c} : call'[d] = call[d]
    BY <1>11 DEF MarkAccepted, Goto, Leave, Abandon, Settle, Shape
  <2>3. charged'[<<x, t>>] = charged[<<x, t>>] /\ failures' = failures
    BY <1>11, <2>1 DEF MarkAccepted, moneyVars, bounds, Start, Settle
  <2>4. refunded'[<<x, t>>] >= refunded[<<x, t>>]
    <3>1. refunded[<<x, t>>] \in Nat
      BY DEF Money
    <3>2. refunded' = refunded
      BY <1>11 DEF MarkAccepted, moneyVars
    <3> QED
      BY <3>1, <3>2
  <2>5. Limbo(c, x, t) => Limbo(c, x, t)'
    BY <1>11, <2>1 DEF MarkAccepted, Limbo, At, Goto, Leave, Settle, Shape, CallState, Label, Idle
  <2>6. HasPaid(x, t) => HasPaid(x, t)'
    BY <1>11 DEF MarkAccepted, HasPaid, rowVars, Shape
  <2> QED
    BY <2>1, <2>2, <2>3, <2>4, <2>5, <2>6, NetQuiet
<1>12. ASSUME NEW c \in Call, RejectLeftovers(c) PROVE NetBounded'
  <2> SUFFICES ASSUME NEW x \in Application, NEW t \in Side, t = "worker" \/ quantity' = 1
               PROVE  NetBound(x, t)'
    BY DEF NetBounded
  <2>1. NetBound(x, t) /\ quantity' = quantity
    BY <1>12 DEF NetBounded, RejectLeftovers, rowVars, offerVars, terms
  <2>2. \A d \in Call \ {c} : call'[d] = call[d]
    BY <1>12 DEF RejectLeftovers, Goto, Leave, Abandon, Settle, Shape
  <2>3. charged'[<<x, t>>] = charged[<<x, t>>] /\ failures' = failures
    BY <1>12, <2>1 DEF RejectLeftovers, moneyVars, bounds, Start, Settle
  <2>4. refunded'[<<x, t>>] >= refunded[<<x, t>>]
    <3>1. refunded[<<x, t>>] \in Nat
      BY DEF Money
    <3>2. refunded' = refunded
      BY <1>12 DEF RejectLeftovers, moneyVars
    <3> QED
      BY <3>1, <3>2
  <2>5. Limbo(c, x, t) => Limbo(c, x, t)'
    BY <1>12, <2>1 DEF RejectLeftovers, Limbo, At, Goto, Leave, Settle, Shape, CallState, Label, Idle
  <2>6. HasPaid(x, t) => HasPaid(x, t)'
    BY <1>12 DEF RejectLeftovers, HasPaid, rowVars, Shape
  <2> QED
    BY <2>1, <2>2, <2>3, <2>4, <2>5, <2>6, NetQuiet
<1>13. ASSUME NEW c \in Call, PayInterrupted(c) PROVE NetBounded'
  <2> SUFFICES ASSUME NEW x \in Application, NEW t \in Side, t = "worker" \/ quantity' = 1
               PROVE  NetBound(x, t)'
    BY DEF NetBounded
  <2>1. NetBound(x, t) /\ quantity' = quantity
    BY <1>13 DEF NetBounded, PayInterrupted, rowVars, offerVars, terms
  <2>2. \A d \in Call \ {c} : call'[d] = call[d]
    BY <1>13 DEF PayInterrupted, Goto, Leave, Abandon, Settle, Shape
  <2>3. UNCHANGED <<charged, refunded, hasPaid>> /\ failures' = failures + 1
    BY <1>13 DEF PayInterrupted, Fail, moneyVars, rowVars
  <2> QED
    BY <2>1, <2>2, <2>3, NetFailed
<1>14. ASSUME NEW c \in Call, RefundPayer(c) PROVE NetBounded'
  <2> SUFFICES ASSUME NEW x \in Application, NEW t \in Side, t = "worker" \/ quantity' = 1
               PROVE  NetBound(x, t)'
    BY DEF NetBounded
  <2>1. NetBound(x, t) /\ quantity' = quantity
    BY <1>14 DEF NetBounded, RefundPayer, rowVars, offerVars, terms
  <2>2. \A d \in Call \ {c} : call'[d] = call[d]
    BY <1>14 DEF RefundPayer, Goto, Leave, Abandon, Settle, Shape
  <2>3. UNCHANGED <<charged, failures, hasPaid>> /\ charged[<<x, t>>] \in Nat /\ refunded[<<x, t>>] \in Nat /\ failures \in Nat
    BY <1>14 DEF RefundPayer, rowVars, bounds, Money
  <2>4. CASE x = call[c].app /\ t = call[c].side
    <3>1. refunded'[<<x, t>>] = refunded[<<x, t>>] + 1 /\ charged'[<<x, t>>] = charged[<<x, t>>] /\ failures' = failures
      BY <1>14, <2>3, <2>4 DEF RefundPayer, Refund, Money
    <3>2. Once(Limbo(c, x, t)) \in {0, 1} /\ Once(Limbo(c, x, t)') \in {0, 1} /\ Once(HasPaid(x, t)) \in {0, 1}
          /\ Once(HasPaid(x, t)') = Once(HasPaid(x, t))
      BY <2>3 DEF Once, HasPaid
    <3>3. charged'[<<x, t>>] + refunded[<<x, t>>] + Once(Limbo(c, x, t)) + failures + Once(HasPaid(x, t))
            <= charged[<<x, t>>] + refunded'[<<x, t>>] + Once(Limbo(c, x, t)') + failures' + Once(HasPaid(x, t)')
      BY <2>3, <3>1, <3>2
    <3> QED
      BY <2>1, <2>2, <3>3, NetKept
  <2>5. CASE x # call[c].app \/ t # call[c].side
    <3>1. refunded'[<<x, t>>] = refunded[<<x, t>>]
      BY <1>14, <2>5 DEF RefundPayer, Refund, Money
    <3>2. ~Limbo(c, x, t)
      BY <2>5 DEF Limbo
    <3> QED
      BY <2>1, <2>2, <2>3, <3>1, <3>2, NetQuiet DEF HasPaid
  <2> QED
    BY <2>4, <2>5
<1>15. ASSUME NEW c \in Call, RefundPayerFails(c) PROVE NetBounded'
  <2> SUFFICES ASSUME NEW x \in Application, NEW t \in Side, t = "worker" \/ quantity' = 1
               PROVE  NetBound(x, t)'
    BY DEF NetBounded
  <2>1. NetBound(x, t) /\ quantity' = quantity
    BY <1>15 DEF NetBounded, RefundPayerFails, rowVars, offerVars, terms
  <2>2. \A d \in Call \ {c} : call'[d] = call[d]
    BY <1>15 DEF RefundPayerFails, Goto, Leave, Abandon, Settle, Shape
  <2>3. UNCHANGED <<charged, refunded, hasPaid>> /\ failures' = failures + 1
    BY <1>15 DEF RefundPayerFails, Fail, moneyVars, rowVars
  <2> QED
    BY <2>1, <2>2, <2>3, NetFailed
<1>16. ASSUME NEW c \in Call, NEW a \in Application, ScanExpired(c, a) PROVE NetBounded'
  <2> SUFFICES ASSUME NEW x \in Application, NEW t \in Side, t = "worker" \/ quantity' = 1
               PROVE  NetBound(x, t)'
    BY DEF NetBounded
  <2>1. NetBound(x, t) /\ quantity' = quantity
    BY <1>16 DEF NetBounded, ScanExpired, rowVars, offerVars, terms
  <2>2. \A d \in Call \ {c} : call'[d] = call[d]
    BY <1>16 DEF ScanExpired, Goto, Leave, Abandon, Settle, Shape
  <2>3. charged'[<<x, t>>] = charged[<<x, t>>] /\ failures' = failures
    BY <1>16, <2>1 DEF ScanExpired, moneyVars, bounds, Start, Settle
  <2>4. refunded'[<<x, t>>] >= refunded[<<x, t>>]
    <3>1. refunded[<<x, t>>] \in Nat
      BY DEF Money
    <3>2. refunded' = refunded
      BY <1>16 DEF ScanExpired, moneyVars
    <3> QED
      BY <3>1, <3>2
  <2>5. Limbo(c, x, t) => Limbo(c, x, t)'
    BY <1>16, <2>1 DEF ScanExpired, Limbo, At, Goto, Leave, Settle, Shape, CallState, Label, Idle
  <2>6. HasPaid(x, t) => HasPaid(x, t)'
    BY <1>16 DEF ScanExpired, HasPaid, rowVars, Shape
  <2> QED
    BY <2>1, <2>2, <2>3, <2>4, <2>5, <2>6, NetQuiet
<1>17. ASSUME NEW c \in Call, NEW a \in Application, Cancel(c, a) PROVE NetBounded'
  <2> SUFFICES ASSUME NEW x \in Application, NEW t \in Side, t = "worker" \/ quantity' = 1
               PROVE  NetBound(x, t)'
    BY DEF NetBounded
  <2>1. NetBound(x, t) /\ quantity' = quantity
    BY <1>17 DEF NetBounded, Cancel, rowVars, offerVars, terms
  <2>2. \A d \in Call \ {c} : call'[d] = call[d]
    BY <1>17 DEF Cancel, Goto, Leave, Abandon, Settle, Shape
  <2>3. charged'[<<x, t>>] = charged[<<x, t>>] /\ failures' = failures
    BY <1>17, <2>1 DEF Cancel, moneyVars, bounds, Start, Settle
  <2>4. refunded'[<<x, t>>] >= refunded[<<x, t>>]
    <3>1. refunded[<<x, t>>] \in Nat
      BY DEF Money
    <3>2. refunded' = refunded
      BY <1>17 DEF Cancel, moneyVars
    <3> QED
      BY <3>1, <3>2
  <2>5. Limbo(c, x, t) => Limbo(c, x, t)'
    BY <1>17, <2>1 DEF Cancel, Limbo, At, Goto, Leave, Settle, Shape, CallState, Label, Idle
  <2>6. HasPaid(x, t) => HasPaid(x, t)'
    BY <1>17 DEF Cancel, HasPaid, rowVars, Shape
  <2> QED
    BY <2>1, <2>2, <2>3, <2>4, <2>5, <2>6, NetQuiet
<1>18. ASSUME NEW c \in Call, CommitCancel(c) PROVE NetBounded'
  <2> SUFFICES ASSUME NEW x \in Application, NEW t \in Side, t = "worker" \/ quantity' = 1
               PROVE  NetBound(x, t)'
    BY DEF NetBounded
  <2>1. NetBound(x, t) /\ quantity' = quantity
    BY <1>18 DEF NetBounded, CommitCancel, rowVars, offerVars, terms
  <2>2. \A d \in Call \ {c} : call'[d] = call[d]
    BY <1>18 DEF CommitCancel, Goto, Leave, Abandon, Settle, Shape
  <2>3. charged'[<<x, t>>] = charged[<<x, t>>] /\ failures' = failures
    BY <1>18, <2>1 DEF CommitCancel, moneyVars, bounds, Start, Settle
  <2>4. refunded'[<<x, t>>] >= refunded[<<x, t>>]
    <3>1. refunded[<<x, t>>] \in Nat
      BY DEF Money
    <3>2. refunded' = refunded
      BY <1>18 DEF CommitCancel, moneyVars
    <3> QED
      BY <3>1, <3>2
  <2>5. Limbo(c, x, t) => Limbo(c, x, t)'
    BY <1>18, <2>1 DEF CommitCancel, Limbo, At, Goto, Leave, Settle, Shape, CallState, Label, Idle
  <2>6. HasPaid(x, t) => HasPaid(x, t)'
    BY <1>18 DEF CommitCancel, HasPaid, rowVars, Shape
  <2> QED
    BY <2>1, <2>2, <2>3, <2>4, <2>5, <2>6, NetQuiet
<1>19. ASSUME NEW c \in Call, AbortPendingUnlock(c) PROVE NetBounded'
  <2> SUFFICES ASSUME NEW x \in Application, NEW t \in Side, t = "worker" \/ quantity' = 1
               PROVE  NetBound(x, t)'
    BY DEF NetBounded
  <2>1. NetBound(x, t) /\ quantity' = quantity
    BY <1>19 DEF NetBounded, AbortPendingUnlock, rowVars, offerVars, terms
  <2>2. \A d \in Call \ {c} : call'[d] = call[d]
    BY <1>19 DEF AbortPendingUnlock, Goto, Leave, Abandon, Settle, Shape
  <2>3. charged'[<<x, t>>] = charged[<<x, t>>] /\ failures' = failures
    BY <1>19, <2>1 DEF AbortPendingUnlock, moneyVars, bounds, Start, Settle
  <2>4. refunded'[<<x, t>>] >= refunded[<<x, t>>]
    <3>1. refunded[<<x, t>>] \in Nat
      BY DEF Money
    <3>2. refunded' = refunded
      BY <1>19 DEF AbortPendingUnlock, moneyVars
    <3> QED
      BY <3>1, <3>2
  <2>5. Limbo(c, x, t) => Limbo(c, x, t)'
    BY <1>19, <2>1 DEF AbortPendingUnlock, Limbo, At, Goto, Leave, Settle, Shape, CallState, Label, Idle
  <2>6. HasPaid(x, t) => HasPaid(x, t)'
    BY <1>19 DEF AbortPendingUnlock, HasPaid, rowVars, Shape
  <2> QED
    BY <2>1, <2>2, <2>3, <2>4, <2>5, <2>6, NetQuiet
<1>20. ASSUME NEW c \in Call, RefundEmployerSide(c) PROVE NetBounded'
  <2> SUFFICES ASSUME NEW x \in Application, NEW t \in Side, t = "worker" \/ quantity' = 1
               PROVE  NetBound(x, t)'
    BY DEF NetBounded
  <2>1. NetBound(x, t) /\ quantity' = quantity
    BY <1>20 DEF NetBounded, RefundEmployerSide, rowVars, offerVars, terms
  <2>2. \A d \in Call \ {c} : call'[d] = call[d]
    BY <1>20 DEF RefundEmployerSide, Goto, Leave, Abandon, Settle, Shape
  <2>3. charged'[<<x, t>>] = charged[<<x, t>>] /\ failures' = failures
    BY <1>20, <2>1 DEF RefundEmployerSide, moneyVars, bounds, Start, Settle
  <2>4. refunded'[<<x, t>>] >= refunded[<<x, t>>]
    <3>1. refunded[<<x, t>>] \in Nat
      BY DEF Money
    <3>2. refunded' = refunded \/ Refund(call[c].app, "employer")
      BY <1>20 DEF RefundEmployerSide, moneyVars
    <3> QED
      BY <3>1, <3>2 DEF Refund, Money
  <2>5. Limbo(c, x, t) => Limbo(c, x, t)'
    BY <1>20, <2>1 DEF RefundEmployerSide, Limbo, At, Goto, Leave, Settle, Shape, CallState, Label, Idle
  <2>6. HasPaid(x, t) => HasPaid(x, t)'
    BY <1>20 DEF RefundEmployerSide, HasPaid, rowVars, Shape
  <2> QED
    BY <2>1, <2>2, <2>3, <2>4, <2>5, <2>6, NetQuiet
<1>21. ASSUME NEW c \in Call, RefundWorkerSide(c) PROVE NetBounded'
  <2> SUFFICES ASSUME NEW x \in Application, NEW t \in Side, t = "worker" \/ quantity' = 1
               PROVE  NetBound(x, t)'
    BY DEF NetBounded
  <2>1. NetBound(x, t) /\ quantity' = quantity
    BY <1>21 DEF NetBounded, RefundWorkerSide, rowVars, offerVars, terms
  <2>2. \A d \in Call \ {c} : call'[d] = call[d]
    BY <1>21 DEF RefundWorkerSide, Goto, Leave, Abandon, Settle, Shape
  <2>3. charged'[<<x, t>>] = charged[<<x, t>>] /\ failures' = failures
    BY <1>21, <2>1 DEF RefundWorkerSide, moneyVars, bounds, Start, Settle
  <2>4. refunded'[<<x, t>>] >= refunded[<<x, t>>]
    <3>1. refunded[<<x, t>>] \in Nat
      BY DEF Money
    <3>2. Refund(call[c].app, "worker")
      BY <1>21 DEF RefundWorkerSide, moneyVars
    <3> QED
      BY SMTT(20), <3>1, <3>2 DEF Refund, Money
  <2>5. Limbo(c, x, t) => Limbo(c, x, t)'
    BY <1>21, <2>1 DEF RefundWorkerSide, Limbo, At, Goto, Leave, Settle, Shape, CallState, Label, Idle
  <2>6. HasPaid(x, t) => HasPaid(x, t)'
    BY <1>21 DEF RefundWorkerSide, HasPaid, rowVars, Shape
  <2> QED
    BY <2>1, <2>2, <2>3, <2>4, <2>5, <2>6, NetQuiet
<1>22. ASSUME NEW c \in Call, CloseAttempt(c) PROVE NetBounded'
  <2> SUFFICES ASSUME NEW x \in Application, NEW t \in Side, t = "worker" \/ quantity' = 1
               PROVE  NetBound(x, t)'
    BY DEF NetBounded
  <2>1. NetBound(x, t) /\ quantity' = quantity
    BY <1>22 DEF NetBounded, CloseAttempt, rowVars, offerVars, terms
  <2>2. \A d \in Call \ {c} : call'[d] = call[d]
    BY <1>22 DEF CloseAttempt, Goto, Leave, Abandon, Settle, Shape
  <2>3. charged'[<<x, t>>] = charged[<<x, t>>] /\ failures' = failures
    BY <1>22, <2>1 DEF CloseAttempt, moneyVars, bounds, Start, Settle
  <2>4. refunded'[<<x, t>>] >= refunded[<<x, t>>]
    <3>1. refunded[<<x, t>>] \in Nat
      BY DEF Money
    <3>2. refunded' = refunded
      BY <1>22 DEF CloseAttempt, moneyVars
    <3> QED
      BY <3>1, <3>2
  <2>5. Limbo(c, x, t) => Limbo(c, x, t)'
    BY <1>22, <2>1 DEF CloseAttempt, Limbo, At, Goto, Leave, Settle, Shape, CallState, Label, Idle
  <2>6. HasPaid(x, t) => HasPaid(x, t)'
    BY <1>22 DEF CloseAttempt, HasPaid, rowVars, Shape
  <2> QED
    BY <2>1, <2>2, <2>3, <2>4, <2>5, <2>6, NetQuiet
<1>23. ASSUME NEW c \in Call, SyncWaitingPayment(c) PROVE NetBounded'
  <2> SUFFICES ASSUME NEW x \in Application, NEW t \in Side, t = "worker" \/ quantity' = 1
               PROVE  NetBound(x, t)'
    BY DEF NetBounded
  <2>1. NetBound(x, t) /\ quantity' = quantity
    BY <1>23 DEF NetBounded, SyncWaitingPayment, rowVars, offerVars, terms
  <2>2. \A d \in Call \ {c} : call'[d] = call[d]
    BY <1>23 DEF SyncWaitingPayment, Goto, Leave, Abandon, Settle, Shape
  <2>3. charged'[<<x, t>>] = charged[<<x, t>>] /\ failures' = failures
    BY <1>23, <2>1 DEF SyncWaitingPayment, moneyVars, bounds, Start, Settle
  <2>4. refunded'[<<x, t>>] >= refunded[<<x, t>>]
    <3>1. refunded[<<x, t>>] \in Nat
      BY DEF Money
    <3>2. refunded' = refunded
      BY <1>23 DEF SyncWaitingPayment, moneyVars
    <3> QED
      BY <3>1, <3>2
  <2>5. Limbo(c, x, t) => Limbo(c, x, t)'
    BY <1>23, <2>1 DEF SyncWaitingPayment, Limbo, At, Goto, Leave, Settle, Shape, CallState, Label, Idle
  <2>6. HasPaid(x, t) => HasPaid(x, t)'
    BY <1>23 DEF SyncWaitingPayment, HasPaid, rowVars, Shape
  <2> QED
    BY <2>1, <2>2, <2>3, <2>4, <2>5, <2>6, NetQuiet
<1>24. ASSUME NEW c \in Call, SettleInterrupted(c) PROVE NetBounded'
  <2> SUFFICES ASSUME NEW x \in Application, NEW t \in Side, t = "worker" \/ quantity' = 1
               PROVE  NetBound(x, t)'
    BY DEF NetBounded
  <2>1. NetBound(x, t) /\ quantity' = quantity
    BY <1>24 DEF NetBounded, SettleInterrupted, rowVars, offerVars, terms
  <2>2. \A d \in Call \ {c} : call'[d] = call[d]
    BY <1>24 DEF SettleInterrupted, Goto, Leave, Abandon, Settle, Shape
  <2>3. UNCHANGED <<charged, refunded, hasPaid>> /\ failures' = failures + 1
    BY <1>24 DEF SettleInterrupted, Fail, moneyVars, rowVars
  <2> QED
    BY <2>1, <2>2, <2>3, NetFailed
<1>25. ASSUME NEW a \in Application, Accept(a) PROVE NetBounded'
  <2>1. UNCHANGED <<call, charged, refunded, failures, quantity>>
    BY <1>25 DEF Accept, terms, moneyVars, bounds
  <2>2. \A x \in Application, t \in Side : HasPaid(x, t) => HasPaid(x, t)'
    <3>1. hasPaid[a] = {}
      BY <1>25 DEF Accept, Unaccepted
    <3> QED
      BY <1>25, <3>1 DEF Accept, InitiateUnlock, HasPaid, Shape
  <2> QED
    BY <2>1, <2>2, NetUntouched
<1>26. ASSUME NEW a \in Application, CloseApplication(a) PROVE NetBounded'
  BY <1>26, NetUntouched DEF CloseApplication, rowVars, terms, moneyVars, bounds, HasPaid
<1>27. ASSUME NEW a \in Application, Expire(a) PROVE NetBounded'
  BY <1>27, NetUntouched DEF Expire, rowVars, terms, moneyVars, bounds, HasPaid
<1>28. ASSUME UNCHANGED vars PROVE NetBounded'
  BY <1>28, NetUntouched DEF vars, rowVars, offerVars, terms, moneyVars, bounds, HasPaid
<1> QED
  BY <1>1, <1>2, <1>3, <1>4, <1>5, <1>6, <1>7, <1>8, <1>9, <1>10, <1>11,
     <1>12, <1>13, <1>14, <1>15, <1>16, <1>17, <1>18, <1>19, <1>20, <1>21,
     <1>22, <1>23, <1>24, <1>25, <1>26, <1>27, <1>28
     DEF Next, PayStep, SettleStep

\* The guarded write of the side's mark: once no call works on an attempt, a side has
\* paid for it once, or once more for each call that failed, whatever payments,
\* cascades, expiries and cancellations overlap (commitStandardPerAttemptPayUnlock).
THEOREM SidesChargedOnce == Spec => []ChargedOnce
<1> DEFINE I == Shape /\ Unaccepted /\ Carried /\ Money /\ NetBounded
<1>1. ASSUME Init PROVE I
  <2>1. Shape
    BY <1>1, IdleIsCall DEF Init, Shape, ApplicationStatus, Status
  <2>2. \A c \in Call : call[c].pc = "idle" /\ call[c].todo = {} /\ call[c].unlocks = {}
    BY <1>1 DEF Init, Idle
  <2>3. Unaccepted /\ Carried
    BY <1>1, <2>2 DEF Init, Unaccepted, Carried, At, Paying, Settling
  <2>4. Money
    BY <1>1, <2>2 DEF Init, Money
  <2>5. ASSUME NEW a \in Application, NEW s \in Side PROVE NetBound(a, s)
    <3>1. InLimbo(a, s) = {}
      BY <2>2 DEF InLimbo, Limbo
    <3>2. Cardinality(InLimbo(a, s)) = 0
      BY <3>1, FS_EmptySet
    <3>3. charged[<<a, s>>] = 0 /\ refunded[<<a, s>>] = 0 /\ failures = 0
      BY <1>1 DEF Init
    <3>4. Once(HasPaid(a, s)) \in {0, 1}
      BY DEF Once
    <3> QED
      BY <3>2, <3>3, <3>4 DEF NetBound
  <2> QED
    BY <2>1, <2>3, <2>4, <2>5 DEF NetBounded
<1>2. I /\ [Next]_vars => I'
  BY ShapeStep, UnacceptedStep, CarriedStep, MoneyStep, NetStep
<1>3. I => ChargedOnce
  <2> SUFFICES ASSUME I, NEW a \in Application, NEW s \in Side, AtRest(a), s = "worker" \/ quantity = 1
               PROVE  Net(a, s) <= 1 + failures
    BY DEF ChargedOnce
  <2>1. \A c \in Call : ~Limbo(c, a, s)
    BY DEF AtRest, WorksOn, Limbo, At
  <2>2. Cardinality(InLimbo(a, s)) = 0
    <3>1. InLimbo(a, s) = {}
      BY <2>1 DEF InLimbo
    <3> QED
      BY <3>1, FS_EmptySet
  <2>3. Once(HasPaid(a, s)) \in {0, 1} /\ failures \in Nat
    BY DEF Once, Money
  <2>4. charged[<<a, s>>] \in Nat /\ refunded[<<a, s>>] \in Nat
    BY DEF Money
  <2>5. charged[<<a, s>>] - refunded[<<a, s>>] <= Once(HasPaid(a, s)) + 0 + failures
    BY <2>2 DEF NetBounded, NetBound
  <2>6. charged[<<a, s>>] - refunded[<<a, s>>] <= 1 + failures
    BY <2>3, <2>4, <2>5
  <2> QED
    BY <2>6 DEF Net
<1> QED
  BY <1>1, <1>2, <1>3, PTL DEF Spec

----------------------------------------------------------------------------
\* A plan's unit marks its attempt as paid by the employer; on an offer for several
\* people whose job is not paid only a unit does, and whoever pays last unlocks.
PlanMarks ==
  \A a \in Application :
    /\ unit[a] # "none" => "employer" \in hasPaid[a]
    /\ quantity > 1 /\ ~jobPaid /\ "employer" \in hasPaid[a] => unit[a] # "none"
    /\ quantity > 1 /\ ~jobPaid /\ hasPaid[a] = Side => status[a] \notin Pending

\* A payment has read the mark of its attempt's unit; the cascade is the employer's;
\* what a settlement gives back to the employer it notes.
CallMarks ==
  \A c \in Call :
    /\ Paying(c) /\ unit[call[c].app] # "none" => "employer" \in call[c].seen
    /\ call[c].pc \in {"cascadeLoad", "cascade"} => PaysForJob(c)
    /\ Settling(c) /\ "employer" \in call[c].refunds => call[c].release

\* Settling starts with a fresh record, and disturbs its attempt if another call holds it.
Settled(c, a, scan, sides) ==
  /\ call'[c].pc = "settle" /\ call'[c].app = a
  /\ call'[c].scan = scan /\ call'[c].refunds = sides
  /\ call'[c].release <=> "employer" \in sides
  /\ call'[c].todo = {} /\ call'[c].unlocks = {}
  /\ \A d \in Call : d # c => call'[d] = call[d]
  /\ disturbed \subseteq disturbed' /\ disturbed' \subseteq disturbed \cup {a}
  /\ a \notin disturbed' => \A d \in Call \ {c} : a \notin Holds(d)

\* What a settlement notes when it starts.
LEMMA SettleStarts ==
  ASSUME call \in [Call -> CallState], NEW c \in Call, NEW a, NEW scan \in BOOLEAN,
         NEW sides \in SUBSET Side, Settle(c, a, scan, sides)
  PROVE  Settled(c, a, scan, sides)
<1>1. PICK w : w = ("employer" \in sides)
  OBVIOUS
<1>2. PICK x : x = IF scan /\ sides = {} THEN "EXPIRED" ELSE "CONVERTED_TO_CREDIT"
  OBVIOUS
<1>3. call' = [call EXCEPT ![c] = [Idle EXCEPT !.pc = "settle", !.app = a,
                 !.scan = scan, !.refunds = sides, !.release = w, !.result = x]]
  BY <1>1, <1>2 DEF Settle
<1>4. disturbed' = IF \E d \in Call \ {c} : a \in Holds(d) THEN disturbed \cup {a} ELSE disturbed
  BY DEF Settle
<1>5. /\ call'[c].pc = "settle" /\ call'[c].app = a
      /\ call'[c].scan = scan /\ call'[c].refunds = sides
      /\ call'[c].release = w
      /\ call'[c].todo = {} /\ call'[c].unlocks = {}
      /\ \A d \in Call : d # c => call'[d] = call[d]
  BY <1>3 DEF Idle
<1> QED
  BY <1>1, <1>4, <1>5 DEF Settled

\* An abandoned attempt is settled, or was settled or unlocked already.
LEMMA AbortSettles ==
  ASSUME Shape, Carried, NEW c \in Call, AbortPendingUnlock(c)
  PROVE  /\ call[c].app \in Application
         /\ \/ /\ status[call[c].app] \in Pending
               /\ Settled(c, call[c].app, FALSE, AbortRefunds(call[c].app))
            \/ Leave(c) /\ disturbed' = disturbed
<1> DEFINE x == call[c].app
           sides == AbortRefunds(x)
<1>1. x \in Application
  BY DEF AbortPendingUnlock, Carried, At
<1>2. sides \in SUBSET Side
  BY <1>1 DEF AbortRefunds, Shape
<1>3. \/ status[x] \in Pending /\ Settle(c, x, FALSE, sides)
      \/ Leave(c) /\ disturbed' = disturbed
  BY DEF AbortPendingUnlock
<1>4. call \in [Call -> CallState]
  BY DEF Shape
<1> HIDE DEF x, sides
<1>5. Settle(c, x, FALSE, sides) => Settled(c, x, FALSE, sides)
  BY <1>2, <1>4, SettleStarts
<1> QED
  BY <1>1, <1>3, <1>5 DEF x, sides

\* An expired attempt is settled for what its sides paid.
LEMMA ScanSettles ==
  ASSUME Shape, NEW c \in Call, NEW a \in Application, ScanExpired(c, a)
  PROVE  status[a] \in Pending /\ Settled(c, a, TRUE, ExpiryRefunds(a))
<1>1. ExpiryRefunds(a) \in SUBSET Side
  BY DEF ExpiryRefunds, Side
<1>2. call \in [Call -> CallState]
  BY DEF Shape
<1>3. Settle(c, a, TRUE, ExpiryRefunds(a)) => Settled(c, a, TRUE, ExpiryRefunds(a))
  BY <1>1, <1>2, SettleStarts
<1> QED
  BY <1>3 DEF ScanExpired

\* What the cascade reads: attempts that are pending.
LEMMA LoadReads ==
  ASSUME Shape, NEW c \in Call, LoadUnpaidAttempts(c)
  PROVE  /\ call[c].pc = "cascadeLoad" /\ call'[c].pc = "cascade"
         /\ call'[c].app = call[c].app /\ call'[c].side = call[c].side
         /\ call'[c].wallet = call[c].wallet /\ call'[c].seen = call[c].seen
         /\ \A b \in call'[c].todo : status[b] \in Pending
         /\ \A d \in Call : d # c => call'[d] = call[d]
         /\ UNCHANGED <<status, hasPaid, unit, quantity, jobPaid, disturbed, charged, refunded>>
<1> DEFINE T == {b \in Application :
                   /\ status[b] \in {"PENDING_BOTH", "PENDING_EMPLOYER"}
                   /\ "employer" \notin hasPaid[b]}
           U == {b \in T : "worker" \in hasPaid[b]}
<1>1. call' = [call EXCEPT ![c].pc = "cascade", ![c].todo = T, ![c].unlocks = U]
  BY DEF LoadUnpaidAttempts
<1>2. \A b \in T : status[b] \in Pending
  BY DEF Pending
<1>3. /\ call[c].pc = "cascadeLoad"
      /\ UNCHANGED <<status, hasPaid, unit, quantity, jobPaid, disturbed, charged, refunded>>
  BY DEF LoadUnpaidAttempts, At, rowVars, offerVars, terms, moneyVars
<1>4. call \in [Call -> CallState] /\ call[c] \in CallState
  BY DEF Shape
<1> HIDE DEF T, U
<1>5. /\ call'[c].pc = "cascade" /\ call'[c].todo = T
      /\ call'[c].app = call[c].app /\ call'[c].side = call[c].side
      /\ call'[c].wallet = call[c].wallet /\ call'[c].seen = call[c].seen
      /\ \A d \in Call : d # c => call'[d] = call[d]
  BY <1>1, <1>4 DEF CallState
<1> QED
  BY <1>2, <1>3, <1>5

\* Units and marks move together.
LEMMA PlanMarksStep ==
  ASSUME Shape, Unaccepted, Carried, UnitsKept, PlanMarks, CallMarks, [Next]_vars
  PROVE  PlanMarks'
<1> USE DEF Shape, ApplicationStatus, Status, Pending, Side, CallState, At, Unaccepted, Carried, UnitsKept, PlanMarks, CallMarks, Paying, CoveredAtJobLevel, PaysForJob, rowVars, terms, offerVars, moneyVars
<1>1. ASSUME NEW c \in Call, NEW a \in Application, NEW s \in Side, NEW wallet \in BOOLEAN, PayUnlock(c, a, s, wallet) PROVE PlanMarks'
  BY <1>1 DEF PayUnlock, At, Goto, Leave
<1>2. ASSUME NEW c \in Call, Debit(c) PROVE PlanMarks'
  BY <1>2 DEF Debit, At, Goto, Leave
<1>3. ASSUME NEW c \in Call, RecordWalletUnlockPayment(c) PROVE PlanMarks'
  BY <1>3 DEF RecordWalletUnlockPayment, At, Goto, Leave
<1>4. ASSUME NEW c \in Call, RecordFails(c) PROVE PlanMarks'
  BY <1>4 DEF RecordFails, At, Goto, Leave
<1>5. ASSUME NEW c \in Call, Commit(c) PROVE PlanMarks'
  BY <1>5 DEF Commit, At, Goto, Leave, Abandon
<1>6. ASSUME NEW c \in Call, CommitFails(c) PROVE PlanMarks'
  BY <1>6 DEF CommitFails, At, Goto, Leave, Abandon
<1>7. ASSUME NEW c \in Call, MarkJobPaid(c) PROVE PlanMarks'
  BY <1>7 DEF MarkJobPaid, At, Goto, Leave
<1>8. ASSUME NEW c \in Call, LoadUnpaidAttempts(c) PROVE PlanMarks'
  BY <1>8 DEF LoadUnpaidAttempts, At, Goto, Leave
<1>9. ASSUME NEW c \in Call, NEW b \in Application, Cascade(c, b) PROVE PlanMarks'
  BY <1>9 DEF Cascade, At, Goto, Leave
<1>10. ASSUME NEW c \in Call, EndCascade(c) PROVE PlanMarks'
  BY <1>10 DEF EndCascade, At, Goto, Leave
<1>11. ASSUME NEW c \in Call, MarkAccepted(c) PROVE PlanMarks'
  BY <1>11 DEF MarkAccepted, At, Goto, Leave
<1>12. ASSUME NEW c \in Call, RejectLeftovers(c) PROVE PlanMarks'
  BY <1>12 DEF RejectLeftovers, At, Goto, Leave
<1>13. ASSUME NEW c \in Call, PayInterrupted(c) PROVE PlanMarks'
  BY <1>13 DEF PayInterrupted, At, Goto, Leave, Abandon
<1>14. ASSUME NEW c \in Call, RefundPayer(c) PROVE PlanMarks'
  BY <1>14 DEF RefundPayer, At, Goto, Leave
<1>15. ASSUME NEW c \in Call, RefundPayerFails(c) PROVE PlanMarks'
  BY <1>15 DEF RefundPayerFails, At, Goto, Leave
<1>16. ASSUME NEW c \in Call, NEW a \in Application, ScanExpired(c, a) PROVE PlanMarks'
  BY <1>16 DEF ScanExpired, At, Goto, Leave, Settle
<1>17. ASSUME NEW c \in Call, NEW a \in Application, Cancel(c, a) PROVE PlanMarks'
  BY <1>17 DEF Cancel, At, Goto, Leave
<1>18. ASSUME NEW c \in Call, CommitCancel(c) PROVE PlanMarks'
  BY <1>18 DEF CommitCancel, At, Goto, Leave
<1>19. ASSUME NEW c \in Call, AbortPendingUnlock(c) PROVE PlanMarks'
  BY <1>19 DEF AbortPendingUnlock, At, Goto, Leave, Settle
<1>20. ASSUME NEW c \in Call, RefundEmployerSide(c) PROVE PlanMarks'
  BY <1>20 DEF RefundEmployerSide, At, Goto, Leave, ReleaseUnit
<1>21. ASSUME NEW c \in Call, RefundWorkerSide(c) PROVE PlanMarks'
  BY <1>21 DEF RefundWorkerSide, At, Goto, Leave
<1>22. ASSUME NEW c \in Call, CloseAttempt(c) PROVE PlanMarks'
  BY <1>22 DEF CloseAttempt, At, Goto, Leave, ReleaseUnit
<1>23. ASSUME NEW c \in Call, SyncWaitingPayment(c) PROVE PlanMarks'
  BY <1>23 DEF SyncWaitingPayment, At, Goto, Leave
<1>24. ASSUME NEW c \in Call, SettleInterrupted(c) PROVE PlanMarks'
  BY <1>24 DEF SettleInterrupted, At, Goto, Leave
<1>25. ASSUME NEW a \in Application, Accept(a) PROVE PlanMarks'
  <2>1. app[a] = "PENDING" /\ UNCHANGED <<quantity, jobPaid>>
    BY <1>25 DEF Accept
  <2>2. status[a] = "NONE" /\ hasPaid[a] = {} /\ unit[a] = "none" /\ unitsLeft \in Int
    BY <2>1
  <2>3. InitiateUnlock(a)
    BY <1>25 DEF Accept
  <2>4. ASSUME NEW b \in Application, b # a
        PROVE  status'[b] = status[b] /\ hasPaid'[b] = hasPaid[b] /\ unit'[b] = unit[b]
    BY <2>3, <2>4 DEF InitiateUnlock
  <2>5. /\ hasPaid'[a] = {} \/ hasPaid'[a] = {"employer"}
        /\ unit'[a] # "none" => hasPaid'[a] = {"employer"}
        /\ hasPaid'[a] = {"employer"} => unit'[a] # "none" \/ (quantity > 1 /\ jobPaid)
    BY <2>3 DEF InitiateUnlock
  <2>6. /\ unit'[a] # "none" => "employer" \in hasPaid'[a]
        /\ quantity > 1 /\ ~jobPaid /\ "employer" \in hasPaid'[a] => unit'[a] # "none"
        /\ hasPaid'[a] # Side
    <3>1. {} # Side /\ {"employer"} # Side /\ "employer" \notin {}
      OBVIOUS
    <3> QED
      BY <2>5, <3>1
  <2>7. ASSUME NEW b \in Application
        PROVE  /\ unit'[b] # "none" => "employer" \in hasPaid'[b]
               /\ quantity > 1 /\ ~jobPaid /\ "employer" \in hasPaid'[b] => unit'[b] # "none"
               /\ quantity > 1 /\ ~jobPaid /\ hasPaid'[b] = Side => status'[b] \notin Pending
    <3>1. CASE b = a
      BY SMTT(20), <2>6, <3>1
    <3>2. CASE b # a
      BY SMTT(20), <2>4, <3>2
    <3> QED
      BY <3>1, <3>2
  <2> QED
    BY <2>1, <2>7
<1>26. ASSUME NEW a \in Application, CloseApplication(a) PROVE PlanMarks'
  BY <1>26 DEF CloseApplication, At, Goto, Leave
<1>27. ASSUME NEW a \in Application, Expire(a) PROVE PlanMarks'
  BY <1>27 DEF Expire, At, Goto, Leave
<1>28. ASSUME UNCHANGED vars PROVE PlanMarks'
  BY <1>28 DEF vars
<1> QED
  BY <1>1, <1>2, <1>3, <1>4, <1>5, <1>6, <1>7, <1>8, <1>9, <1>10, <1>11,
     <1>12, <1>13, <1>14, <1>15, <1>16, <1>17, <1>18, <1>19, <1>20, <1>21,
     <1>22, <1>23, <1>24, <1>25, <1>26, <1>27, <1>28
     DEF Next, PayStep, SettleStep

\* A call that pays no more, while the other calls and the units stay.
LEMMA CallMarksKept ==
  ASSUME CallMarks, NEW c \in Call, \A d \in Call : d # c => call'[d] = call[d],
         UNCHANGED <<unit, quantity>>,
         call'[c].pc \in {"accept", "idle", "payRefund", "settle"},
         call'[c].pc = "settle" /\ "employer" \in call'[c].refunds => call'[c].release
  PROVE  CallMarks'
<1> SUFFICES ASSUME NEW d \in Call
             PROVE  /\ (Paying(d) /\ unit[call[d].app] # "none" => "employer" \in call[d].seen)'
                    /\ (call[d].pc \in {"cascadeLoad", "cascade"} => PaysForJob(d))'
                    /\ (Settling(d) /\ "employer" \in call[d].refunds => call[d].release)'
  BY DEF CallMarks
<1>1. CASE d = c
  BY <1>1 DEF Paying, Settling, At
<1>2. CASE d # c
  BY <1>2 DEF CallMarks, Paying, Settling, At, PaysForJob
<1> QED
  BY <1>1, <1>2

\* What a payment read of a unit's mark stays true.
LEMMA CallMarksStep ==
  ASSUME Shape, Shape', Unaccepted, Carried, UnitsKept, PlanMarks, CallMarks, [Next]_vars
  PROVE  CallMarks'
<1> USE DEF Shape, ApplicationStatus, Status, Pending, Side, CallState, Label, Idle, At, Unaccepted, Carried, UnitsKept, PlanMarks, CallMarks, Paying, Settling, CoveredAtJobLevel, PaysForJob, rowVars, terms, offerVars, moneyVars
<1>1. ASSUME NEW c \in Call, NEW a \in Application, NEW s \in Side, NEW wallet \in BOOLEAN, PayUnlock(c, a, s, wallet) PROVE CallMarks'
  BY <1>1 DEF PayUnlock, At, Goto, Leave
<1>2. ASSUME NEW c \in Call, Debit(c) PROVE CallMarks'
  BY <1>2 DEF Debit, At, Goto, Leave
<1>3. ASSUME NEW c \in Call, RecordWalletUnlockPayment(c) PROVE CallMarks'
  BY <1>3 DEF RecordWalletUnlockPayment, At, Goto, Leave
<1>4. ASSUME NEW c \in Call, RecordFails(c) PROVE CallMarks'
  BY <1>4 DEF RecordFails, At, Goto, Leave
<1>5. ASSUME NEW c \in Call, Commit(c) PROVE CallMarks'
  <2>1. /\ call'[c].pc \in {"accept", "idle", "payRefund"}
        /\ \A d \in Call : d # c => call'[d] = call[d]
    BY <1>5 DEF Commit, Goto, Leave, Abandon
  <2>2. UNCHANGED <<unit, quantity>>
    BY <1>5 DEF Commit
  <2>3. CallMarks /\ c \in Call
    OBVIOUS
  <2> QED
    BY ONLY <2>1, <2>2, <2>3, CallMarksKept
<1>6. ASSUME NEW c \in Call, CommitFails(c) PROVE CallMarks'
  BY <1>6 DEF CommitFails, At, Goto, Leave, Abandon
<1>7. ASSUME NEW c \in Call, MarkJobPaid(c) PROVE CallMarks'
  BY <1>7 DEF MarkJobPaid, At, Goto, Leave
<1>8. ASSUME NEW c \in Call, LoadUnpaidAttempts(c) PROVE CallMarks'
  BY <1>8, LoadReads
<1>9. ASSUME NEW c \in Call, NEW b \in Application, Cascade(c, b) PROVE CallMarks'
  BY <1>9 DEF Cascade, At, Goto, Leave
<1>10. ASSUME NEW c \in Call, EndCascade(c) PROVE CallMarks'
  <2>1. call'[c].pc \in {"accept", "idle"} /\ \A d \in Call : d # c => call'[d] = call[d]
    BY <1>10 DEF EndCascade, Leave
  <2>2. UNCHANGED <<unit, quantity>>
    BY <1>10 DEF EndCascade
  <2>3. CallMarks /\ c \in Call
    OBVIOUS
  <2> QED
    BY ONLY <2>1, <2>2, <2>3, CallMarksKept
<1>11. ASSUME NEW c \in Call, MarkAccepted(c) PROVE CallMarks'
  BY <1>11 DEF MarkAccepted, At, Goto, Leave
<1>12. ASSUME NEW c \in Call, RejectLeftovers(c) PROVE CallMarks'
  BY <1>12 DEF RejectLeftovers, At, Goto, Leave
<1>13. ASSUME NEW c \in Call, PayInterrupted(c) PROVE CallMarks'
  BY <1>13 DEF PayInterrupted, At, Goto, Leave, Abandon
<1>14. ASSUME NEW c \in Call, RefundPayer(c) PROVE CallMarks'
  BY <1>14 DEF RefundPayer, At, Goto, Leave
<1>15. ASSUME NEW c \in Call, RefundPayerFails(c) PROVE CallMarks'
  BY <1>15 DEF RefundPayerFails, At, Goto, Leave
<1>16. ASSUME NEW c \in Call, NEW a \in Application, ScanExpired(c, a) PROVE CallMarks'
  <2>1. call'[c].pc = "settle" /\ ("employer" \in call'[c].refunds => call'[c].release)
        /\ \A d \in Call : d # c => call'[d] = call[d]
    <3>1. Settled(c, a, TRUE, ExpiryRefunds(a))
      BY <1>16, ScanSettles
    <3> QED
      BY <3>1 DEF Settled
  <2>2. UNCHANGED <<unit, quantity>>
    BY <1>16 DEF ScanExpired
  <2>3. CallMarks /\ c \in Call
    OBVIOUS
  <2> QED
    BY ONLY <2>1, <2>2, <2>3, CallMarksKept
<1>17. ASSUME NEW c \in Call, NEW a \in Application, Cancel(c, a) PROVE CallMarks'
  BY <1>17 DEF Cancel, At, Goto, Leave
<1>18. ASSUME NEW c \in Call, CommitCancel(c) PROVE CallMarks'
  BY <1>18 DEF CommitCancel, At, Goto, Leave
<1>19. ASSUME NEW c \in Call, AbortPendingUnlock(c) PROVE CallMarks'
  <2>1. UNCHANGED <<unit, quantity>>
    BY <1>19 DEF AbortPendingUnlock
  <2>2. CASE Leave(c)
    BY <2>1, <2>2 DEF Leave
  <2>3. CASE Settled(c, call[c].app, FALSE, AbortRefunds(call[c].app))
    <3>1. call'[c].pc = "settle" /\ ("employer" \in call'[c].refunds => call'[c].release)
          /\ \A d \in Call : d # c => call'[d] = call[d]
      BY <2>3 DEF Settled
    <3> QED
      <4>1. CallMarks /\ c \in Call
        OBVIOUS
      <4> QED
        BY ONLY <2>1, <3>1, <4>1, CallMarksKept
  <2> QED
    BY <1>19, <2>2, <2>3, AbortSettles
<1>20. ASSUME NEW c \in Call, RefundEmployerSide(c) PROVE CallMarks'
  BY <1>20 DEF RefundEmployerSide, At, Goto, Leave, ReleaseUnit
<1>21. ASSUME NEW c \in Call, RefundWorkerSide(c) PROVE CallMarks'
  BY <1>21 DEF RefundWorkerSide, At, Goto, Leave
<1>22. ASSUME NEW c \in Call, CloseAttempt(c) PROVE CallMarks'
  BY <1>22 DEF CloseAttempt, At, Goto, Leave, ReleaseUnit
<1>23. ASSUME NEW c \in Call, SyncWaitingPayment(c) PROVE CallMarks'
  BY <1>23 DEF SyncWaitingPayment, At, Goto, Leave
<1>24. ASSUME NEW c \in Call, SettleInterrupted(c) PROVE CallMarks'
  BY <1>24 DEF SettleInterrupted, At, Goto, Leave
<1>25. ASSUME NEW a \in Application, Accept(a) PROVE CallMarks'
  BY <1>25 DEF Accept, At, Goto, Leave, InitiateUnlock
<1>26. ASSUME NEW a \in Application, CloseApplication(a) PROVE CallMarks'
  BY <1>26 DEF CloseApplication, At, Goto, Leave
<1>27. ASSUME NEW a \in Application, Expire(a) PROVE CallMarks'
  BY <1>27 DEF Expire, At, Goto, Leave
<1>28. ASSUME UNCHANGED vars PROVE CallMarks'
  BY <1>28 DEF vars
<1> QED
  BY <1>1, <1>2, <1>3, <1>4, <1>5, <1>6, <1>7, <1>8, <1>9, <1>10, <1>11,
     <1>12, <1>13, <1>14, <1>15, <1>16, <1>17, <1>18, <1>19, <1>20, <1>21,
     <1>22, <1>23, <1>24, <1>25, <1>26, <1>27, <1>28
     DEF Next, PayStep, SettleStep

----------------------------------------------------------------------------
Ended == {"EXPIRED", "CONVERTED_TO_CREDIT"}
SettlesFor(c, a) == Settling(c) /\ call[c].app = a

\* A settlement that nothing overlapped is alone with an attempt still pending: it owes
\* what was paid, and gives back the unit now or with the row.
AloneOn(a, c) ==
  /\ \A d \in Call \ {c} : a \notin Holds(d)
  /\ status[a] \in Pending
  /\ call[c].refunds \subseteq hasPaid[a]
  /\ unit[a] = "used" =>
       \/ CoveredAtJobLevel(jobPaid)
       \/ "employer" \in call[c].refunds
       \/ ~call[c].scan /\ call[c].release
Alone == \A a \in Application \ disturbed, c \in Call : SettlesFor(c, a) => AloneOn(a, c)

\* A call that may still write an attempt's row.
Touches(c, a) ==
  \/ (Paying(c) \/ Settling(c)) /\ call[c].app = a
  \/ At(c, "cascade") /\ a \in call[c].todo

\* Nobody touches an attempt that has ended, and its unit is back.
FinishedOn(a) ==
  /\ status[a] \in Ended =>
       /\ \A c \in Call : ~Touches(c, a)
       /\ unit[a] = "used" => CoveredAtJobLevel(jobPaid)
  /\ unit[a] = "released" => status[a] \in Ended \/ \E c \in Call : SettlesFor(c, a)
Finished == \A a \in Application \ disturbed : FinishedOn(a)

\* The expiry scan owes what abandoning the attempt does.
LEMMA ExpiryIsAbort ==
  ASSUME Shape, PlanMarks, NEW a \in Application, status[a] \in Pending
  PROVE  ExpiryRefunds(a) = AbortRefunds(a)
<1>1. quantity \in Nat \ {0} /\ hasPaid[a] \in SUBSET Side
  BY UnlockAssumption DEF Shape
<1>2. quantity # 1 => quantity > 1
  BY <1>1
<1>3. CASE quantity = 1
  BY <1>1, <1>3 DEF ExpiryRefunds, AbortRefunds, CoveredAtJobLevel, Side
<1>4. CASE quantity > 1 /\ jobPaid
  BY <1>1, <1>4 DEF ExpiryRefunds, AbortRefunds, CoveredAtJobLevel, Side
<1>5. CASE quantity > 1 /\ ~jobPaid
  <2>1. hasPaid[a] # Side
    BY <1>5 DEF PlanMarks
  <2> QED
    BY <1>1, <1>5, <2>1 DEF ExpiryRefunds, AbortRefunds, CoveredAtJobLevel, Side
<1> QED
  BY <1>2, <1>3, <1>4, <1>5 DEF Shape

\* A settlement that starts is alone with its attempt, or disturbs it.
LEMMA AloneStarts ==
  ASSUME Shape, PlanMarks, Alone, NEW c \in Call, NEW a \in Application, NEW scan \in BOOLEAN,
         Settled(c, a, scan, AbortRefunds(a)), status[a] \in Pending,
         UNCHANGED <<status, hasPaid, unit, quantity, jobPaid>>,
         NEW x \in Application, x \notin disturbed', NEW y \in Call, SettlesFor(y, x)'
  PROVE  AloneOn(x, y)'
<1>1. \A d \in Call : d # c => call'[d] = call[d]
  BY DEF Settled
<1>2. \A d \in Call : d # c => Holds(d)' = Holds(d)
  BY <1>1 DEF Holds, Paying, Settling, At, PaysForJob
<1>3. Holds(c)' = {a} /\ ~Paying(c)'
  BY DEF Settled, Holds, Paying, Settling, At
<1>4. x \notin disturbed /\ (a = x => \A d \in Call \ {c} : x \notin Holds(d))
  BY DEF Settled
<1>5. CASE y = c
  <2>1. x = a
    BY <1>5 DEF SettlesFor, Settled
  <2>2. \A d \in Call \ {y} : x \notin Holds(d)'
    BY <1>2, <1>4, <1>5, <2>1
  <2>3. call'[y].refunds = AbortRefunds(x) /\ AbortRefunds(x) \subseteq hasPaid'[x]
    BY <1>5, <2>1 DEF Settled, AbortRefunds
  <2>4. unit'[x] = "used" => CoveredAtJobLevel(jobPaid)' \/ "employer" \in AbortRefunds(x)
    BY <2>1 DEF PlanMarks, AbortRefunds, CoveredAtJobLevel
  <2> QED
    BY <2>1, <2>2, <2>3, <2>4 DEF AloneOn
<1>6. CASE y # c
  <2>1. call'[y] = call[y] /\ SettlesFor(y, x)
    BY <1>1, <1>6 DEF SettlesFor, Settling, At
  <2>2. AloneOn(x, y)
    BY <1>4, <2>1 DEF Alone
  <2>3. x \in Holds(y)
    BY <2>1 DEF SettlesFor, Holds, Settling, Paying, At
  <2>4. a # x
    BY <1>4, <1>6, <2>3
  <2>5. \A d \in Call \ {y} : x \notin Holds(d)'
    BY <1>2, <1>3, <2>2, <2>4 DEF AloneOn
  <2> QED
    BY <2>1, <2>2, <2>5 DEF AloneOn, CoveredAtJobLevel
<1> QED
  BY <1>5, <1>6

\* A settlement stays alone while another call keeps what it holds or lets go of it.
LEMMA AloneLeft ==
  ASSUME Alone, NEW c \in Call, \A d \in Call : d # c => call'[d] = call[d],
         UNCHANGED <<quantity, jobPaid>>, ~Settling(c)', Holds(c)' \subseteq Holds(c),
         NEW x \in Application, x \notin disturbed, NEW y \in Call, SettlesFor(y, x)',
         x \notin Holds(c) => status'[x] = status[x] /\ hasPaid'[x] = hasPaid[x] /\ unit'[x] = unit[x]
  PROVE  AloneOn(x, y)'
<1>1. y # c
  BY DEF SettlesFor
<1>2. call'[y] = call[y] /\ SettlesFor(y, x)
  BY <1>1 DEF SettlesFor, Settling, At
<1>3. AloneOn(x, y)
  BY <1>2 DEF Alone
<1>4. \A d \in Call : d # c => Holds(d)' = Holds(d)
  BY DEF Holds, Paying, Settling, At, PaysForJob
<1>5. status'[x] = status[x] /\ hasPaid'[x] = hasPaid[x] /\ unit'[x] = unit[x]
  BY <1>1, <1>3 DEF AloneOn
<1>6. \A d \in Call \ {y} : x \notin Holds(d)'
  BY <1>1, <1>3, <1>4 DEF AloneOn
<1> QED
  BY <1>2, <1>3, <1>5, <1>6 DEF AloneOn, CoveredAtJobLevel

\* An attempt stays ended, and settled for, when a call changes neither.
LEMMA FinishedKept ==
  ASSUME Finished, NEW c \in Call, \A d \in Call : d # c => call'[d] = call[d],
         NEW x \in Application, x \notin disturbed,
         status'[x] = status[x], unit'[x] = unit[x], UNCHANGED <<quantity, jobPaid>>,
         Touches(c, x)' => Touches(c, x) \/ status[x] \in Pending,
         SettlesFor(c, x) => SettlesFor(c, x)'
  PROVE  FinishedOn(x)'
<1>1. FinishedOn(x)
  BY DEF Finished
<1>2. \A d \in Call : d # c => Touches(d, x)' = Touches(d, x) /\ SettlesFor(d, x)' = SettlesFor(d, x)
  BY DEF Touches, SettlesFor, Paying, Settling, At
<1>3. \A d \in Call : SettlesFor(d, x) => SettlesFor(d, x)'
  BY <1>2
<1>4. ASSUME NEW d \in Call, Touches(d, x)', status[x] \in Ended PROVE FALSE
  <2>1. status[x] \notin Pending
    BY <1>4 DEF Ended, Pending
  <2>2. Touches(d, x)
    BY <1>2, <1>4, <2>1
  <2> QED
    BY <1>1, <1>4, <2>2 DEF FinishedOn
<1> QED
  BY <1>1, <1>3, <1>4 DEF FinishedOn, CoveredAtJobLevel

\* A settlement stays alone, or its attempt is disturbed.
LEMMA AloneStep ==
  ASSUME Shape, Shape', Unaccepted, Carried, UnitsKept, PlanMarks, CallMarks, Alone, [Next]_vars
  PROVE  Alone'
<1> USE DEF Shape, Status, Pending, Side, CallState, Label, Idle, At, Paying, Settling, CoveredAtJobLevel, PaysForJob, SettlesFor, Holds, rowVars, terms, offerVars, moneyVars
<1> SUFFICES ASSUME NEW x \in Application, x \notin disturbed', NEW y \in Call, SettlesFor(y, x)'
             PROVE  AloneOn(x, y)'
  BY DEF Alone
<1>0. x \notin disturbed /\ SettlesFor(y, x) => AloneOn(x, y)
  BY DEF Alone
<1> USE <1>0 DEF AloneOn, CallMarks
<1>1. ASSUME NEW c \in Call, NEW a \in Application, NEW s \in Side, NEW wallet \in BOOLEAN, PayUnlock(c, a, s, wallet) PROVE AloneOn(x, y)'
  BY <1>1 DEF PayUnlock, At, Goto, Leave, Fail, Start
<1>2. ASSUME NEW c \in Call, Debit(c) PROVE AloneOn(x, y)'
  BY <1>2 DEF Debit, At, Goto, Leave, Fail, Start
<1>3. ASSUME NEW c \in Call, RecordWalletUnlockPayment(c) PROVE AloneOn(x, y)'
  BY <1>3 DEF RecordWalletUnlockPayment, At, Goto, Leave, Fail, Start
<1>4. ASSUME NEW c \in Call, RecordFails(c) PROVE AloneOn(x, y)'
  BY <1>4 DEF RecordFails, At, Goto, Leave, Fail, Start
<1>5. ASSUME NEW c \in Call, Commit(c) PROVE AloneOn(x, y)'
  <2> HIDE DEF Shape, Status, Pending, Side, CallState, Label, Idle, At, Paying, Settling, CoveredAtJobLevel,
               PaysForJob, SettlesFor, Holds, AloneOn, CallMarks, rowVars, terms, offerVars, moneyVars
  <2>1. call'[c].pc \in {"accept", "idle", "payRefund", "sync"} /\ \A d \in Call : d # c => call'[d] = call[d]
    BY <1>5 DEF Commit, Leave, Idle, Shape, CallState, Goto, Abandon
  <2>2. ~Settling(c)' /\ Holds(c)' \subseteq Holds(c)
    BY <2>1 DEF Settling, Holds, Paying, At
  <2>3. UNCHANGED <<quantity, jobPaid>> /\ x \notin disturbed
    BY <1>5 DEF Commit, offerVars, terms, Fail
  <2>4. x \notin Holds(c) => status'[x] = status[x] /\ hasPaid'[x] = hasPaid[x] /\ unit'[x] = unit[x]
    BY <1>5 DEF Commit, Holds, Paying, Settling, At, Shape, rowVars, Abandon
  <2> QED
    BY <2>1, <2>2, <2>3, <2>4, AloneLeft
<1>6. ASSUME NEW c \in Call, CommitFails(c) PROVE AloneOn(x, y)'
  <2> HIDE DEF Shape, Status, Pending, Side, CallState, Label, Idle, At, Paying, Settling, CoveredAtJobLevel,
               PaysForJob, SettlesFor, Holds, AloneOn, CallMarks, rowVars, terms, offerVars, moneyVars
  <2>1. call'[c].pc \in {"accept", "idle", "payRefund", "sync"} /\ \A d \in Call : d # c => call'[d] = call[d]
    BY <1>6 DEF CommitFails, Leave, Idle, Shape, CallState, Goto, Abandon
  <2>2. ~Settling(c)' /\ Holds(c)' \subseteq Holds(c)
    BY <2>1 DEF Settling, Holds, Paying, At
  <2>3. UNCHANGED <<quantity, jobPaid>> /\ x \notin disturbed
    BY <1>6 DEF CommitFails, offerVars, terms, Fail
  <2>4. x \notin Holds(c) => status'[x] = status[x] /\ hasPaid'[x] = hasPaid[x] /\ unit'[x] = unit[x]
    BY <1>6 DEF CommitFails, Holds, Paying, Settling, At, Shape, rowVars
  <2> QED
    BY <2>1, <2>2, <2>3, <2>4, AloneLeft
<1>7. ASSUME NEW c \in Call, MarkJobPaid(c) PROVE AloneOn(x, y)'
  BY <1>7 DEF MarkJobPaid, At, Goto, Leave, Fail, Start
<1>8. ASSUME NEW c \in Call, LoadUnpaidAttempts(c) PROVE AloneOn(x, y)'
  <2> HIDE DEF Shape, Status, Pending, Side, CallState, Label, Idle, At, Paying, Settling, CoveredAtJobLevel,
               PaysForJob, SettlesFor, Holds, AloneOn, CallMarks, rowVars, terms, offerVars, moneyVars
  <2>1. /\ call[c].pc = "cascadeLoad" /\ call'[c].pc = "cascade"
        /\ call'[c].app = call[c].app /\ call'[c].side = call[c].side
        /\ \A d \in Call : d # c => call'[d] = call[d]
        /\ UNCHANGED <<status, hasPaid, unit, quantity, jobPaid, disturbed>>
    BY <1>8, LoadReads
  <2>2. ~Settling(c)' /\ Holds(c)' \subseteq Holds(c)
    BY <2>1 DEF Settling, Holds, Paying, PaysForJob, At
  <2> QED
    BY <2>1, <2>2, AloneLeft
<1>9. ASSUME NEW c \in Call, NEW b \in Application, Cascade(c, b) PROVE AloneOn(x, y)'
  BY <1>9 DEF Cascade, At, Goto, Leave, Fail, Start
<1>10. ASSUME NEW c \in Call, EndCascade(c) PROVE AloneOn(x, y)'
  BY <1>10 DEF EndCascade, At, Goto, Leave, Fail, Start
<1>11. ASSUME NEW c \in Call, MarkAccepted(c) PROVE AloneOn(x, y)'
  BY <1>11 DEF MarkAccepted, At, Goto, Leave, Fail, Start
<1>12. ASSUME NEW c \in Call, RejectLeftovers(c) PROVE AloneOn(x, y)'
  BY <1>12 DEF RejectLeftovers, At, Goto, Leave, Fail, Start
<1>13. ASSUME NEW c \in Call, PayInterrupted(c) PROVE AloneOn(x, y)'
  <2> HIDE DEF Shape, Status, Pending, Side, CallState, Label, Idle, At, Paying, Settling, CoveredAtJobLevel,
               PaysForJob, SettlesFor, Holds, AloneOn, CallMarks, rowVars, terms, offerVars, moneyVars
  <2>1. call'[c].pc \in {"accept", "idle", "payRefund", "sync"} /\ \A d \in Call : d # c => call'[d] = call[d]
    BY <1>13 DEF PayInterrupted, Leave, Idle, Shape, CallState, Goto, Abandon
  <2>2. ~Settling(c)' /\ Holds(c)' \subseteq Holds(c)
    BY <2>1 DEF Settling, Holds, Paying, At
  <2>3. UNCHANGED <<quantity, jobPaid>> /\ x \notin disturbed
    BY <1>13 DEF PayInterrupted, offerVars, terms, Fail
  <2>4. x \notin Holds(c) => status'[x] = status[x] /\ hasPaid'[x] = hasPaid[x] /\ unit'[x] = unit[x]
    BY <1>13 DEF PayInterrupted, Holds, Paying, Settling, At, Shape, rowVars
  <2> QED
    BY <2>1, <2>2, <2>3, <2>4, AloneLeft
<1>14. ASSUME NEW c \in Call, RefundPayer(c) PROVE AloneOn(x, y)'
  BY <1>14 DEF RefundPayer, At, Goto, Leave, Fail, Start
<1>15. ASSUME NEW c \in Call, RefundPayerFails(c) PROVE AloneOn(x, y)'
  BY <1>15 DEF RefundPayerFails, At, Goto, Leave, Fail, Start
<1>16. ASSUME NEW c \in Call, NEW a \in Application, ScanExpired(c, a) PROVE AloneOn(x, y)'
  <2> HIDE DEF Shape, Status, Pending, Side, CallState, Label, Idle, At, Paying, Settling, CoveredAtJobLevel,
               PaysForJob, SettlesFor, Holds, AloneOn, CallMarks, rowVars, terms, offerVars, moneyVars
  <2>1. status[a] \in Pending /\ Settled(c, a, TRUE, AbortRefunds(a))
    BY <1>16, ScanSettles, ExpiryIsAbort
  <2>2. UNCHANGED <<status, hasPaid, unit, quantity, jobPaid>>
    BY <1>16 DEF ScanExpired, rowVars, offerVars, terms
  <2> QED
    BY <2>1, <2>2, AloneStarts
<1>17. ASSUME NEW c \in Call, NEW a \in Application, Cancel(c, a) PROVE AloneOn(x, y)'
  BY <1>17 DEF Cancel, At, Goto, Leave, Fail, Start
<1>18. ASSUME NEW c \in Call, CommitCancel(c) PROVE AloneOn(x, y)'
  <2> HIDE DEF Shape, Status, Pending, Side, CallState, Label, Idle, At, Paying, Settling, CoveredAtJobLevel,
               PaysForJob, SettlesFor, Holds, AloneOn, CallMarks, rowVars, terms, offerVars, moneyVars
  <2>1. call'[c].pc \in {"abort", "idle"} /\ \A d \in Call : d # c => call'[d] = call[d]
    BY <1>18 DEF CommitCancel, Leave, Idle, Shape, CallState, Goto
  <2>2. ~Settling(c)' /\ Holds(c)' \subseteq Holds(c)
    BY <2>1 DEF Settling, Holds, Paying, At
  <2>3. UNCHANGED <<quantity, jobPaid>> /\ x \notin disturbed
    BY <1>18 DEF CommitCancel, offerVars, terms, Fail
  <2>4. x \notin Holds(c) => status'[x] = status[x] /\ hasPaid'[x] = hasPaid[x] /\ unit'[x] = unit[x]
    BY <1>18 DEF CommitCancel, Holds, Paying, Settling, At, Shape, rowVars
  <2> QED
    BY <2>1, <2>2, <2>3, <2>4, AloneLeft
<1>19. ASSUME NEW c \in Call, AbortPendingUnlock(c) PROVE AloneOn(x, y)'
  <2> HIDE DEF Shape, Status, Pending, Side, CallState, Label, Idle, At, Paying, Settling, CoveredAtJobLevel,
               PaysForJob, SettlesFor, Holds, AloneOn, CallMarks, rowVars, terms, offerVars, moneyVars
  <2> DEFINE b == call[c].app
  <2>1. UNCHANGED <<status, hasPaid, unit, quantity, jobPaid>> /\ b \in Application
    BY <1>19, AbortSettles DEF AbortPendingUnlock, rowVars, offerVars, terms
  <2>2. CASE Leave(c) /\ disturbed' = disturbed
    <3>1. call'[c] = Idle /\ \A d \in Call : d # c => call'[d] = call[d]
      BY <2>2 DEF Leave, Shape
    <3>2. ~Settling(c)' /\ Holds(c)' \subseteq Holds(c)
      BY <3>1 DEF Settling, Holds, Paying, At, Idle
    <3> QED
      BY <2>1, <2>2, <3>1, <3>2, AloneLeft
  <2>3. CASE status[b] \in Pending /\ Settled(c, b, FALSE, AbortRefunds(b))
    <3> HIDE DEF b
    <3> QED
      BY <2>1, <2>3, AloneStarts
  <2> QED
    BY <1>19, <2>2, <2>3, AbortSettles
<1>20. ASSUME NEW c \in Call, RefundEmployerSide(c) PROVE AloneOn(x, y)'
  <2> HIDE DEF Shape, Status, Pending, Side, CallState, Label, Idle, At, Paying, Settling, CoveredAtJobLevel,
               PaysForJob, SettlesFor, Holds, AloneOn, CallMarks, rowVars, terms, offerVars, moneyVars
  <2>1. /\ call[c].pc = "settle" /\ call'[c].pc = "settle" /\ call'[c].app = call[c].app
        /\ call'[c].scan = call[c].scan /\ call'[c].release = call[c].release
        /\ call'[c].refunds = call[c].refunds \ {"employer"} /\ "employer" \in call[c].refunds
        /\ \A d \in Call : d # c => call'[d] = call[d]
    BY <1>20 DEF RefundEmployerSide, At, Shape, CallState
  <2>2. UNCHANGED <<status, hasPaid, quantity, jobPaid, disturbed>>
    BY <1>20 DEF RefundEmployerSide, offerVars, terms
  <2>3. \A d \in Call : Holds(d)' = Holds(d) /\ SettlesFor(d, x)' = SettlesFor(d, x)
    BY <2>1, <2>2 DEF Holds, Paying, PaysForJob, Settling, At, SettlesFor
  <2>4. SettlesFor(y, x) /\ AloneOn(x, y)
    BY <2>2, <2>3 DEF Alone
  <2>5. \A d \in Call \ {y} : x \notin Holds(d)'
    BY <2>3, <2>4 DEF AloneOn
  <2>6. CASE y = c
    <3>0. x = call[c].app
      BY <2>4, <2>6 DEF SettlesFor
    <3>1. call[c].scan => unit'[x] # "used"
      BY <1>20, <3>0 DEF RefundEmployerSide, ReleaseUnit, UnitsKept
    <3>2. call[c].release /\ call[c].scan \in BOOLEAN
      BY <2>1 DEF CallMarks, Settling, At, Shape, CallState
    <3> QED
      BY <2>1, <2>2, <2>4, <2>5, <2>6, <3>1, <3>2 DEF AloneOn
  <2>7. CASE y # c
    <3>1. x # call[c].app
      BY <2>1, <2>4, <2>7 DEF AloneOn, Holds, Settling, Paying, At
    <3>2. unit'[x] = unit[x]
      BY <1>20, <3>1 DEF RefundEmployerSide, ReleaseUnit, UnitsKept
    <3> QED
      BY <2>1, <2>2, <2>4, <2>5, <2>7, <3>2 DEF AloneOn, CoveredAtJobLevel
  <2> QED
    BY <2>6, <2>7
<1>21. ASSUME NEW c \in Call, RefundWorkerSide(c) PROVE AloneOn(x, y)'
  BY <1>21 DEF RefundWorkerSide, At, Goto, Leave, Fail, Start
<1>22. ASSUME NEW c \in Call, CloseAttempt(c) PROVE AloneOn(x, y)'
  <2> HIDE DEF Shape, Status, Pending, Side, CallState, Label, Idle, At, Paying, Settling, CoveredAtJobLevel,
               PaysForJob, SettlesFor, Holds, AloneOn, CallMarks, rowVars, terms, offerVars, moneyVars
  <2>1. call'[c].pc \in {"accept", "idle", "payRefund", "sync"} /\ \A d \in Call : d # c => call'[d] = call[d]
    BY <1>22 DEF CloseAttempt, Leave, Idle, Shape, CallState, Goto
  <2>2. ~Settling(c)' /\ Holds(c)' \subseteq Holds(c)
    BY <2>1 DEF Settling, Holds, Paying, At
  <2>3. UNCHANGED <<quantity, jobPaid>> /\ x \notin disturbed
    BY <1>22 DEF CloseAttempt, offerVars, terms, Fail
  <2>4. x \notin Holds(c) => status'[x] = status[x] /\ hasPaid'[x] = hasPaid[x] /\ unit'[x] = unit[x]
    BY <1>22 DEF CloseAttempt, Holds, Paying, Settling, At, Shape, rowVars, ReleaseUnit, UnitsKept
  <2> QED
    BY <2>1, <2>2, <2>3, <2>4, AloneLeft
<1>23. ASSUME NEW c \in Call, SyncWaitingPayment(c) PROVE AloneOn(x, y)'
  BY <1>23 DEF SyncWaitingPayment, At, Goto, Leave, Fail, Start
<1>24. ASSUME NEW c \in Call, SettleInterrupted(c) PROVE AloneOn(x, y)'
  BY <1>24 DEF SettleInterrupted, At, Goto, Leave, Fail, Start
<1>25. ASSUME NEW a \in Application, Accept(a) PROVE AloneOn(x, y)'
  <2> HIDE DEF Shape, Status, Pending, Side, CallState, Label, Idle, At, Paying, Settling, CoveredAtJobLevel,
               PaysForJob, SettlesFor, Holds, AloneOn, CallMarks, rowVars, terms, offerVars, moneyVars
  <2>1. UNCHANGED <<call, disturbed, quantity, jobPaid>> /\ app[a] = "PENDING"
    BY <1>25 DEF Accept, terms
  <2>2. SettlesFor(y, x) /\ AloneOn(x, y)
    BY <2>1 DEF Alone, SettlesFor, Settling, At
  <2>3. a # x
    BY <2>1, <2>2 DEF Unaccepted, AloneOn, Pending
  <2>4. status'[x] = status[x] /\ hasPaid'[x] = hasPaid[x] /\ unit'[x] = unit[x]
    BY <1>25, <2>3 DEF Accept, InitiateUnlock, Shape, UnitsKept
  <2>5. \A d \in Call : Holds(d)' = Holds(d)
    BY <2>1 DEF Holds, Paying, PaysForJob, Settling, At
  <2> QED
    BY <2>1, <2>2, <2>4, <2>5 DEF AloneOn, CoveredAtJobLevel
<1>26. ASSUME NEW a \in Application, CloseApplication(a) PROVE AloneOn(x, y)'
  BY <1>26 DEF CloseApplication, At, Goto, Leave, Fail, Start
<1>27. ASSUME NEW a \in Application, Expire(a) PROVE AloneOn(x, y)'
  BY <1>27 DEF Expire, At, Goto, Leave, Fail, Start
<1>28. ASSUME UNCHANGED vars PROVE AloneOn(x, y)'
  BY <1>28 DEF vars
<1> HIDE DEF AloneOn, CallMarks, Shape, CallState, Holds, Paying, Settling, SettlesFor, At
<1> QED
  BY <1>1, <1>2, <1>3, <1>4, <1>5, <1>6, <1>7, <1>8, <1>9, <1>10, <1>11,
     <1>12, <1>13, <1>14, <1>15, <1>16, <1>17, <1>18, <1>19, <1>20, <1>21,
     <1>22, <1>23, <1>24, <1>25, <1>26, <1>27, <1>28
     DEF Next, PayStep, SettleStep

\* An attempt that ended stays so.
LEMMA FinishedStep ==
  ASSUME Shape, Shape', Unaccepted, Carried, UnitsKept, CallMarks, Alone, Finished, [Next]_vars
  PROVE  Finished'
<1> USE DEF Shape, Status, Pending, Side, CallState, Label, Idle, At, Paying, Settling, CoveredAtJobLevel, PaysForJob, SettlesFor, rowVars, terms, offerVars, moneyVars
<1> SUFFICES ASSUME NEW x \in Application, x \notin disturbed' PROVE FinishedOn(x)'
  BY DEF Finished
<1>0. x \notin disturbed => FinishedOn(x)
  BY DEF Finished
<1> USE <1>0 DEF FinishedOn, Ended, Touches
<1>1. ASSUME NEW c \in Call, NEW a \in Application, NEW s \in Side, NEW wallet \in BOOLEAN, PayUnlock(c, a, s, wallet) PROVE FinishedOn(x)'
  BY <1>1 DEF PayUnlock, At, Goto, Leave, Fail, Start
<1>2. ASSUME NEW c \in Call, Debit(c) PROVE FinishedOn(x)'
  BY <1>2 DEF Debit, At, Goto, Leave, Fail, Start
<1>3. ASSUME NEW c \in Call, RecordWalletUnlockPayment(c) PROVE FinishedOn(x)'
  BY <1>3 DEF RecordWalletUnlockPayment, At, Goto, Leave, Fail, Start
<1>4. ASSUME NEW c \in Call, RecordFails(c) PROVE FinishedOn(x)'
  BY <1>4 DEF RecordFails, At, Goto, Leave, Fail, Start
<1>5. ASSUME NEW c \in Call, Commit(c) PROVE FinishedOn(x)'
  <2> HIDE DEF Shape, Status, Pending, Side, CallState, Label, Idle, At, Paying, Settling, CoveredAtJobLevel,
               PaysForJob, SettlesFor, FinishedOn, Ended, Touches, rowVars, terms, offerVars, moneyVars
  <2>1. /\ call[c].pc = "commit" /\ call'[c].pc \in {"accept", "idle", "payRefund"}
        /\ \A d \in Call : d # c => call'[d] = call[d]
    BY <1>5 DEF Commit, Goto, Leave, Abandon, Idle, Shape, CallState, At
  <2>2. UNCHANGED <<unit, quantity, jobPaid, disturbed>>
    BY <1>5 DEF Commit, offerVars, terms
  <2>3. ~Touches(c, x)' /\ ~SettlesFor(c, x)
    BY <2>1 DEF Touches, Paying, Settling, SettlesFor, At
  <2>4. CASE x # call[c].app
    <3>1. status'[x] = status[x]
      BY <1>5, <2>4 DEF Commit, Shape
    <3> QED
      BY <2>1, <2>2, <2>3, <3>1, FinishedKept
  <2>5. CASE x = call[c].app
    <3>1. Touches(c, x) /\ FinishedOn(x)
      BY <2>1, <2>2, <2>5 DEF Touches, Paying, At, Finished
    <3>2. status[x] \notin Ended /\ status'[x] \notin Ended
      BY <1>5, <2>5, <3>1 DEF Commit, FinishedOn, Shape, Ended
    <3>3. \A d \in Call : SettlesFor(d, x) => SettlesFor(d, x)'
      BY <2>1, <2>3 DEF SettlesFor, Settling, At
    <3> QED
      BY <2>2, <3>1, <3>2, <3>3 DEF FinishedOn
  <2> QED
    BY <2>4, <2>5
<1>6. ASSUME NEW c \in Call, CommitFails(c) PROVE FinishedOn(x)'
  <2> HIDE DEF Shape, Status, Pending, Side, CallState, Label, Idle, At, Paying, Settling, CoveredAtJobLevel,
               PaysForJob, SettlesFor, FinishedOn, Ended, Touches, rowVars, terms, offerVars, moneyVars
  <2>1. /\ call'[c].pc \in {"idle", "payRefund"} /\ ~SettlesFor(c, x)
        /\ \A d \in Call : d # c => call'[d] = call[d]
    BY <1>6 DEF CommitFails, Leave, Idle, Shape, CallState, SettlesFor, Settling, At, Goto, Abandon
  <2>2. UNCHANGED <<status, unit, quantity, jobPaid>> /\ x \notin disturbed
    BY <1>6 DEF CommitFails, rowVars, offerVars, terms, Fail
  <2>3. ~Touches(c, x)'
    BY <2>1 DEF Touches, Paying, Settling, At
  <2> QED
    BY <2>1, <2>2, <2>3, FinishedKept
<1>7. ASSUME NEW c \in Call, MarkJobPaid(c) PROVE FinishedOn(x)'
  BY <1>7 DEF MarkJobPaid, At, Goto, Leave, Fail, Start
<1>8. ASSUME NEW c \in Call, LoadUnpaidAttempts(c) PROVE FinishedOn(x)'
  <2> HIDE DEF Shape, Status, Pending, Side, CallState, Label, Idle, At, Paying, Settling, CoveredAtJobLevel,
               PaysForJob, SettlesFor, FinishedOn, Ended, Touches, rowVars, terms, offerVars, moneyVars
  <2>1. /\ call[c].pc = "cascadeLoad" /\ call'[c].pc = "cascade" /\ call'[c].app = call[c].app
        /\ (\A b \in call'[c].todo : status[b] \in Pending)
        /\ \A d \in Call : d # c => call'[d] = call[d]
        /\ UNCHANGED <<status, unit, quantity, jobPaid, disturbed>>
    BY <1>8, LoadReads
  <2>2. Touches(c, x)' => Touches(c, x) \/ status[x] \in Pending
    BY <2>1 DEF Touches, Paying, Settling, At
  <2>3. ~SettlesFor(c, x)
    BY <2>1 DEF SettlesFor, Settling, At
  <2> QED
    BY <2>1, <2>2, <2>3, FinishedKept
<1>9. ASSUME NEW c \in Call, NEW b \in Application, Cascade(c, b) PROVE FinishedOn(x)'
  BY <1>9 DEF Cascade, At, Goto, Leave, Fail, Start
<1>10. ASSUME NEW c \in Call, EndCascade(c) PROVE FinishedOn(x)'
  <2> HIDE DEF Shape, Status, Pending, Side, CallState, Label, Idle, At, Paying, Settling, CoveredAtJobLevel,
               PaysForJob, SettlesFor, FinishedOn, Ended, Touches, rowVars, terms, offerVars, moneyVars
  <2>1. /\ call'[c].pc \in {"accept", "idle"} /\ ~SettlesFor(c, x)
        /\ \A d \in Call : d # c => call'[d] = call[d]
    BY <1>10 DEF EndCascade, Leave, Idle, Shape, CallState, SettlesFor, Settling, At
  <2>2. UNCHANGED <<status, unit, quantity, jobPaid>> /\ x \notin disturbed
    BY <1>10 DEF EndCascade, rowVars, offerVars, terms, Fail
  <2>3. ~Touches(c, x)'
    BY <2>1 DEF Touches, Paying, Settling, At
  <2> QED
    BY <2>1, <2>2, <2>3, FinishedKept
<1>11. ASSUME NEW c \in Call, MarkAccepted(c) PROVE FinishedOn(x)'
  BY <1>11 DEF MarkAccepted, At, Goto, Leave, Fail, Start
<1>12. ASSUME NEW c \in Call, RejectLeftovers(c) PROVE FinishedOn(x)'
  BY <1>12 DEF RejectLeftovers, At, Goto, Leave, Fail, Start
<1>13. ASSUME NEW c \in Call, PayInterrupted(c) PROVE FinishedOn(x)'
  <2> HIDE DEF Shape, Status, Pending, Side, CallState, Label, Idle, At, Paying, Settling, CoveredAtJobLevel,
               PaysForJob, SettlesFor, FinishedOn, Ended, Touches, rowVars, terms, offerVars, moneyVars
  <2>1. /\ call'[c].pc \in {"idle", "payRefund"} /\ ~SettlesFor(c, x)
        /\ \A d \in Call : d # c => call'[d] = call[d]
    BY <1>13 DEF PayInterrupted, Leave, Idle, Shape, CallState, SettlesFor, Settling, At, Goto, Abandon
  <2>2. UNCHANGED <<status, unit, quantity, jobPaid>> /\ x \notin disturbed
    BY <1>13 DEF PayInterrupted, rowVars, offerVars, terms, Fail
  <2>3. ~Touches(c, x)'
    BY <2>1 DEF Touches, Paying, Settling, At
  <2> QED
    BY <2>1, <2>2, <2>3, FinishedKept
<1>14. ASSUME NEW c \in Call, RefundPayer(c) PROVE FinishedOn(x)'
  BY <1>14 DEF RefundPayer, At, Goto, Leave, Fail, Start
<1>15. ASSUME NEW c \in Call, RefundPayerFails(c) PROVE FinishedOn(x)'
  BY <1>15 DEF RefundPayerFails, At, Goto, Leave, Fail, Start
<1>16. ASSUME NEW c \in Call, NEW a \in Application, ScanExpired(c, a) PROVE FinishedOn(x)'
  <2> HIDE DEF Shape, Status, Pending, Side, CallState, Label, Idle, At, Paying, Settling, CoveredAtJobLevel,
               PaysForJob, SettlesFor, FinishedOn, Ended, Touches, rowVars, terms, offerVars, moneyVars
  <2>1. status[a] \in Pending /\ Settled(c, a, TRUE, ExpiryRefunds(a))
    BY <1>16, ScanSettles
  <2>2. /\ call'[c].pc = "settle" /\ call'[c].app = a /\ x \notin disturbed
        /\ \A d \in Call : d # c => call'[d] = call[d]
    BY <2>1 DEF Settled
  <2>3. UNCHANGED <<status, unit, quantity, jobPaid>> /\ ~SettlesFor(c, x)
    BY <1>16 DEF ScanExpired, SettlesFor, Settling, At, rowVars, offerVars, terms
  <2>4. Touches(c, x)' => status[x] \in Pending
    BY <2>1, <2>2 DEF Touches, Paying, Settling, At
  <2> QED
    BY <2>2, <2>3, <2>4, FinishedKept
<1>17. ASSUME NEW c \in Call, NEW a \in Application, Cancel(c, a) PROVE FinishedOn(x)'
  BY <1>17 DEF Cancel, At, Goto, Leave, Fail, Start
<1>18. ASSUME NEW c \in Call, CommitCancel(c) PROVE FinishedOn(x)'
  <2> HIDE DEF Shape, Status, Pending, Side, CallState, Label, Idle, At, Paying, Settling, CoveredAtJobLevel,
               PaysForJob, SettlesFor, FinishedOn, Ended, Touches, rowVars, terms, offerVars, moneyVars
  <2>1. /\ call'[c].pc \in {"abort", "idle"} /\ ~SettlesFor(c, x)
        /\ \A d \in Call : d # c => call'[d] = call[d]
    BY <1>18 DEF CommitCancel, Leave, Idle, Shape, CallState, SettlesFor, Settling, At, Goto
  <2>2. UNCHANGED <<status, unit, quantity, jobPaid>> /\ x \notin disturbed
    BY <1>18 DEF CommitCancel, rowVars, offerVars, terms, Fail
  <2>3. ~Touches(c, x)'
    BY <2>1 DEF Touches, Paying, Settling, At
  <2> QED
    BY <2>1, <2>2, <2>3, FinishedKept
<1>19. ASSUME NEW c \in Call, AbortPendingUnlock(c) PROVE FinishedOn(x)'
  <2> HIDE DEF Shape, Status, Pending, Side, CallState, Label, Idle, At, Paying, Settling, CoveredAtJobLevel,
               PaysForJob, SettlesFor, FinishedOn, Ended, Touches, rowVars, terms, offerVars, moneyVars
  <2>1. UNCHANGED <<status, unit, quantity, jobPaid>> /\ ~SettlesFor(c, x)
    BY <1>19 DEF AbortPendingUnlock, SettlesFor, Settling, At, rowVars, offerVars, terms
  <2>2. CASE Leave(c) /\ disturbed' = disturbed
    <3>1. call'[c] = Idle /\ \A d \in Call : d # c => call'[d] = call[d]
      BY <2>2 DEF Leave, Shape
    <3>2. ~Touches(c, x)'
      BY <3>1 DEF Touches, Paying, Settling, At, Idle
    <3> QED
      BY <2>1, <2>2, <3>1, <3>2, FinishedKept
  <2>3. CASE status[call[c].app] \in Pending /\ Settled(c, call[c].app, FALSE, AbortRefunds(call[c].app))
    <3>1. /\ call'[c].pc = "settle" /\ call'[c].app = call[c].app /\ x \notin disturbed
          /\ \A d \in Call : d # c => call'[d] = call[d]
      BY <2>3 DEF Settled
    <3>2. Touches(c, x)' => status[x] \in Pending
      BY <2>3, <3>1 DEF Touches, Paying, Settling, At
    <3> QED
      BY <2>1, <3>1, <3>2, FinishedKept
  <2> QED
    BY <1>19, <2>2, <2>3, AbortSettles
<1>20. ASSUME NEW c \in Call, RefundEmployerSide(c) PROVE FinishedOn(x)'
  <2> HIDE DEF Shape, Status, Pending, Side, CallState, Label, Idle, At, Paying, Settling, CoveredAtJobLevel,
               PaysForJob, SettlesFor, FinishedOn, Ended, Touches, rowVars, terms, offerVars, moneyVars
  <2>1. /\ call[c].pc = "settle" /\ call'[c].pc = "settle" /\ call'[c].app = call[c].app
        /\ call'[c].todo = call[c].todo
        /\ \A d \in Call : d # c => call'[d] = call[d]
    BY <1>20 DEF RefundEmployerSide, At, Shape, CallState
  <2>2. UNCHANGED <<status, quantity, jobPaid, disturbed>>
    BY <1>20 DEF RefundEmployerSide, offerVars, terms
  <2>3. \A d \in Call : SettlesFor(d, x)' = SettlesFor(d, x) /\ Touches(d, x)' = Touches(d, x)
    BY <2>1, <2>2 DEF SettlesFor, Touches, Paying, Settling, At
  <2>4. CASE x # call[c].app
    <3>1. unit'[x] = unit[x]
      BY <1>20, <2>4 DEF RefundEmployerSide, ReleaseUnit, UnitsKept
    <3> QED
      BY <2>1, <2>2, <2>3, <3>1, FinishedKept
  <2>5. CASE x = call[c].app
    <3>1. SettlesFor(c, x) /\ Touches(c, x)
      BY <2>1, <2>5 DEF SettlesFor, Touches, Settling, At
    <3>2. status'[x] \notin Ended
      BY <2>2, <3>1 DEF Finished, FinishedOn
    <3> QED
      BY <2>3, <3>1, <3>2 DEF FinishedOn
  <2> QED
    BY <2>4, <2>5
<1>21. ASSUME NEW c \in Call, RefundWorkerSide(c) PROVE FinishedOn(x)'
  BY <1>21 DEF RefundWorkerSide, At, Goto, Leave, Fail, Start
<1>22. ASSUME NEW c \in Call, CloseAttempt(c) PROVE FinishedOn(x)'
  <2> HIDE DEF Shape, Status, Pending, Side, CallState, Label, Idle, At, Paying, Settling, CoveredAtJobLevel,
               PaysForJob, SettlesFor, FinishedOn, Ended, Touches, rowVars, terms, offerVars, moneyVars
  <2>1. /\ call[c].pc = "settle" /\ call'[c].pc \in {"sync", "idle"}
        /\ \A d \in Call : d # c => call'[d] = call[d]
    BY <1>22 DEF CloseAttempt, Goto, Leave, Idle, At, Shape, CallState
  <2>2. UNCHANGED <<quantity, jobPaid, disturbed>> /\ call[c].refunds = {}
    BY <1>22 DEF CloseAttempt, offerVars, terms
  <2>3. ~Touches(c, x)'
    BY <2>1 DEF Touches, Paying, Settling, At
  <2>4. CASE x # call[c].app
    <3>1. status'[x] = status[x] /\ unit'[x] = unit[x]
      BY <1>22, <2>4 DEF CloseAttempt, ReleaseUnit, UnitsKept, Shape
    <3>2. ~SettlesFor(c, x)
      BY <2>4 DEF SettlesFor
    <3> QED
      BY <2>1, <2>2, <2>3, <3>1, <3>2, FinishedKept
  <2>5. CASE x = call[c].app
    <3>1. SettlesFor(c, x) /\ AloneOn(x, c)
      BY <2>1, <2>2, <2>5 DEF Alone, SettlesFor, Settling, At
    <3>2. status'[x] \in Ended
      BY <1>22, <2>5 DEF CloseAttempt, Shape, CallState, Ended
    <3>3. unit'[x] = "used" => CoveredAtJobLevel(jobPaid)'
      BY <1>22, <2>2, <2>5, <3>1 DEF CloseAttempt, ReleaseUnit, UnitsKept, AloneOn, CoveredAtJobLevel
    <3>4. \A d \in Call : d # c => x \notin Holds(d)
      BY <3>1 DEF AloneOn
    <3>5. \A d \in Call : d # c => ~Touches(d, x)
      BY <3>4 DEF Holds, CallMarks, Touches, Paying, Settling, At
    <3>6. \A d \in Call : ~Touches(d, x)'
      BY <2>1, <2>3, <3>5 DEF Touches, Paying, Settling, At
    <3> QED
      BY <2>2, <3>2, <3>3, <3>6 DEF FinishedOn
  <2> QED
    BY <2>4, <2>5
<1>23. ASSUME NEW c \in Call, SyncWaitingPayment(c) PROVE FinishedOn(x)'
  BY <1>23 DEF SyncWaitingPayment, At, Goto, Leave, Fail, Start
<1>24. ASSUME NEW c \in Call, SettleInterrupted(c) PROVE FinishedOn(x)'
  <2> HIDE DEF Shape, Status, Pending, Side, CallState, Label, Idle, At, Paying, Settling, CoveredAtJobLevel,
               PaysForJob, SettlesFor, FinishedOn, Ended, Touches, rowVars, terms, offerVars, moneyVars
  <2>1. /\ call'[c] = Idle /\ Holds(c) \subseteq disturbed'
        /\ \A d \in Call : d # c => call'[d] = call[d]
        /\ x \notin disturbed /\ UNCHANGED <<status, unit, quantity, jobPaid>>
    BY <1>24 DEF SettleInterrupted, Leave, Fail, Shape, rowVars, offerVars, terms
  <2>2. ~SettlesFor(c, x)
    BY <2>1 DEF Holds, SettlesFor, Settling, Paying, At
  <2>3. ~Touches(c, x)'
    BY <2>1 DEF Touches, Paying, Settling, At, Idle
  <2> QED
    BY <2>1, <2>2, <2>3, FinishedKept
<1>25. ASSUME NEW a \in Application, Accept(a) PROVE FinishedOn(x)'
  <2> HIDE DEF Shape, Status, Pending, Side, CallState, Label, Idle, At, Paying, Settling, CoveredAtJobLevel,
               PaysForJob, SettlesFor, FinishedOn, Ended, Touches, rowVars, terms, offerVars, moneyVars
  <2>1. UNCHANGED <<call, disturbed, quantity, jobPaid>> /\ app[a] = "PENDING"
    BY <1>25 DEF Accept, terms
  <2>2. \A d \in Call : SettlesFor(d, x)' = SettlesFor(d, x) /\ Touches(d, x)' = Touches(d, x)
    BY <2>1 DEF SettlesFor, Touches, Paying, Settling, At
  <2>3. FinishedOn(x)
    BY <2>1 DEF Finished
  <2>4. CASE a # x
    <3>1. status'[x] = status[x] /\ unit'[x] = unit[x]
      BY <1>25, <2>4 DEF Accept, InitiateUnlock, Shape, UnitsKept
    <3> QED
      BY <2>1, <2>2, <2>3, <3>1 DEF FinishedOn, CoveredAtJobLevel
  <2>5. CASE a = x
    <3>1. status'[x] \in {"PENDING_BOTH", "PENDING_WORKER"} /\ unit'[x] \in {"none", "used"}
      BY <1>25, <2>5 DEF Accept, InitiateUnlock, UnitsKept, Shape
    <3> QED
      BY <3>1 DEF FinishedOn, Ended
  <2> QED
    BY <2>4, <2>5
<1>26. ASSUME NEW a \in Application, CloseApplication(a) PROVE FinishedOn(x)'
  BY <1>26 DEF CloseApplication, At, Goto, Leave, Fail, Start
<1>27. ASSUME NEW a \in Application, Expire(a) PROVE FinishedOn(x)'
  BY <1>27 DEF Expire, At, Goto, Leave, Fail, Start
<1>28. ASSUME UNCHANGED vars PROVE FinishedOn(x)'
  BY <1>28 DEF vars
<1> HIDE DEF FinishedOn, Touches, Shape, CallState, Paying, Settling, SettlesFor, At
<1> QED
  BY <1>1, <1>2, <1>3, <1>4, <1>5, <1>6, <1>7, <1>8, <1>9, <1>10, <1>11,
     <1>12, <1>13, <1>14, <1>15, <1>16, <1>17, <1>18, <1>19, <1>20, <1>21,
     <1>22, <1>23, <1>24, <1>25, <1>26, <1>27, <1>28
     DEF Next, PayStep, SettleStep

----------------------------------------------------------------------------
\* What a side paid for an attempt is kept for it, and not given back yet; what a plan
\* covered was not paid.
Kept(a, s) ==
  /\ s \in hasPaid[a] /\ status[a] \notin Ended
  /\ s = "employer" => unit[a] = "none"
  /\ \A c \in Call : SettlesFor(c, a) => s \in call[c].refunds

\* A side has paid what is kept for it and what is in limbo; the employer's payment for a
\* whole job is not the attempt's.
Even(a, s) ==
  charged[<<a, s>>] - refunded[<<a, s>>] = Once(Kept(a, s)) + Cardinality(InLimbo(a, s))
Exempt(s) == s = "employer" /\ CoveredAtJobLevel(jobPaid)
Balanced == \A a \in Application \ disturbed, s \in Side : ~Exempt(s) => Even(a, s)

\* A step of one call keeps a side even when what it takes and gives back is what is kept
\* or in limbo.
LEMMA EvenKept ==
  ASSUME Money, Money', NEW c \in Call, NEW a \in Application, NEW s \in Side, Even(a, s),
         \A d \in Call : d # c => call'[d] = call[d],
         charged'[<<a, s>>] + refunded[<<a, s>>] + Once(Limbo(c, a, s)) + Once(Kept(a, s))
           = charged[<<a, s>>] + refunded'[<<a, s>>] + Once(Limbo(c, a, s)') + Once(Kept(a, s)')
  PROVE  Even(a, s)'
<1>1. /\ charged[<<a, s>>] \in Nat /\ charged'[<<a, s>>] \in Nat
      /\ refunded[<<a, s>>] \in Nat /\ refunded'[<<a, s>>] \in Nat
  BY DEF Money
<1>2. \A d \in Call : d # c => Limbo(d, a, s)' = Limbo(d, a, s)
  BY DEF Limbo
<1>3. InLimbo(a, s)' \ {c} = InLimbo(a, s) \ {c}
  BY <1>2 DEF InLimbo
<1>4. Once(c \in InLimbo(a, s)) = Once(Limbo(c, a, s)) /\ Once(c \in InLimbo(a, s)') = Once(Limbo(c, a, s)')
  BY DEF InLimbo, Once
<1>5. /\ Cardinality(InLimbo(a, s)) \in Nat /\ Cardinality(InLimbo(a, s)') \in Nat
      /\ Cardinality(InLimbo(a, s)') + Once(Limbo(c, a, s)) = Cardinality(InLimbo(a, s)) + Once(Limbo(c, a, s)')
  BY <1>3, <1>4, LimboIsFinite, OneApart
<1>6. /\ Once(Kept(a, s)) \in {0, 1} /\ Once(Kept(a, s)') \in {0, 1}
      /\ Once(Limbo(c, a, s)) \in {0, 1} /\ Once(Limbo(c, a, s)') \in {0, 1}
  BY DEF Once
<1>7. charged[<<a, s>>] - refunded[<<a, s>>] = Once(Kept(a, s)) + Cardinality(InLimbo(a, s))
  BY DEF Even
<1>8. charged'[<<a, s>>] - refunded'[<<a, s>>] = Once(Kept(a, s)') + Cardinality(InLimbo(a, s)')
  BY <1>1, <1>5, <1>6, <1>7
<1> QED
  BY <1>8 DEF Even

\* A step that moves nothing.
LEMMA EvenQuiet ==
  ASSUME Money, Money', NEW c \in Call, NEW a \in Application, NEW s \in Side, Even(a, s),
         \A d \in Call : d # c => call'[d] = call[d],
         charged'[<<a, s>>] = charged[<<a, s>>], refunded'[<<a, s>>] = refunded[<<a, s>>],
         Limbo(c, a, s)' <=> Limbo(c, a, s), Kept(a, s)' <=> Kept(a, s)
  PROVE  Even(a, s)'
<1>1. charged[<<a, s>>] \in Nat /\ refunded[<<a, s>>] \in Nat
  BY DEF Money
<1>2. Once(Limbo(c, a, s)') = Once(Limbo(c, a, s)) /\ Once(Kept(a, s)') = Once(Kept(a, s))
  BY DEF Once
<1>3. Once(Limbo(c, a, s)) \in {0, 1} /\ Once(Kept(a, s)) \in {0, 1}
  BY DEF Once
<1> QED
  BY <1>1, <1>2, <1>3, EvenKept

\* What is kept for an attempt stays so while its row and its settlements do.
LEMMA KeptSame ==
  ASSUME NEW c \in Call, NEW a \in Application, NEW s \in Side,
         \A d \in Call : d # c => call'[d] = call[d],
         status'[a] = status[a], hasPaid'[a] = hasPaid[a], unit'[a] = unit[a],
         SettlesFor(c, a) <=> SettlesFor(c, a)',
         SettlesFor(c, a) => (s \in call'[c].refunds <=> s \in call[c].refunds)
  PROVE  Kept(a, s)' <=> Kept(a, s)
<1>1. \A d \in Call : d # c => (SettlesFor(d, a)' <=> SettlesFor(d, a))
  BY DEF SettlesFor, Settling, At
<1>2. (\A d \in Call : SettlesFor(d, a) => s \in call[d].refunds)
        <=> (\A d \in Call : SettlesFor(d, a) => s \in call[d].refunds)'
  BY <1>1
<1> QED
  BY <1>2 DEF Kept

\* A step that leaves an attempt's row, its settlements and its money alone.
LEMMA EvenStill ==
  ASSUME Money, Money', NEW c \in Call, NEW a \in Application, NEW s \in Side, Even(a, s),
         \A d \in Call : d # c => call'[d] = call[d],
         status'[a] = status[a], hasPaid'[a] = hasPaid[a], unit'[a] = unit[a],
         charged'[<<a, s>>] = charged[<<a, s>>], refunded'[<<a, s>>] = refunded[<<a, s>>],
         Limbo(c, a, s)' <=> Limbo(c, a, s), ~SettlesFor(c, a), ~SettlesFor(c, a)'
  PROVE  Even(a, s)'
<1>1. Kept(a, s)' <=> Kept(a, s)
  BY KeptSame
<1> QED
  BY <1>1, EvenQuiet

\* A payment under way leaves no room for a settlement of its attempts.
LEMMA NoSettlement ==
  ASSUME Alone, NEW c \in Call, Paying(c), NEW x \in Application, x \notin disturbed, x \in Holds(c)
  PROVE  \A d \in Call : ~SettlesFor(d, x)
<1> SUFFICES ASSUME NEW d \in Call, SettlesFor(d, x) PROVE FALSE
  OBVIOUS
<1>1. d # c
  BY DEF SettlesFor, Paying, Settling, At
<1> QED
  BY <1>1 DEF Alone, AloneOn

\* A settlement that starts keeps what it owes.
LEMMA EvenStarts ==
  ASSUME Money, Money', NEW c \in Call, NEW a \in Application, NEW scan \in BOOLEAN,
         Settled(c, a, scan, AbortRefunds(a)), status[a] \in Pending,
         UNCHANGED <<status, hasPaid, unit, quantity, jobPaid, charged, refunded>>,
         call[c].pc \in {"idle", "abort"},
         NEW x \in Application, x \notin disturbed', NEW t \in Side, ~Exempt(t), Even(x, t)
  PROVE  Even(x, t)'
<1>1. /\ call'[c].pc = "settle" /\ call'[c].app = a /\ call'[c].refunds = AbortRefunds(a)
      /\ \A d \in Call : d # c => call'[d] = call[d]
      /\ a \notin disturbed' => \A d \in Call \ {c} : a \notin Holds(d)
  BY DEF Settled
<1>2. ~Limbo(c, x, t) /\ ~Limbo(c, x, t)' /\ ~SettlesFor(c, x)
  BY <1>1 DEF Limbo, SettlesFor, Settling, At
<1>3. CASE x # a
  <2>1. ~SettlesFor(c, x)'
    BY <1>1, <1>3 DEF SettlesFor
  <2> QED
    BY <1>1, <1>2, <2>1, EvenStill
<1>4. CASE x = a
  <2>1. \A d \in Call : ~SettlesFor(d, x)
    BY <1>1, <1>2, <1>4 DEF SettlesFor, Holds, Settling, Paying, At
  <2>2. \A d \in Call : SettlesFor(d, x)' <=> d = c
    BY <1>1, <1>4, <2>1 DEF SettlesFor, Settling, At
  <2>3. t \in AbortRefunds(x) <=> t \in hasPaid[x]
    BY DEF AbortRefunds, Exempt
  <2>4. Kept(x, t)' <=> Kept(x, t)
    BY <1>1, <1>4, <2>1, <2>2, <2>3 DEF Kept
  <2> QED
    BY <1>1, <1>2, <2>4, EvenQuiet
<1> QED
  BY <1>3, <1>4

\* A step of no call.
LEMMA EvenAside ==
  ASSUME NEW a \in Application, NEW s \in Side, Even(a, s), UNCHANGED <<call, charged, refunded>>,
         Kept(a, s)' <=> Kept(a, s)
  PROVE  Even(a, s)'
<1>1. InLimbo(a, s)' = InLimbo(a, s)
  BY DEF InLimbo, Limbo
<1>2. Once(Kept(a, s)') = Once(Kept(a, s))
  BY DEF Once
<1> QED
  BY <1>1, <1>2 DEF Even

\* Every step keeps the sides of undisturbed attempts even.
LEMMA BalancedStep ==
  ASSUME Shape, Unaccepted, Carried, UnitsKept, Money, Money', PlanMarks, CallMarks, Alone,
         Finished, Balanced, [Next]_vars
  PROVE  Balanced'
<1> SUFFICES ASSUME NEW x \in Application, x \notin disturbed', NEW t \in Side, ~Exempt(t)'
             PROVE  Even(x, t)'
  BY DEF Balanced
<1>0. x \notin disturbed /\ (UNCHANGED <<quantity, jobPaid>> \/ ~Exempt(t)) => Even(x, t)
  BY DEF Balanced, Exempt, CoveredAtJobLevel
<1>1. ASSUME NEW c \in Call, NEW a \in Application, NEW s \in Side, NEW wallet \in BOOLEAN, PayUnlock(c, a, s, wallet) PROVE Even(x, t)'
  <2>1. /\ UNCHANGED <<status, hasPaid, unit, charged, refunded, quantity, jobPaid>>
        /\ disturbed \subseteq disturbed'
    BY <1>1 DEF PayUnlock, rowVars, offerVars, terms, moneyVars, Fail
  <2>2. \A d \in Call : d # c => call'[d] = call[d]
    BY <1>1 DEF PayUnlock, Leave, Goto, Shape
  <2>3. ~SettlesFor(c, x) /\ ~SettlesFor(c, x)'
    BY <1>1 DEF PayUnlock, Leave, Goto, Idle, Shape, CallState, SettlesFor, Settling, At
  <2>4. Limbo(c, x, t)' <=> Limbo(c, x, t)
    BY <1>1 DEF PayUnlock, Leave, Goto, Idle, Shape, CallState, Limbo, At
  <2>5. Even(x, t)
    BY <1>0, <2>1
  <2> QED
    BY <2>1, <2>2, <2>3, <2>4, <2>5, EvenStill
<1>2. ASSUME NEW c \in Call, Debit(c) PROVE Even(x, t)'
  <2>1. /\ UNCHANGED <<status, hasPaid, unit, refunded, disturbed, quantity, jobPaid>> /\ call[c].pc = "debit"
        /\ \A d \in Call : d # c => call'[d] = call[d]
    BY <1>2 DEF Debit, Goto, Leave, Shape, At, rowVars, offerVars, terms
  <2>2. Even(x, t) /\ ~Limbo(c, x, t) /\ ~SettlesFor(c, x)
    BY <1>0, <2>1 DEF Limbo, SettlesFor, Settling, At
  <2>3. CASE Leave(c) /\ UNCHANGED charged
    <3>1. ~SettlesFor(c, x)' /\ ~Limbo(c, x, t)'
      BY <2>3 DEF Leave, Shape, Idle, Limbo, SettlesFor, Settling, At
    <3> QED
      BY <2>1, <2>2, <2>3, <3>1, EvenStill
  <2>4. CASE Charge(c) /\ Goto(c, "record")
    <3>1. call'[c].pc = "record" /\ call'[c].app = call[c].app /\ call'[c].side = call[c].side /\ ~SettlesFor(c, x)'
      BY <2>4 DEF Goto, Shape, CallState, SettlesFor, Settling, At
    <3>2. CASE x = call[c].app /\ t = call[c].side
      <4>1. charged'[<<x, t>>] = charged[<<x, t>>] + 1 /\ charged[<<x, t>>] \in Nat /\ refunded[<<x, t>>] \in Nat
        BY <2>4, <3>2 DEF Charge, Money
      <4>2. Limbo(c, x, t)'
        BY <3>1, <3>2 DEF Limbo
      <4>3. Kept(x, t)' <=> Kept(x, t)
        BY <2>1, <2>2, <3>1, KeptSame
      <4>4. /\ Once(Limbo(c, x, t)) = 0 /\ Once(Limbo(c, x, t)') = 1
            /\ Once(Kept(x, t)') = Once(Kept(x, t)) /\ Once(Kept(x, t)) \in {0, 1}
        BY <2>2, <4>2, <4>3 DEF Once
      <4>5. charged'[<<x, t>>] + refunded[<<x, t>>] + Once(Limbo(c, x, t)) + Once(Kept(x, t))
              = charged[<<x, t>>] + refunded'[<<x, t>>] + Once(Limbo(c, x, t)') + Once(Kept(x, t)')
        BY <2>1, <4>1, <4>4
      <4> QED
        BY <2>1, <2>2, <4>5, EvenKept
    <3>3. CASE x # call[c].app \/ t # call[c].side
      <4>1. charged'[<<x, t>>] = charged[<<x, t>>] /\ ~Limbo(c, x, t)'
        BY <2>4, <3>1, <3>3 DEF Charge, Money, Limbo
      <4> QED
        BY <2>1, <2>2, <3>1, <4>1, EvenStill
    <3> QED
      BY <3>2, <3>3
  <2> QED
    BY <1>2, <2>3, <2>4 DEF Debit
<1>3. ASSUME NEW c \in Call, RecordWalletUnlockPayment(c) PROVE Even(x, t)'
  <2>1. /\ UNCHANGED <<status, hasPaid, unit, charged, refunded, quantity, jobPaid>>
        /\ disturbed \subseteq disturbed'
    BY <1>3 DEF RecordWalletUnlockPayment, rowVars, offerVars, terms, moneyVars, Fail
  <2>2. \A d \in Call : d # c => call'[d] = call[d]
    BY <1>3 DEF RecordWalletUnlockPayment, Leave, Goto, Shape
  <2>3. ~SettlesFor(c, x) /\ ~SettlesFor(c, x)'
    BY <1>3 DEF RecordWalletUnlockPayment, Leave, Goto, Idle, Shape, CallState, SettlesFor, Settling, At
  <2>4. Limbo(c, x, t)' <=> Limbo(c, x, t)
    BY <1>3 DEF RecordWalletUnlockPayment, Leave, Goto, Idle, Shape, CallState, Limbo, At, Money
  <2>5. Even(x, t)
    BY <1>0, <2>1
  <2> QED
    BY <2>1, <2>2, <2>3, <2>4, <2>5, EvenStill
<1>4. ASSUME NEW c \in Call, RecordFails(c) PROVE Even(x, t)'
  <2>1. /\ UNCHANGED <<status, hasPaid, unit, charged, refunded, quantity, jobPaid>>
        /\ disturbed \subseteq disturbed'
    BY <1>4 DEF RecordFails, rowVars, offerVars, terms, moneyVars, Fail
  <2>2. \A d \in Call : d # c => call'[d] = call[d]
    BY <1>4 DEF RecordFails, Leave, Goto, Shape
  <2>3. x # call[c].app
    BY <1>4 DEF RecordFails, Fail, Holds, Paying, Settling, At, Carried
  <2>4. call'[c].app = call[c].app \/ call'[c].app = NoApplication
    BY <1>4 DEF RecordFails, Leave, Goto, Idle, Shape, CallState
  <2>5. ~SettlesFor(c, x) /\ ~SettlesFor(c, x)' /\ ~Limbo(c, x, t) /\ ~Limbo(c, x, t)'
    BY <2>3, <2>4, UnlockAssumption DEF SettlesFor, Limbo
  <2>6. Even(x, t)
    BY <1>0, <2>1
  <2> QED
    BY <2>1, <2>2, <2>5, <2>6, EvenStill
<1>5. ASSUME NEW c \in Call, Commit(c) PROVE Even(x, t)'
  <2>1. /\ UNCHANGED <<unit, refunded, disturbed, quantity, jobPaid>>
        /\ call[c].pc = "commit" /\ call'[c].pc \in {"accept", "idle", "payRefund"}
        /\ \A d \in Call : d # c => call'[d] = call[d]
    BY <1>5 DEF Commit, Goto, Leave, Abandon, Idle, Shape, CallState, At, offerVars, terms
  <2>2. Even(x, t) /\ ~SettlesFor(c, x) /\ ~SettlesFor(c, x)'
    BY <1>0, <2>1 DEF SettlesFor, Settling, At, Exempt, CoveredAtJobLevel
  <2>3. CASE call[c].side \in hasPaid[call[c].app]
    <3>1. UNCHANGED <<hasPaid, status, charged>> /\ Abandon(c)
      BY <1>5, <2>3 DEF Commit
    <3>2. Limbo(c, x, t)' <=> Limbo(c, x, t)
      BY <2>1, <3>1 DEF Abandon, Goto, Leave, Idle, Shape, CallState, Limbo
    <3> QED
      BY <2>1, <2>2, <3>1, <3>2, EvenStill
  <2>4. CASE call[c].side \notin hasPaid[call[c].app]
    <3>1. /\ hasPaid' = [hasPaid EXCEPT ![call[c].app] = @ \cup {call[c].side}] /\ Apply(c)
          /\ call'[c].pc \in {"accept", "idle"}
          /\ status' = [status EXCEPT ![call[c].app] = status'[call[c].app]]
          /\ status'[call[c].app] \notin Ended
      BY <1>5, <2>4 DEF Commit, Leave, Idle, Shape, CallState, Ended, Carried, At
    <3>2. ~Limbo(c, x, t)'
      BY <3>1 DEF Limbo
    <3>3. CASE x # call[c].app
      <4>1. /\ status'[x] = status[x] /\ hasPaid'[x] = hasPaid[x] /\ ~Limbo(c, x, t)
            /\ charged'[<<x, t>>] = charged[<<x, t>>]
        BY <3>1, <3>3 DEF Limbo, Apply, Charge, Money, Shape
      <4> QED
        BY <2>1, <2>2, <3>2, <4>1, EvenStill
    <3>4. CASE x = call[c].app
      <4>1. Paying(c) /\ x \in Holds(c) /\ Touches(c, x)
        BY <2>1, <3>4 DEF Paying, Holds, Touches
      <4>2. \A d \in Call : ~SettlesFor(d, x)
        BY <2>1, <4>1, NoSettlement
      <4>3. \A d \in Call : ~SettlesFor(d, x)'
        BY <2>1, <2>2, <4>2 DEF SettlesFor, Settling, At
      <4>4. status[x] \notin Ended /\ status'[x] \notin Ended
        BY <2>1, <3>1, <3>4, <4>1 DEF Finished, FinishedOn
      <4>5. CASE t # call[c].side
        <5>1. /\ charged'[<<x, t>>] = charged[<<x, t>>] /\ ~Limbo(c, x, t)
              /\ t \in hasPaid'[x] <=> t \in hasPaid[x]
          BY <3>1, <3>4, <4>5 DEF Limbo, Apply, Charge, Money, Shape
        <5>2. Kept(x, t)' <=> Kept(x, t)
          BY <2>1, <4>2, <4>3, <4>4, <5>1 DEF Kept
        <5> QED
          BY <2>1, <2>2, <3>2, <5>1, <5>2, EvenQuiet
      <4>6. CASE t = call[c].side
        <5>1. t \in hasPaid'[x] /\ (t = "employer" => unit'[x] = "none")
          BY <2>1, <2>4, <3>1, <3>4, <4>6 DEF PlanMarks, Shape
        <5>2. ~Kept(x, t) /\ Kept(x, t)'
          BY <2>4, <3>4, <4>3, <4>4, <4>6, <5>1 DEF Kept
        <5>3. Once(Kept(x, t)) = 0 /\ Once(Kept(x, t)') = 1 /\ Once(Limbo(c, x, t)') = 0
          BY <3>2, <5>2 DEF Once
        <5>4. charged'[<<x, t>>] + Once(Limbo(c, x, t)) = charged[<<x, t>>] + 1 /\ charged'[<<x, t>>] \in Nat
          <6>1. CASE call[c].wallet
            <7>1. Limbo(c, x, t) /\ charged' = charged
              BY <2>1, <3>1, <3>4, <4>6, <6>1 DEF Limbo, Apply
            <7> QED
              BY <7>1 DEF Once, Money
          <6>2. CASE ~call[c].wallet
            <7>1. ~Limbo(c, x, t) /\ charged'[<<x, t>>] = charged[<<x, t>>] + 1 /\ charged[<<x, t>>] \in Nat
              BY <2>1, <3>1, <3>4, <4>6, <6>2 DEF Limbo, Apply, Charge, Money
            <7> QED
              BY <7>1 DEF Once
          <6> QED
            BY <6>1, <6>2
        <5>5. charged[<<x, t>>] \in Nat /\ refunded[<<x, t>>] \in Nat /\ Once(Limbo(c, x, t)) \in {0, 1}
          BY DEF Money, Once
        <5>6. charged'[<<x, t>>] + refunded[<<x, t>>] + Once(Limbo(c, x, t)) + Once(Kept(x, t))
                = charged[<<x, t>>] + refunded'[<<x, t>>] + Once(Limbo(c, x, t)') + Once(Kept(x, t)')
          BY <2>1, <5>3, <5>4, <5>5
        <5> QED
          BY <2>1, <2>2, <5>6, EvenKept
      <4> QED
        BY <4>5, <4>6
    <3> QED
      BY <3>3, <3>4
  <2> QED
    BY <2>3, <2>4
<1>6. ASSUME NEW c \in Call, CommitFails(c) PROVE Even(x, t)'
  <2>1. /\ UNCHANGED <<status, hasPaid, unit, charged, refunded, quantity, jobPaid>>
        /\ disturbed \subseteq disturbed'
    BY <1>6 DEF CommitFails, rowVars, offerVars, terms, moneyVars, Fail
  <2>2. \A d \in Call : d # c => call'[d] = call[d]
    BY <1>6 DEF CommitFails, Leave, Goto, Shape, Abandon
  <2>3. ~SettlesFor(c, x) /\ ~SettlesFor(c, x)'
    BY <1>6 DEF CommitFails, Leave, Goto, Idle, Shape, CallState, SettlesFor, Settling, At, Abandon
  <2>4. Limbo(c, x, t)' <=> Limbo(c, x, t)
    BY <1>6 DEF CommitFails, Leave, Goto, Idle, Shape, CallState, Limbo, At, Abandon
  <2>5. Even(x, t)
    BY <1>0, <2>1
  <2> QED
    BY <2>1, <2>2, <2>3, <2>4, <2>5, EvenStill
<1>7. ASSUME NEW c \in Call, MarkJobPaid(c) PROVE Even(x, t)'
  <2>1. /\ UNCHANGED <<status, hasPaid, unit, refunded, disturbed, quantity>>
        /\ jobPaid' = TRUE /\ PaysForJob(c) /\ call[c].pc = "commit"
    BY <1>7 DEF MarkJobPaid, rowVars, terms, At
  <2>2. call'[c].pc = "cascadeLoad" /\ \A d \in Call : d # c => call'[d] = call[d]
    BY <1>7 DEF MarkJobPaid, Goto, Shape, CallState
  <2>3. t # "employer" /\ call[c].side = "employer"
    BY <2>1 DEF Exempt, CoveredAtJobLevel, PaysForJob
  <2>4. charged'[<<x, t>>] = charged[<<x, t>>]
    BY <1>7, <2>3 DEF MarkJobPaid, Apply, Charge, Money
  <2>5. ~SettlesFor(c, x) /\ ~SettlesFor(c, x)' /\ ~Limbo(c, x, t) /\ ~Limbo(c, x, t)'
    BY <2>1, <2>2, <2>3 DEF SettlesFor, Settling, Limbo, At
  <2>6. Even(x, t)
    BY <1>0, <2>1, <2>3 DEF Exempt
  <2> QED
    BY <2>1, <2>2, <2>4, <2>5, <2>6, EvenStill
<1>8. ASSUME NEW c \in Call, LoadUnpaidAttempts(c) PROVE Even(x, t)'
  <2>1. /\ UNCHANGED <<status, hasPaid, unit, charged, refunded, quantity, jobPaid, disturbed>>
        /\ \A d \in Call : d # c => call'[d] = call[d]
        /\ call[c].pc = "cascadeLoad" /\ call'[c].pc = "cascade"
    BY <1>8, LoadReads
  <2>2. ~SettlesFor(c, x) /\ ~SettlesFor(c, x)' /\ ~Limbo(c, x, t) /\ ~Limbo(c, x, t)'
    BY <2>1 DEF SettlesFor, Settling, Limbo, At
  <2>3. Even(x, t)
    BY <1>0, <2>1
  <2> QED
    BY <2>1, <2>2, <2>3, EvenStill
<1>9. ASSUME NEW c \in Call, NEW b \in Application, Cascade(c, b) PROVE Even(x, t)'
  <2>1. /\ UNCHANGED <<unit, charged, refunded, disturbed, quantity, jobPaid>> /\ b \in call[c].todo
        /\ call[c].pc = "cascade" /\ call'[c].pc = "cascade"
        /\ \A d \in Call : d # c => call'[d] = call[d]
    BY <1>9 DEF Cascade, Shape, CallState, At, offerVars, terms, moneyVars
  <2>2. CoveredAtJobLevel(jobPaid) /\ PaysForJob(c)
    BY <2>1 DEF Carried, CallMarks
  <2>3. t = "worker" /\ ~Exempt(t)
    BY <2>1, <2>2 DEF Exempt, CoveredAtJobLevel, Side
  <2>4. Even(x, t) /\ ~SettlesFor(c, x) /\ ~SettlesFor(c, x)' /\ ~Limbo(c, x, t) /\ ~Limbo(c, x, t)'
    BY <1>0, <2>1, <2>3 DEF SettlesFor, Settling, Limbo, At
  <2>5. CASE x # b
    <3>1. status'[x] = status[x] /\ hasPaid'[x] = hasPaid[x]
      BY <1>9, <2>5 DEF Cascade, Shape
    <3> QED
      BY <2>1, <2>4, <3>1, EvenStill
  <2>6. CASE x = b
    <3>1. Paying(c) /\ x \in Holds(c) /\ Touches(c, x)
      BY <2>1, <2>2, <2>6 DEF Paying, Holds, Touches, At
    <3>2. \A d \in Call : ~SettlesFor(d, x)
      BY <2>1, <3>1, NoSettlement
    <3>3. \A d \in Call : ~SettlesFor(d, x)'
      BY <2>1, <2>4, <3>2 DEF SettlesFor, Settling, At
    <3>4. status[x] \notin Ended
      BY <2>1, <3>1 DEF Finished, FinishedOn
    <3>5. status'[x] \notin Ended /\ (t \in hasPaid'[x] <=> t \in hasPaid[x])
      BY <1>9, <2>3, <2>6 DEF Cascade, Shape, Ended
    <3>6. Kept(x, t)' <=> Kept(x, t)
      BY <2>3, <3>2, <3>3, <3>4, <3>5 DEF Kept
    <3> QED
      BY <2>1, <2>4, <3>6, EvenQuiet
  <2> QED
    BY <2>5, <2>6
<1>10. ASSUME NEW c \in Call, EndCascade(c) PROVE Even(x, t)'
  <2>1. /\ UNCHANGED <<status, hasPaid, unit, charged, refunded, quantity, jobPaid>>
        /\ disturbed \subseteq disturbed'
    BY <1>10 DEF EndCascade, rowVars, offerVars, terms, moneyVars, Fail
  <2>2. \A d \in Call : d # c => call'[d] = call[d]
    BY <1>10 DEF EndCascade, Leave, Goto, Shape
  <2>3. ~SettlesFor(c, x) /\ ~SettlesFor(c, x)'
    BY <1>10 DEF EndCascade, Leave, Goto, Idle, Shape, CallState, SettlesFor, Settling, At
  <2>4. Limbo(c, x, t)' <=> Limbo(c, x, t)
    BY <1>10 DEF EndCascade, Leave, Goto, Idle, Shape, CallState, Limbo, At
  <2>5. Even(x, t)
    BY <1>0, <2>1
  <2> QED
    BY <2>1, <2>2, <2>3, <2>4, <2>5, EvenStill
<1>11. ASSUME NEW c \in Call, MarkAccepted(c) PROVE Even(x, t)'
  <2>1. /\ UNCHANGED <<status, hasPaid, unit, charged, refunded, quantity, jobPaid>>
        /\ disturbed \subseteq disturbed'
    BY <1>11 DEF MarkAccepted, rowVars, offerVars, terms, moneyVars, Fail
  <2>2. \A d \in Call : d # c => call'[d] = call[d]
    BY <1>11 DEF MarkAccepted, Leave, Goto, Shape
  <2>3. ~SettlesFor(c, x) /\ ~SettlesFor(c, x)'
    BY <1>11 DEF MarkAccepted, Leave, Goto, Idle, Shape, CallState, SettlesFor, Settling, At
  <2>4. Limbo(c, x, t)' <=> Limbo(c, x, t)
    BY <1>11 DEF MarkAccepted, Leave, Goto, Idle, Shape, CallState, Limbo, At
  <2>5. Even(x, t)
    BY <1>0, <2>1
  <2> QED
    BY <2>1, <2>2, <2>3, <2>4, <2>5, EvenStill
<1>12. ASSUME NEW c \in Call, RejectLeftovers(c) PROVE Even(x, t)'
  <2>1. /\ UNCHANGED <<status, hasPaid, unit, charged, refunded, quantity, jobPaid>>
        /\ disturbed \subseteq disturbed'
    BY <1>12 DEF RejectLeftovers, rowVars, offerVars, terms, moneyVars, Fail
  <2>2. \A d \in Call : d # c => call'[d] = call[d]
    BY <1>12 DEF RejectLeftovers, Leave, Goto, Shape
  <2>3. ~SettlesFor(c, x) /\ ~SettlesFor(c, x)'
    BY <1>12 DEF RejectLeftovers, Leave, Goto, Idle, Shape, CallState, SettlesFor, Settling, At
  <2>4. Limbo(c, x, t)' <=> Limbo(c, x, t)
    BY <1>12 DEF RejectLeftovers, Leave, Goto, Idle, Shape, CallState, Limbo, At
  <2>5. Even(x, t)
    BY <1>0, <2>1
  <2> QED
    BY <2>1, <2>2, <2>3, <2>4, <2>5, EvenStill
<1>13. ASSUME NEW c \in Call, PayInterrupted(c) PROVE Even(x, t)'
  <2>1. /\ UNCHANGED <<status, hasPaid, unit, charged, refunded, quantity, jobPaid>>
        /\ disturbed \subseteq disturbed'
    BY <1>13 DEF PayInterrupted, rowVars, offerVars, terms, moneyVars, Fail
  <2>2. \A d \in Call : d # c => call'[d] = call[d]
    BY <1>13 DEF PayInterrupted, Leave, Goto, Shape, Abandon
  <2>3. x # call[c].app
    BY <1>13 DEF PayInterrupted, Fail, Holds, Paying, Settling, At
  <2>4. call'[c].app = call[c].app \/ call'[c].app = NoApplication
    BY <1>13 DEF PayInterrupted, Leave, Goto, Idle, Shape, CallState, Abandon
  <2>5. ~SettlesFor(c, x) /\ ~SettlesFor(c, x)' /\ ~Limbo(c, x, t) /\ ~Limbo(c, x, t)'
    BY <2>3, <2>4, UnlockAssumption DEF SettlesFor, Limbo
  <2>6. Even(x, t)
    BY <1>0, <2>1
  <2> QED
    BY <2>1, <2>2, <2>5, <2>6, EvenStill
<1>14. ASSUME NEW c \in Call, RefundPayer(c) PROVE Even(x, t)'
  <2>1. /\ UNCHANGED <<status, hasPaid, unit, charged, disturbed, quantity, jobPaid>> /\ call[c].pc = "payRefund"
        /\ call'[c] = Idle /\ \A d \in Call : d # c => call'[d] = call[d]
    BY <1>14 DEF RefundPayer, Leave, Shape, At, rowVars, offerVars, terms
  <2>2. Even(x, t) /\ ~Limbo(c, x, t)' /\ ~SettlesFor(c, x) /\ ~SettlesFor(c, x)'
    BY <1>0, <2>1 DEF Limbo, SettlesFor, Settling, At, Idle
  <2>3. CASE x = call[c].app /\ t = call[c].side
    <3>1. refunded'[<<x, t>>] = refunded[<<x, t>>] + 1 /\ charged[<<x, t>>] \in Nat /\ refunded[<<x, t>>] \in Nat
      BY <1>14, <2>3 DEF RefundPayer, Refund, Money
    <3>2. Limbo(c, x, t)
      BY <2>1, <2>3 DEF Limbo
    <3>3. Kept(x, t)' <=> Kept(x, t)
      BY <2>1, <2>2, KeptSame
    <3>4. /\ Once(Limbo(c, x, t)) = 1 /\ Once(Limbo(c, x, t)') = 0
          /\ Once(Kept(x, t)') = Once(Kept(x, t)) /\ Once(Kept(x, t)) \in {0, 1}
      BY <2>2, <3>2, <3>3 DEF Once
    <3>5. charged'[<<x, t>>] + refunded[<<x, t>>] + Once(Limbo(c, x, t)) + Once(Kept(x, t))
            = charged[<<x, t>>] + refunded'[<<x, t>>] + Once(Limbo(c, x, t)') + Once(Kept(x, t)')
      BY <2>1, <3>1, <3>4
    <3> QED
      BY <2>1, <2>2, <3>5, EvenKept
  <2>4. CASE x # call[c].app \/ t # call[c].side
    <3>1. refunded'[<<x, t>>] = refunded[<<x, t>>] /\ ~Limbo(c, x, t)
      BY <1>14, <2>4 DEF RefundPayer, Refund, Money, Limbo
    <3> QED
      BY <2>1, <2>2, <3>1, EvenStill
  <2> QED
    BY <2>3, <2>4
<1>15. ASSUME NEW c \in Call, RefundPayerFails(c) PROVE Even(x, t)'
  <2>1. /\ UNCHANGED <<status, hasPaid, unit, charged, refunded, quantity, jobPaid>>
        /\ disturbed \subseteq disturbed'
    BY <1>15 DEF RefundPayerFails, rowVars, offerVars, terms, moneyVars, Fail
  <2>2. \A d \in Call : d # c => call'[d] = call[d]
    BY <1>15 DEF RefundPayerFails, Leave, Goto, Shape
  <2>3. x # call[c].app
    BY <1>15 DEF RefundPayerFails, Fail, Holds, Paying, Settling, At
  <2>4. call'[c].app = call[c].app \/ call'[c].app = NoApplication
    BY <1>15 DEF RefundPayerFails, Leave, Goto, Idle, Shape, CallState
  <2>5. ~SettlesFor(c, x) /\ ~SettlesFor(c, x)' /\ ~Limbo(c, x, t) /\ ~Limbo(c, x, t)'
    BY <2>3, <2>4, UnlockAssumption DEF SettlesFor, Limbo
  <2>6. Even(x, t)
    BY <1>0, <2>1
  <2> QED
    BY <2>1, <2>2, <2>5, <2>6, EvenStill
<1>16. ASSUME NEW c \in Call, NEW a \in Application, ScanExpired(c, a) PROVE Even(x, t)'
  <2>1. UNCHANGED <<status, hasPaid, unit, quantity, jobPaid, charged, refunded>>
    BY <1>16 DEF ScanExpired, rowVars, offerVars, terms, moneyVars
  <2>2. status[a] \in Pending /\ Settled(c, a, TRUE, AbortRefunds(a)) /\ call[c].pc = "idle"
    BY <1>16, ScanSettles, ExpiryIsAbort DEF ScanExpired, At
  <2>3. ~Exempt(t) /\ Even(x, t)
    BY <1>0, <2>1, <2>2 DEF Settled, Exempt, CoveredAtJobLevel
  <2> QED
    BY <2>1, <2>2, <2>3, EvenStarts
<1>17. ASSUME NEW c \in Call, NEW a \in Application, Cancel(c, a) PROVE Even(x, t)'
  <2>1. /\ UNCHANGED <<status, hasPaid, unit, charged, refunded, quantity, jobPaid>>
        /\ disturbed \subseteq disturbed'
    BY <1>17 DEF Cancel, rowVars, offerVars, terms, moneyVars, Fail
  <2>2. \A d \in Call : d # c => call'[d] = call[d]
    BY <1>17 DEF Cancel, Leave, Goto, Shape
  <2>3. ~SettlesFor(c, x) /\ ~SettlesFor(c, x)'
    BY <1>17 DEF Cancel, Leave, Goto, Idle, Shape, CallState, SettlesFor, Settling, At
  <2>4. Limbo(c, x, t)' <=> Limbo(c, x, t)
    BY <1>17 DEF Cancel, Leave, Goto, Idle, Shape, CallState, Limbo, At
  <2>5. Even(x, t)
    BY <1>0, <2>1
  <2> QED
    BY <2>1, <2>2, <2>3, <2>4, <2>5, EvenStill
<1>18. ASSUME NEW c \in Call, CommitCancel(c) PROVE Even(x, t)'
  <2>1. /\ UNCHANGED <<status, hasPaid, unit, charged, refunded, quantity, jobPaid>>
        /\ disturbed \subseteq disturbed'
    BY <1>18 DEF CommitCancel, rowVars, offerVars, terms, moneyVars, Fail
  <2>2. \A d \in Call : d # c => call'[d] = call[d]
    BY <1>18 DEF CommitCancel, Leave, Goto, Shape
  <2>3. ~SettlesFor(c, x) /\ ~SettlesFor(c, x)'
    BY <1>18 DEF CommitCancel, Leave, Goto, Idle, Shape, CallState, SettlesFor, Settling, At
  <2>4. Limbo(c, x, t)' <=> Limbo(c, x, t)
    BY <1>18 DEF CommitCancel, Leave, Goto, Idle, Shape, CallState, Limbo, At
  <2>5. Even(x, t)
    BY <1>0, <2>1
  <2> QED
    BY <2>1, <2>2, <2>3, <2>4, <2>5, EvenStill
<1>19. ASSUME NEW c \in Call, AbortPendingUnlock(c) PROVE Even(x, t)'
  <2> DEFINE b == call[c].app
  <2>1. UNCHANGED <<status, hasPaid, unit, quantity, jobPaid, charged, refunded>>
    BY <1>19 DEF AbortPendingUnlock, rowVars, offerVars, terms, moneyVars
  <2>2. ~Exempt(t) /\ call[c].pc = "abort"
    BY <1>19, <2>1 DEF AbortPendingUnlock, At, Exempt, CoveredAtJobLevel
  <2>3. CASE Leave(c) /\ disturbed' = disturbed
    <3>1. call'[c] = Idle /\ \A d \in Call : d # c => call'[d] = call[d]
      BY <2>3 DEF Leave, Shape
    <3>2. ~SettlesFor(c, x) /\ ~SettlesFor(c, x)' /\ ~Limbo(c, x, t) /\ ~Limbo(c, x, t)'
      BY <2>2, <3>1 DEF SettlesFor, Settling, Limbo, At, Idle
    <3>3. Even(x, t)
      BY <1>0, <2>1, <2>3
    <3> QED
      BY <2>1, <3>1, <3>2, <3>3, EvenStill
  <2>4. CASE /\ b \in Application /\ status[b] \in Pending
             /\ Settled(c, b, FALSE, AbortRefunds(b))
    <3>1. Even(x, t)
      BY <1>0, <2>1, <2>4 DEF Settled
    <3> HIDE DEF b
    <3> QED
      BY <2>1, <2>2, <2>4, <3>1, EvenStarts
  <2> QED
    BY <1>19, <2>3, <2>4, AbortSettles
<1>20. ASSUME NEW c \in Call, RefundEmployerSide(c) PROVE Even(x, t)'
  <2>1. /\ call[c].pc = "settle" /\ call'[c].pc = "settle" /\ call'[c].app = call[c].app
        /\ call'[c].refunds = call[c].refunds \ {"employer"} /\ "employer" \in call[c].refunds
        /\ \A d \in Call : d # c => call'[d] = call[d]
    BY <1>20 DEF RefundEmployerSide, At, Shape, CallState
  <2>2. UNCHANGED <<status, hasPaid, quantity, jobPaid, charged, disturbed>>
    BY <1>20 DEF RefundEmployerSide, rowVars, offerVars, terms
  <2>3. /\ ~Limbo(c, x, t) /\ ~Limbo(c, x, t)' /\ Even(x, t)
        /\ SettlesFor(c, x) <=> SettlesFor(c, x)'
    BY <1>0, <2>1, <2>2 DEF Limbo, SettlesFor, Settling, At
  <2>4. CASE x # call[c].app
    <3>1. ~SettlesFor(c, x) /\ refunded'[<<x, t>>] = refunded[<<x, t>>] /\ unit'[x] = unit[x]
      BY <1>20, <2>4 DEF SettlesFor, RefundEmployerSide, Refund, Money, ReleaseUnit, UnitsKept, rowVars
    <3> QED
      BY <2>1, <2>2, <2>3, <3>1, EvenStill
  <2>5. CASE x = call[c].app
    <3>1. SettlesFor(c, x) /\ AloneOn(x, c)
      BY <2>1, <2>2, <2>5 DEF SettlesFor, Settling, At, Alone
    <3>2. \A d \in Call : SettlesFor(d, x) <=> d = c
      BY <3>1 DEF AloneOn, SettlesFor, Holds, Paying, Settling, At
    <3>3. \A d \in Call : SettlesFor(d, x)' <=> d = c
      BY <2>1, <2>3, <3>1, <3>2 DEF SettlesFor, Settling, At
    <3>4. CASE t = "employer" /\ unit[x] = "none"
      <4>1. Kept(x, t)
        BY <2>1, <3>1, <3>2, <3>4 DEF Kept, AloneOn, Ended, Pending
      <4>2. ~Kept(x, t)'
        BY <2>1, <3>3, <3>4 DEF Kept
      <4>3. refunded'[<<x, t>>] = refunded[<<x, t>>] + 1 /\ charged[<<x, t>>] \in Nat /\ refunded[<<x, t>>] \in Nat
        BY <1>20, <2>5, <3>4 DEF RefundEmployerSide, Refund, Money
      <4>4. Once(Kept(x, t)) = 1 /\ Once(Kept(x, t)') = 0 /\ Once(Limbo(c, x, t)) = 0 /\ Once(Limbo(c, x, t)') = 0
        BY <2>3, <4>1, <4>2 DEF Once
      <4>5. charged'[<<x, t>>] + refunded[<<x, t>>] + Once(Limbo(c, x, t)) + Once(Kept(x, t))
              = charged[<<x, t>>] + refunded'[<<x, t>>] + Once(Limbo(c, x, t)') + Once(Kept(x, t)')
        BY <2>2, <4>3, <4>4
      <4> QED
        BY <2>1, <2>3, <4>5, EvenKept
    <3>5. CASE t = "employer" /\ unit[x] # "none"
      <4>1. refunded'[<<x, t>>] = refunded[<<x, t>>] /\ unit'[x] # "none"
        BY <1>20, <2>5, <3>5 DEF RefundEmployerSide, ReleaseUnit, UnitsKept
      <4>2. ~Kept(x, t) /\ ~Kept(x, t)'
        BY <3>5, <4>1 DEF Kept
      <4> QED
        BY <2>1, <2>2, <2>3, <4>1, <4>2, EvenQuiet
    <3>6. CASE t # "employer"
      <4>1. refunded'[<<x, t>>] = refunded[<<x, t>>]
        BY <1>20, <3>6 DEF RefundEmployerSide, Refund, Money
      <4>2. Kept(x, t)' <=> Kept(x, t)
        BY <2>1, <2>2, <3>2, <3>3, <3>6 DEF Kept
      <4> QED
        BY <2>1, <2>2, <2>3, <4>1, <4>2, EvenQuiet
    <3> QED
      BY <3>4, <3>5, <3>6
  <2> QED
    BY <2>4, <2>5
<1>21. ASSUME NEW c \in Call, RefundWorkerSide(c) PROVE Even(x, t)'
  <2>1. /\ call[c].pc = "settle" /\ call'[c].pc = "settle" /\ call'[c].app = call[c].app
        /\ call'[c].refunds = {} /\ call[c].refunds = {"worker"}
        /\ \A d \in Call : d # c => call'[d] = call[d]
    BY <1>21 DEF RefundWorkerSide, At, Shape, CallState
  <2>2. UNCHANGED <<status, hasPaid, quantity, jobPaid, charged, disturbed>>
    BY <1>21 DEF RefundWorkerSide, rowVars, offerVars, terms
  <2>3. /\ ~Limbo(c, x, t) /\ ~Limbo(c, x, t)' /\ Even(x, t)
        /\ SettlesFor(c, x) <=> SettlesFor(c, x)'
    BY <1>0, <2>1, <2>2 DEF Limbo, SettlesFor, Settling, At
  <2>4. CASE x # call[c].app
    <3>1. ~SettlesFor(c, x) /\ refunded'[<<x, t>>] = refunded[<<x, t>>] /\ unit'[x] = unit[x]
      BY <1>21, <2>4 DEF SettlesFor, RefundWorkerSide, Refund, Money, ReleaseUnit, UnitsKept, rowVars
    <3> QED
      BY <2>1, <2>2, <2>3, <3>1, EvenStill
  <2>5. CASE x = call[c].app
    <3>1. SettlesFor(c, x) /\ AloneOn(x, c)
      BY <2>1, <2>2, <2>5 DEF SettlesFor, Settling, At, Alone
    <3>2. \A d \in Call : SettlesFor(d, x) <=> d = c
      BY <3>1 DEF AloneOn, SettlesFor, Holds, Paying, Settling, At
    <3>3. \A d \in Call : SettlesFor(d, x)' <=> d = c
      BY <2>1, <2>3, <3>1, <3>2 DEF SettlesFor, Settling, At
    <3>4. CASE t = "worker"
      <4>1. Kept(x, t)
        BY <2>1, <3>1, <3>2, <3>4 DEF Kept, AloneOn, Ended, Pending
      <4>2. ~Kept(x, t)'
        BY <2>1, <3>3, <3>4 DEF Kept
      <4>3. refunded'[<<x, t>>] = refunded[<<x, t>>] + 1 /\ charged[<<x, t>>] \in Nat /\ refunded[<<x, t>>] \in Nat
        BY <1>21, <2>5, <3>4 DEF RefundWorkerSide, Refund, Money
      <4>4. Once(Kept(x, t)) = 1 /\ Once(Kept(x, t)') = 0 /\ Once(Limbo(c, x, t)) = 0 /\ Once(Limbo(c, x, t)') = 0
        BY <2>3, <4>1, <4>2 DEF Once
      <4>5. charged'[<<x, t>>] + refunded[<<x, t>>] + Once(Limbo(c, x, t)) + Once(Kept(x, t))
              = charged[<<x, t>>] + refunded'[<<x, t>>] + Once(Limbo(c, x, t)') + Once(Kept(x, t)')
        BY <2>2, <4>3, <4>4
      <4> QED
        BY <2>1, <2>3, <4>5, EvenKept
    <3>5. CASE t # "worker"
      <4>1. refunded'[<<x, t>>] = refunded[<<x, t>>]
        BY <1>21, <3>5 DEF RefundWorkerSide, Refund, Money
      <4>2. ~Kept(x, t) /\ ~Kept(x, t)'
        BY <2>1, <3>2, <3>3, <3>5 DEF Kept
      <4> QED
        BY <2>1, <2>2, <2>3, <4>1, <4>2, EvenQuiet
    <3> QED
      BY <3>4, <3>5
  <2> QED
    BY <2>4, <2>5
<1>22. ASSUME NEW c \in Call, CloseAttempt(c) PROVE Even(x, t)'
  <2>1. /\ call[c].pc = "settle" /\ call[c].refunds = {} /\ call'[c].pc \in {"sync", "idle"}
        /\ \A d \in Call : d # c => call'[d] = call[d]
    BY <1>22 DEF CloseAttempt, Goto, Leave, Idle, At, Shape, CallState
  <2>2. UNCHANGED <<hasPaid, quantity, jobPaid, charged, refunded, disturbed>>
    BY <1>22 DEF CloseAttempt, offerVars, terms, moneyVars
  <2>3. ~SettlesFor(c, x)' /\ ~Limbo(c, x, t) /\ ~Limbo(c, x, t)' /\ Even(x, t)
    BY <1>0, <2>1, <2>2 DEF SettlesFor, Settling, Limbo, At
  <2>4. CASE x # call[c].app
    <3>1. status'[x] = status[x] /\ unit'[x] = unit[x] /\ ~SettlesFor(c, x)
      BY <1>22, <2>4 DEF CloseAttempt, ReleaseUnit, UnitsKept, Shape, SettlesFor
    <3> QED
      BY <2>1, <2>2, <2>3, <3>1, EvenStill
  <2>5. CASE x = call[c].app
    <3>1. ~Kept(x, t)
      BY <2>1, <2>5 DEF Kept, SettlesFor, Settling, At
    <3>2. status'[x] \in Ended
      BY <1>22, <2>5 DEF CloseAttempt, Shape, CallState, Ended
    <3>3. ~Kept(x, t)'
      BY <3>2 DEF Kept
    <3> QED
      BY <2>1, <2>2, <2>3, <3>1, <3>3, EvenQuiet
  <2> QED
    BY <2>4, <2>5
<1>23. ASSUME NEW c \in Call, SyncWaitingPayment(c) PROVE Even(x, t)'
  <2>1. /\ UNCHANGED <<status, hasPaid, unit, charged, refunded, quantity, jobPaid>>
        /\ disturbed \subseteq disturbed'
    BY <1>23 DEF SyncWaitingPayment, rowVars, offerVars, terms, moneyVars, Fail
  <2>2. \A d \in Call : d # c => call'[d] = call[d]
    BY <1>23 DEF SyncWaitingPayment, Leave, Goto, Shape
  <2>3. ~SettlesFor(c, x) /\ ~SettlesFor(c, x)'
    BY <1>23 DEF SyncWaitingPayment, Leave, Goto, Idle, Shape, CallState, SettlesFor, Settling, At
  <2>4. Limbo(c, x, t)' <=> Limbo(c, x, t)
    BY <1>23 DEF SyncWaitingPayment, Leave, Goto, Idle, Shape, CallState, Limbo, At
  <2>5. Even(x, t)
    BY <1>0, <2>1
  <2> QED
    BY <2>1, <2>2, <2>3, <2>4, <2>5, EvenStill
<1>24. ASSUME NEW c \in Call, SettleInterrupted(c) PROVE Even(x, t)'
  <2>1. /\ UNCHANGED <<status, hasPaid, unit, charged, refunded, quantity, jobPaid>>
        /\ disturbed \subseteq disturbed' /\ Holds(c) \subseteq disturbed'
        /\ call[c].pc \in {"cancel", "cancelUnpaid", "abort", "settle", "sync"}
    BY <1>24 DEF SettleInterrupted, rowVars, offerVars, terms, moneyVars, Fail
  <2>2. call'[c] = Idle /\ \A d \in Call : d # c => call'[d] = call[d]
    BY <1>24 DEF SettleInterrupted, Leave, Shape
  <2>3. ~SettlesFor(c, x)
    BY <2>1 DEF SettlesFor, Holds, Paying, Settling, At
  <2>4. ~SettlesFor(c, x)' /\ ~Limbo(c, x, t) /\ ~Limbo(c, x, t)'
    BY <2>1, <2>2 DEF SettlesFor, Settling, Limbo, At, Idle
  <2>5. Even(x, t)
    BY <1>0, <2>1
  <2> QED
    BY <2>1, <2>2, <2>3, <2>4, <2>5, EvenStill
<1>25. ASSUME NEW a \in Application, Accept(a) PROVE Even(x, t)'
  <2>1. /\ UNCHANGED <<call, disturbed, quantity, jobPaid, charged, refunded>>
        /\ app[a] = "PENDING" /\ InitiateUnlock(a)
    BY <1>25 DEF Accept, terms, moneyVars
  <2>2. Even(x, t) /\ ~Exempt(t)
    BY <1>0, <2>1 DEF Exempt, CoveredAtJobLevel
  <2>3. CASE x # a
    <3>1. status'[x] = status[x] /\ hasPaid'[x] = hasPaid[x] /\ unit'[x] = unit[x]
      BY <2>1, <2>3 DEF InitiateUnlock, Shape, UnitsKept
    <3> QED
      BY <2>1, <2>2, <3>1, EvenAside DEF Kept, SettlesFor, Settling, At
  <2>4. CASE x = a
    <3>1. hasPaid[x] = {}
      BY <2>1, <2>4 DEF Unaccepted
    <3>2. t \in hasPaid'[x] => t = "employer" /\ unit'[x] = "used"
      BY <2>1, <2>2, <2>4 DEF InitiateUnlock, Shape, UnitsKept, Exempt
    <3>3. ~Kept(x, t) /\ ~Kept(x, t)'
      BY <3>1, <3>2 DEF Kept
    <3> QED
      BY <2>1, <2>2, <3>3, EvenAside
  <2> QED
    BY <2>3, <2>4
<1>26. ASSUME NEW a \in Application, CloseApplication(a) PROVE Even(x, t)'
  <2>1. UNCHANGED <<call, disturbed, quantity, jobPaid, charged, refunded, status, hasPaid, unit>>
    BY <1>26 DEF CloseApplication, rowVars, offerVars, terms, moneyVars
  <2>2. Even(x, t)
    BY <1>0, <2>1 DEF Exempt, CoveredAtJobLevel
  <2> QED
    BY <2>1, <2>2, EvenAside DEF Kept, SettlesFor, Settling, At
<1>27. ASSUME NEW a \in Application, Expire(a) PROVE Even(x, t)'
  <2>1. UNCHANGED <<call, disturbed, quantity, jobPaid, charged, refunded, status, hasPaid, unit>>
    BY <1>27 DEF Expire, rowVars, offerVars, terms, moneyVars
  <2>2. Even(x, t)
    BY <1>0, <2>1 DEF Exempt, CoveredAtJobLevel
  <2> QED
    BY <2>1, <2>2, EvenAside DEF Kept, SettlesFor, Settling, At
<1>28. ASSUME UNCHANGED vars PROVE Even(x, t)'
  <2>1. UNCHANGED <<call, disturbed, quantity, jobPaid, charged, refunded, status, hasPaid, unit>>
    BY <1>28 DEF vars, rowVars, offerVars, terms, moneyVars
  <2>2. Even(x, t)
    BY <1>0, <2>1 DEF Exempt, CoveredAtJobLevel
  <2> QED
    BY <2>1, <2>2, EvenAside DEF Kept, SettlesFor, Settling, At
<1> QED
  BY <1>1, <1>2, <1>3, <1>4, <1>5, <1>6, <1>7, <1>8, <1>9, <1>10, <1>11,
     <1>12, <1>13, <1>14, <1>15, <1>16, <1>17, <1>18, <1>19, <1>20, <1>21,
     <1>22, <1>23, <1>24, <1>25, <1>26, <1>27, <1>28
     DEF Next, PayStep, SettleStep

\* The inductive invariant behind the two theorems below.
Funds ==
  /\ Shape /\ Unaccepted /\ Carried /\ UnitsKept /\ Money /\ ReleasedWhenPaid
  /\ PlanMarks /\ CallMarks /\ Alone /\ Finished /\ Balanced

\* It holds at first and every step keeps it.
THEOREM FundsAreKept == Spec => []Funds
<1>1. ASSUME Init PROVE Funds
  <2>1. Shape
    BY <1>1, IdleIsCall DEF Init, Shape, ApplicationStatus, Status
  <2>2. \A c \in Call : call[c].pc = "idle" /\ call[c].todo = {} /\ call[c].unlocks = {}
    BY <1>1 DEF Init, Idle
  <2>3. Unaccepted /\ Carried /\ UnitsKept /\ ReleasedWhenPaid
    BY <1>1, <2>2, UnlockAssumption
       DEF Init, Unaccepted, Carried, UnitsKept, ReleasedWhenPaid, At, Paying, Settling
  <2>4. Money
    BY <1>1, <2>2 DEF Init, Money
  <2>5. PlanMarks /\ CallMarks
    BY <1>1, <2>2 DEF Init, PlanMarks, CallMarks, Paying, Settling, At, Side
  <2>6. Alone /\ Finished
    BY <1>1, <2>2 DEF Init, Alone, Finished, FinishedOn, SettlesFor, Settling, At, Ended
  <2>7. ASSUME NEW a \in Application, NEW s \in Side PROVE Even(a, s)
    <3>1. InLimbo(a, s) = {}
      BY <2>2 DEF InLimbo, Limbo
    <3>2. Cardinality(InLimbo(a, s)) = 0
      BY <3>1, FS_EmptySet
    <3>3. charged[<<a, s>>] = 0 /\ refunded[<<a, s>>] = 0
      BY <1>1 DEF Init
    <3>4. ~Kept(a, s)
      BY <1>1 DEF Init, Kept
    <3>5. Once(Kept(a, s)) = 0
      BY <3>4 DEF Once
    <3> QED
      BY <3>2, <3>3, <3>5 DEF Even
  <2> QED
    BY <2>1, <2>3, <2>4, <2>5, <2>6, <2>7 DEF Funds, Balanced
<1>2. Funds /\ [Next]_vars => Funds'
  <2> SUFFICES ASSUME Funds, [Next]_vars PROVE Funds'
    OBVIOUS
  <2>1. /\ Shape /\ Unaccepted /\ Carried /\ UnitsKept /\ Money /\ ReleasedWhenPaid
        /\ PlanMarks /\ CallMarks /\ Alone /\ Finished /\ Balanced
    BY DEF Funds
  <2>2. Shape' /\ Unaccepted' /\ UnitsKept' /\ Money' /\ ReleasedWhenPaid'
    BY <2>1, ShapeStep, UnacceptedStep, UnitsStep, MoneyStep, ReleasedStep
  <2>3. Carried' /\ PlanMarks' /\ CallMarks'
    BY <2>1, <2>2, CarriedStep, PlanMarksStep, CallMarksStep
  <2>4. Alone' /\ Finished'
    BY <2>1, <2>2, AloneStep, FinishedStep
  <2>5. Balanced'
    BY <2>1, <2>2, BalancedStep
  <2> QED
    BY <2>2, <2>3, <2>4, <2>5 DEF Funds
<1> QED
  BY <1>1, <1>2, PTL DEF Spec

\* Nothing is in limbo, and nobody settles, for an attempt at rest.
LEMMA RestIsClear ==
  ASSUME Money, NEW a \in Application, AtRest(a), NEW s \in Side, Even(a, s)
  PROVE  /\ \A c \in Call : ~SettlesFor(c, a)
         /\ Net(a, s) = Once(Kept(a, s))
<1>1. \A c \in Call : ~SettlesFor(c, a) /\ ~Limbo(c, a, s)
  BY DEF AtRest, WorksOn, Limbo, SettlesFor, Settling, At
<1>2. Cardinality(InLimbo(a, s)) = 0
  <2>1. InLimbo(a, s) = {}
    BY <1>1 DEF InLimbo
  <2> QED
    BY <2>1, FS_EmptySet
<1>3. Once(Kept(a, s)) \in {0, 1}
  BY DEF Once
<1>4. charged[<<a, s>>] - refunded[<<a, s>>] = Once(Kept(a, s)) + 0
  BY <1>2 DEF Even
<1>5. charged[<<a, s>>] - refunded[<<a, s>>] = Once(Kept(a, s))
  BY <1>3, <1>4
<1>6. Net(a, s) = Once(Kept(a, s))
  BY <1>5 DEF Net
<1> QED
  BY <1>1, <1>6

\* "Vous ne perdez pas votre argent": processExpiredAttempts and
\* abortPendingUnlockByApplication give back all that was paid for an attempt, and its
\* plan unit, whatever payments, cascades and settlements interleave, unless a settlement
\* overlapped another call on it or a call failed half-way.
THEOREM SettlementsGiveBack == Spec => []SettledGivesBack
<1>1. Funds => SettledGivesBack
  <2> SUFFICES ASSUME Funds, NEW a \in Application \ disturbed, status[a] \in Ended, AtRest(a)
               PROVE  /\ Net(a, "worker") = 0
                      /\ \/ Net(a, "employer") = 0 /\ unit[a] # "used"
                         \/ CoveredAtJobLevel(jobPaid)
    BY DEF SettledGivesBack, Ended
  <2>1. Money /\ Balanced /\ FinishedOn(a)
    BY DEF Funds, Finished
  <2>2. ASSUME NEW s \in Side, ~Exempt(s) PROVE Net(a, s) = 0
    <3>1. Even(a, s)
      BY <2>1, <2>2 DEF Balanced
    <3>2. ~Kept(a, s)
      BY DEF Kept
    <3>3. Once(Kept(a, s)) = 0
      BY <3>2 DEF Once
    <3> QED
      BY <2>1, <3>1, <3>3, RestIsClear
  <2>3. Net(a, "worker") = 0
    BY <2>2 DEF Exempt, Side
  <2>4. ~CoveredAtJobLevel(jobPaid) => Net(a, "employer") = 0 /\ unit[a] # "used"
    BY <2>1, <2>2 DEF Exempt, Side, FinishedOn
  <2> QED
    BY <2>3, <2>4
<1> QED
  BY <1>1, FundsAreKept, PTL

\* The status a payment writes comes from what it read (commitStandardPerAttemptPayUnlock,
\* _handleMultiPersonEmployerPay), yet with the same exemption an unlocked attempt was
\* paid by its worker, and by its employer, the plan or the payment for the job.
THEOREM UnlocksAreFunded == Spec => []UnlockedIsFunded
<1>1. Funds => UnlockedIsFunded
  <2> SUFFICES ASSUME Funds, NEW a \in Application \ disturbed, status[a] = "UNLOCKED", AtRest(a)
               PROVE  /\ Net(a, "worker") = 1
                      /\ Net(a, "employer") = 1 \/ unit[a] = "used" \/ CoveredAtJobLevel(jobPaid)
    BY DEF UnlockedIsFunded
  <2>1. Money /\ Balanced /\ FinishedOn(a) /\ hasPaid[a] = Side /\ status[a] \notin Ended
    BY DEF Funds, Finished, ReleasedWhenPaid, Ended
  <2>2. ASSUME NEW s \in Side, ~Exempt(s), s = "employer" => unit[a] = "none" PROVE Net(a, s) = 1
    <3>1. Even(a, s)
      BY <2>1, <2>2 DEF Balanced
    <3>2. (\A c \in Call : ~SettlesFor(c, a)) /\ Net(a, s) = Once(Kept(a, s))
      BY <2>1, <3>1, RestIsClear
    <3>3. Kept(a, s)
      BY <2>1, <2>2, <3>2 DEF Kept
    <3> QED
      BY <3>2, <3>3 DEF Once
  <2>3. Net(a, "worker") = 1
    BY <2>2 DEF Exempt, Side
  <2>4. unit[a] # "released"
    <3>1. "worker" \in Side /\ Even(a, "worker")
      BY <2>1 DEF Balanced, Exempt, Side
    <3>2. \A c \in Call : ~SettlesFor(c, a)
      BY <2>1, <3>1, RestIsClear
    <3> QED
      BY <2>1, <3>2 DEF FinishedOn
  <2>5. unit[a] \in {"none", "used", "released"}
    BY DEF Funds, UnitsKept
  <2>6. unit[a] = "none" /\ ~CoveredAtJobLevel(jobPaid) => Net(a, "employer") = 1
    BY <2>2 DEF Exempt, Side
  <2> QED
    BY <2>3, <2>4, <2>5, <2>6
<1> QED
  BY <1>1, FundsAreKept, PTL

----------------------------------------------------------------------------
\* The bounds of what is counted.
Counts ==
  /\ due \in SUBSET Application /\ disturbed \in SUBSET Application
  /\ started \in 0 .. MaxCalls /\ failures \in 0 .. MaxFailures
  /\ unitsLeft >= 0

\* Every step keeps them.
LEMMA CountsStep ==
  ASSUME Shape, UnitsKept, Carried, Counts, [Next]_vars
  PROVE  Counts'
<1> USE UnlockAssumption DEF Counts, rowVars, terms, offerVars, moneyVars, bounds
<1>1. ASSUME NEW c \in Call, NEW a \in Application, NEW s \in Side, NEW wallet \in BOOLEAN, PayUnlock(c, a, s, wallet) PROVE Counts'
  <2>1. disturbed' \in SUBSET Application
    BY <1>1 DEF PayUnlock
  <2> QED
    BY <1>1, <2>1 DEF PayUnlock, Start
<1>2. ASSUME NEW c \in Call, Debit(c) PROVE Counts'
  BY <1>2 DEF Debit
<1>3. ASSUME NEW c \in Call, RecordWalletUnlockPayment(c) PROVE Counts'
  BY <1>3 DEF RecordWalletUnlockPayment
<1>4. ASSUME NEW c \in Call, RecordFails(c) PROVE Counts'
  <2>1. call[c].app \in Application
    BY <1>4 DEF RecordFails, Carried, At
  <2>2. Holds(c) \in SUBSET Application
    BY <2>1 DEF Holds
  <2> QED
    BY <1>4, <2>1, <2>2 DEF RecordFails, Fail
<1>5. ASSUME NEW c \in Call, Commit(c) PROVE Counts'
  BY <1>5 DEF Commit
<1>6. ASSUME NEW c \in Call, CommitFails(c) PROVE Counts'
  BY <1>6 DEF CommitFails, Fail
<1>7. ASSUME NEW c \in Call, MarkJobPaid(c) PROVE Counts'
  BY <1>7 DEF MarkJobPaid
<1>8. ASSUME NEW c \in Call, LoadUnpaidAttempts(c) PROVE Counts'
  BY <1>8 DEF LoadUnpaidAttempts
<1>9. ASSUME NEW c \in Call, NEW b \in Application, Cascade(c, b) PROVE Counts'
  BY <1>9 DEF Cascade
<1>10. ASSUME NEW c \in Call, EndCascade(c) PROVE Counts'
  BY <1>10 DEF EndCascade
<1>11. ASSUME NEW c \in Call, MarkAccepted(c) PROVE Counts'
  BY <1>11 DEF MarkAccepted
<1>12. ASSUME NEW c \in Call, RejectLeftovers(c) PROVE Counts'
  BY <1>12 DEF RejectLeftovers
<1>13. ASSUME NEW c \in Call, PayInterrupted(c) PROVE Counts'
  <2>1. call[c].app \in Application
    BY <1>13 DEF PayInterrupted, Carried, At
  <2>2. Holds(c) \in SUBSET Application
    BY <2>1 DEF Holds
  <2> QED
    BY <1>13, <2>1, <2>2 DEF PayInterrupted, Fail
<1>14. ASSUME NEW c \in Call, RefundPayer(c) PROVE Counts'
  BY <1>14 DEF RefundPayer
<1>15. ASSUME NEW c \in Call, RefundPayerFails(c) PROVE Counts'
  <2>1. call[c].app \in Application
    BY <1>15 DEF RefundPayerFails, Carried, At
  <2>2. Holds(c) \in SUBSET Application
    BY <2>1 DEF Holds
  <2> QED
    BY <1>15, <2>1, <2>2 DEF RefundPayerFails, Fail
<1>16. ASSUME NEW c \in Call, NEW a \in Application, ScanExpired(c, a) PROVE Counts'
  <2>1. disturbed' \subseteq disturbed \cup {a}
    BY <1>16 DEF ScanExpired, Settle
  <2> QED
    BY <1>16, <2>1 DEF ScanExpired, Start
<1>17. ASSUME NEW c \in Call, NEW a \in Application, Cancel(c, a) PROVE Counts'
  BY <1>17 DEF Cancel, Start
<1>18. ASSUME NEW c \in Call, CommitCancel(c) PROVE Counts'
  BY <1>18 DEF CommitCancel
<1>19. ASSUME NEW c \in Call, AbortPendingUnlock(c) PROVE Counts'
  <2>1. call[c].app \in Application
    BY <1>19 DEF AbortPendingUnlock, Carried, At
  <2>2. disturbed' \subseteq disturbed \cup {call[c].app}
    BY <1>19 DEF AbortPendingUnlock, Settle
  <2> QED
    BY <1>19, <2>1, <2>2 DEF AbortPendingUnlock
<1>20. ASSUME NEW c \in Call, RefundEmployerSide(c) PROVE Counts'
  BY <1>20 DEF RefundEmployerSide, ReleaseUnit, UnitsKept
<1>21. ASSUME NEW c \in Call, RefundWorkerSide(c) PROVE Counts'
  BY <1>21 DEF RefundWorkerSide
<1>22. ASSUME NEW c \in Call, CloseAttempt(c) PROVE Counts'
  BY <1>22 DEF CloseAttempt, ReleaseUnit, UnitsKept
<1>23. ASSUME NEW c \in Call, SyncWaitingPayment(c) PROVE Counts'
  BY <1>23 DEF SyncWaitingPayment
<1>24. ASSUME NEW c \in Call, SettleInterrupted(c) PROVE Counts'
  <2>1. call[c].app \in Application
    BY <1>24 DEF SettleInterrupted, Carried, At
  <2>2. Holds(c) \in SUBSET Application
    BY <2>1 DEF Holds
  <2> QED
    BY <1>24, <2>1, <2>2 DEF SettleInterrupted, Fail
<1>25. ASSUME NEW a \in Application, Accept(a) PROVE Counts'
  BY <1>25 DEF Accept, InitiateUnlock, UnitsKept
<1>26. ASSUME NEW a \in Application, CloseApplication(a) PROVE Counts'
  BY <1>26 DEF CloseApplication
<1>27. ASSUME NEW a \in Application, Expire(a) PROVE Counts'
  BY <1>27 DEF Expire
<1>28. ASSUME UNCHANGED vars PROVE Counts'
  BY <1>28 DEF vars
<1> QED
  BY <1>1, <1>2, <1>3, <1>4, <1>5, <1>6, <1>7, <1>8, <1>9, <1>10, <1>11,
     <1>12, <1>13, <1>14, <1>15, <1>16, <1>17, <1>18, <1>19, <1>20, <1>21,
     <1>22, <1>23, <1>24, <1>25, <1>26, <1>27, <1>28
     DEF Next, PayStep, SettleStep

\* The rows, the money and the calls keep their types; a plan's units stay within what the
\* plan had (consume and releaseUnlock).
THEOREM TypesAreKept == Spec => []TypeOK
<1> DEFINE I == Shape /\ Unaccepted /\ Carried /\ UnitsKept /\ PlanUnitsCounted /\ Money /\ Counts
<1>1. ASSUME Init PROVE I
  <2>1. Shape
    BY <1>1, IdleIsCall DEF Init, Shape, ApplicationStatus, Status
  <2>2. \A c \in Call : call[c].pc = "idle" /\ call[c].todo = {} /\ call[c].unlocks = {}
    BY <1>1 DEF Init, Idle
  <2>3. Unaccepted /\ Carried /\ UnitsKept
    BY <1>1, <2>2, UnlockAssumption DEF Init, Unaccepted, Carried, UnitsKept, At, Paying, Settling
  <2>4. Money
    BY <1>1, <2>2 DEF Init, Money
  <2>5. PlanUnitsCounted
    <3>1. {a \in Application : unit[a] = "used"} = {}
      BY <1>1 DEF Init
    <3>2. Cardinality({a \in Application : unit[a] = "used"}) = 0
      BY <3>1, FS_EmptySet
    <3> QED
      BY <1>1, <3>2, UnlockAssumption DEF Init, PlanUnitsCounted
  <2>6. Counts
    BY <1>1, UnlockAssumption DEF Init, Counts
  <2> QED
    BY <2>1, <2>3, <2>4, <2>5, <2>6
<1>2. I /\ [Next]_vars => I'
  BY ShapeStep, UnacceptedStep, CarriedStep, UnitsStep, CountedStep, MoneyStep, CountsStep
<1>3. I => TypeOK
  <2> SUFFICES ASSUME I PROVE TypeOK
    OBVIOUS
  <2>1. IsFiniteSet(Used)
    BY UnlockAssumption, FS_Subset DEF Used
  <2>2. Cardinality(Used) \in Nat /\ unitsLeft = planUnits - Cardinality(Used)
    BY <2>1, FS_CardinalityType DEF PlanUnitsCounted, Used
  <2>3. planUnits \in Nat /\ unitsLeft \in Int /\ unitsLeft >= 0
    BY UnlockAssumption DEF Shape, UnitsKept, Counts
  <2>4. unitsLeft \in 0 .. planUnits
    BY <2>2, <2>3
  <2> QED
    BY <2>4 DEF TypeOK, Shape, UnitsKept, Money, Counts
<1> QED
  BY <1>1, <1>2, <1>3, PTL DEF Spec
==========================================================================
