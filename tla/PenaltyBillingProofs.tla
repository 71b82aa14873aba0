---------------------- MODULE PenaltyBillingProofs ----------------------
(* Proofs about PenaltyBilling, for any penalties, amounts, balances,      *)
(* thresholds, numbers of concurrent calls and interruptions.              *)
EXTENDS PenaltyBilling, FiniteSetTheorems, WellFoundedInduction, TLAPS

\* The part of the type invariant the proofs below need.
Rows ==
  /\ row \in [Penalty -> {"ABSENT", "UNPAID", "PAID"}]
  /\ charged \in [Penalty -> Nat] /\ claims \in [Penalty -> Nat]
  /\ call \in [Caller -> CallState]

\* Every count a call carries is a natural number.
LEMMA CountIsNat == ASSUME NEW S \in SUBSET Penalty PROVE Cardinality(S) \in Nat
  BY PenaltyAssumption, FS_Subset, FS_CardinalityType

\* A call's own record after it moves on, the others untouched.
LEMMA GotoKeepsShape ==
  ASSUME Rows, NEW c \in Caller, NEW label \in Label,
         NEW S \in SUBSET Penalty, NEW n \in Nat, Goto(c, label, S, n)
  PROVE  call' \in [Caller -> CallState]
  BY DEF Rows, Goto, Proceed, CallState

\* The same for a link without ids.
LEMMA ProceedKeepsShape ==
  ASSUME Rows, NEW c \in Caller, NEW label \in Label, NEW S \in SUBSET Penalty,
         NEW n \in Nat, NEW B \in SUBSET Penalty, Proceed(c, label, S, n, B)
  PROVE  call' \in [Caller -> CallState]
  BY DEF Rows, Proceed, CallState

\* The same for a call that returns.
LEMMA ReturnKeepsShape ==
  ASSUME Rows, NEW c \in Caller, Return(c)
  PROVE  call' \in [Caller -> CallState]
  BY DEF Rows, Return, CallState, Idle, Label

\* What is owed is a set of penalties.
LEMMA OwedIsSubset == OwedSet \in SUBSET Penalty
  BY DEF OwedSet

\* Every step keeps rows and calls in their types.
LEMMA RowsStep ==
  ASSUME Rows, [Next]_vars
  PROVE  Rows'
<1>1. ASSUME NEW c \in Caller, NEW p \in Penalty, PayPenalty(c, p) PROVE Rows'
  <2>1. row' \in [Penalty -> {"ABSENT", "UNPAID", "PAID"}] 
          /\ charged' \in [Penalty -> Nat] /\ claims' \in [Penalty -> Nat]
    BY <1>1 DEF Rows, PayPenalty, moneyVars
  <2>2. Cardinality(OwedSet \ {p}) \in Nat
    BY CountIsNat, OwedIsSubset
  <2>3. call' \in [Caller -> CallState]
    <3>1. {p} \in SUBSET Penalty /\ "paying" \in Label
      BY DEF Label
    <3> QED
      BY <1>1, <2>2, <3>1, GotoKeepsShape DEF PayPenalty
  <2> QED
    BY <2>1, <2>3 DEF Rows
<1>2. ASSUME NEW c \in Caller, CommitPayPenalty(c) PROVE Rows'
  <2>1. row' \in [Penalty -> {"ABSENT", "UNPAID", "PAID"}] 
          /\ charged' \in [Penalty -> Nat] /\ claims' \in [Penalty -> Nat]
    BY <1>2 DEF Rows, CommitPayPenalty, MarkPaid, Claim, Charge, Plus, moneyVars
  <2>2. 0 \in Nat
    OBVIOUS
  <2>3. call' \in [Caller -> CallState]
    BY <1>2, <2>2, GotoKeepsShape, ReturnKeepsShape, OwedIsSubset
       DEF CommitPayPenalty, Rows, CallState, Label
  <2> QED
    BY <2>1, <2>3 DEF Rows
<1>3. ASSUME NEW c \in Caller, ListUnpaid(c) PROVE Rows'
  <2>1. row' \in [Penalty -> {"ABSENT", "UNPAID", "PAID"}] 
          /\ charged' \in [Penalty -> Nat] /\ claims' \in [Penalty -> Nat]
    BY <1>3 DEF Rows, ListUnpaid, moneyVars
  <2>2. 0 \in Nat
    OBVIOUS
  <2>3. call' \in [Caller -> CallState]
    BY <1>3, <2>2, GotoKeepsShape, ReturnKeepsShape, OwedIsSubset
       DEF ListUnpaid, Rows, CallState, Label
  <2> QED
    BY <2>1, <2>3 DEF Rows
<1>4. ASSUME NEW c \in Caller, DebitAll(c) PROVE Rows'
  <2>1. row' \in [Penalty -> {"ABSENT", "UNPAID", "PAID"}] 
          /\ charged' \in [Penalty -> Nat] /\ claims' \in [Penalty -> Nat]
    BY <1>4 DEF Rows, DebitAll, Charge, Plus, moneyVars
  <2>2. 0 \in Nat
    OBVIOUS
  <2>3. call' \in [Caller -> CallState]
    BY <1>4, <2>2, GotoKeepsShape, ReturnKeepsShape, OwedIsSubset
       DEF DebitAll, Rows, CallState, Label
  <2> QED
    BY <2>1, <2>3 DEF Rows
<1>5. ASSUME NEW c \in Caller, SettleAll(c) PROVE Rows'
  <2>1. row' \in [Penalty -> {"ABSENT", "UNPAID", "PAID"}] 
          /\ charged' \in [Penalty -> Nat] /\ claims' \in [Penalty -> Nat]
    BY <1>5 DEF Rows, SettleAll, moneyVars
  <2>2. Cardinality(OwedSet \ call[c].penalties) \in Nat
    BY CountIsNat, OwedIsSubset
  <2>3. call' \in [Caller -> CallState]
    BY <1>5, <2>2, GotoKeepsShape, ReturnKeepsShape, OwedIsSubset
       DEF SettleAll, Rows, CallState, Label
  <2> QED
    BY <2>1, <2>3 DEF Rows
<1>6. ASSUME NEW c \in Caller, CommitSettleAll(c) PROVE Rows'
  <2>1. row' \in [Penalty -> {"ABSENT", "UNPAID", "PAID"}] 
          /\ charged' \in [Penalty -> Nat] /\ claims' \in [Penalty -> Nat]
    BY <1>6 DEF Rows, CommitSettleAll, MarkPaid, moneyVars
  <2>2. 0 \in Nat
    OBVIOUS
  <2>3. call' \in [Caller -> CallState]
    BY <1>6, <2>2, GotoKeepsShape, ReturnKeepsShape, OwedIsSubset
       DEF CommitSettleAll, Rows, CallState, Label
  <2> QED
    BY <2>1, <2>3 DEF Rows
<1>7. ASSUME NEW c \in Caller, PriceRequest(c) PROVE Rows'
  <2>1. row' \in [Penalty -> {"ABSENT", "UNPAID", "PAID"}] 
          /\ charged' \in [Penalty -> Nat] /\ claims' \in [Penalty -> Nat]
    BY <1>7 DEF Rows, PriceRequest, moneyVars
  <2>2. 0 \in Nat
    OBVIOUS
  <2>3. call' \in [Caller -> CallState]
    BY <1>7, <2>2, GotoKeepsShape, ReturnKeepsShape, OwedIsSubset
       DEF PriceRequest, Rows, CallState, Label
  <2> QED
    BY <2>1, <2>3 DEF Rows
<1>8. ASSUME NEW c \in Caller, StartPayment(c) PROVE Rows'
  <2>1. row' \in [Penalty -> {"ABSENT", "UNPAID", "PAID"}] 
          /\ charged' \in [Penalty -> Nat] /\ claims' \in [Penalty -> Nat]
    BY <1>8 DEF Rows, StartPayment, moneyVars
  <2>2. 0 \in Nat
    OBVIOUS
  <2>3. call' \in [Caller -> CallState]
    BY <1>8, <2>2, GotoKeepsShape, ReturnKeepsShape, OwedIsSubset
       DEF StartPayment, Rows, CallState, Label
  <2> QED
    BY <2>1, <2>3 DEF Rows
<1>9. ASSUME NEW c \in Caller, CollectPayment(c) PROVE Rows'
  <2>1. row' \in [Penalty -> {"ABSENT", "UNPAID", "PAID"}] 
          /\ charged' \in [Penalty -> Nat] /\ claims' \in [Penalty -> Nat]
    BY <1>9 DEF Rows, CollectPayment, Charge, Plus, moneyVars
  <2>2. 0 \in Nat
    OBVIOUS
  <2>3. call' \in [Caller -> CallState]
    BY <1>9, <2>2, ProceedKeepsShape, ReturnKeepsShape, OwedIsSubset
       DEF CollectPayment, Rows, CallState, Label
  <2> QED
    BY <2>1, <2>3 DEF Rows
<1>10. ASSUME NEW c \in Caller, SettlePriced(c) PROVE Rows'
  <2>1. row' \in [Penalty -> {"ABSENT", "UNPAID", "PAID"}] 
          /\ charged' \in [Penalty -> Nat] /\ claims' \in [Penalty -> Nat]
    BY <1>10 DEF Rows, SettlePriced, moneyVars
  <2>2. Cardinality(OwedSet \ PricedPenalties(c)) \in Nat
    BY CountIsNat, OwedIsSubset DEF PricedPenalties
  <2>3. call' \in [Caller -> CallState]
    BY <1>10, <2>2, ProceedKeepsShape, ReturnKeepsShape, OwedIsSubset
       DEF SettlePriced, Rows, CallState, Label, PricedPenalties
  <2> QED
    BY <2>1, <2>3 DEF Rows
<1>11. ASSUME NEW c \in Caller, CommitSettlePriced(c) PROVE Rows'
  <2>1. row' \in [Penalty -> {"ABSENT", "UNPAID", "PAID"}] 
          /\ charged' \in [Penalty -> Nat] /\ claims' \in [Penalty -> Nat]
    BY <1>11 DEF Rows, CommitSettlePriced, MarkPaid, moneyVars
  <2>2. 0 \in Nat
    OBVIOUS
  <2>3. call' \in [Caller -> CallState]
    BY <1>11, <2>2, GotoKeepsShape, ReturnKeepsShape, OwedIsSubset
       DEF CommitSettlePriced, Rows, CallState, Label
  <2> QED
    BY <2>1, <2>3 DEF Rows
<1>12. ASSUME NEW c \in Caller, ReportPaid(c) PROVE Rows'
  <2>1. row' \in [Penalty -> {"ABSENT", "UNPAID", "PAID"}] 
          /\ charged' \in [Penalty -> Nat] /\ claims' \in [Penalty -> Nat]
    BY <1>12 DEF Rows, ReportPaid, MarkPaid
  <2>2. 0 \in Nat
    OBVIOUS
  <2>3. call' \in [Caller -> CallState]
    BY <1>12, <2>2, GotoKeepsShape, ReturnKeepsShape, OwedIsSubset
       DEF ReportPaid, Rows, CallState, Label
  <2> QED
    BY <2>1, <2>3 DEF Rows
<1>13. ASSUME NEW c \in Caller, CountRemaining(c) PROVE Rows'
  <2>1. row' \in [Penalty -> {"ABSENT", "UNPAID", "PAID"}] 
          /\ charged' \in [Penalty -> Nat] /\ claims' \in [Penalty -> Nat]
    BY <1>13 DEF Rows, CountRemaining, moneyVars
  <2>2. 0 \in Nat
    OBVIOUS
  <2>3. call' \in [Caller -> CallState]
    BY <1>13, <2>2, GotoKeepsShape, ReturnKeepsShape, OwedIsSubset
       DEF CountRemaining, Rows, CallState, Label
  <2> QED
    BY <2>1, <2>3 DEF Rows
<1>14. ASSUME NEW c \in Caller, Reactivate(c) PROVE Rows'
  <2>1. row' \in [Penalty -> {"ABSENT", "UNPAID", "PAID"}] 
          /\ charged' \in [Penalty -> Nat] /\ claims' \in [Penalty -> Nat]
    BY <1>14 DEF Rows, Reactivate, moneyVars
  <2>2. 0 \in Nat
    OBVIOUS
  <2>3. call' \in [Caller -> CallState]
    BY <1>14, <2>2, GotoKeepsShape, ReturnKeepsShape, OwedIsSubset
       DEF Reactivate, Rows, CallState, Label
  <2> QED
    BY <2>1, <2>3 DEF Rows
<1>15. ASSUME NEW c \in Caller, NEW p \in Penalty, StartConfirm(c, p) PROVE Rows'
  <2>1. row' \in [Penalty -> {"ABSENT", "UNPAID", "PAID"}] 
          /\ charged' \in [Penalty -> Nat] /\ claims' \in [Penalty -> Nat]
    BY <1>15 DEF Rows, StartConfirm, moneyVars
  <2>2. 0 \in Nat
    OBVIOUS
  <2>3. call' \in [Caller -> CallState]
    BY <1>15, <2>2, GotoKeepsShape, ReturnKeepsShape, OwedIsSubset
       DEF StartConfirm, Rows, CallState, Label
  <2> QED
    BY <2>1, <2>3 DEF Rows
<1>16. ASSUME NEW c \in Caller, NEW p \in Penalty, CreatePenalty(c, p) PROVE Rows'
  <2>1. row' \in [Penalty -> {"ABSENT", "UNPAID", "PAID"}] 
          /\ charged' \in [Penalty -> Nat] /\ claims' \in [Penalty -> Nat]
    BY <1>16 DEF Rows, CreatePenalty, moneyVars
  <2>2. 0 \in Nat
    OBVIOUS
  <2>3. call' \in [Caller -> CallState]
    BY <1>16, <2>2, GotoKeepsShape, ReturnKeepsShape, OwedIsSubset
       DEF CreatePenalty, Rows, CallState, Label
  <2> QED
    BY <2>1, <2>3 DEF Rows
<1>17. ASSUME NEW c \in Caller, Confirm(c) PROVE Rows'
  <2>1. row' \in [Penalty -> {"ABSENT", "UNPAID", "PAID"}] 
          /\ charged' \in [Penalty -> Nat] /\ claims' \in [Penalty -> Nat]
    BY <1>17 DEF Rows, Confirm, MarkPaid, Claim, Charge, Plus, moneyVars
  <2>2. 0 \in Nat
    OBVIOUS
  <2>3. call' \in [Caller -> CallState]
    BY <1>17, <2>2, GotoKeepsShape, ReturnKeepsShape, OwedIsSubset
       DEF Confirm, Rows, CallState, Label
  <2> QED
    BY <2>1, <2>3 DEF Rows
<1>18. ASSUME NEW c \in Caller, CountForResync(c) PROVE Rows'
  <2>1. row' \in [Penalty -> {"ABSENT", "UNPAID", "PAID"}] 
          /\ charged' \in [Penalty -> Nat] /\ claims' \in [Penalty -> Nat]
    BY <1>18 DEF Rows, CountForResync, moneyVars
  <2>2. Cardinality(OwedSet) \in Nat
    BY CountIsNat, OwedIsSubset
  <2>3. call' \in [Caller -> CallState]
    BY <1>18, <2>2, GotoKeepsShape, ReturnKeepsShape, OwedIsSubset
       DEF CountForResync, Rows, CallState, Label
  <2> QED
    BY <2>1, <2>3 DEF Rows
<1>19. ASSUME NEW c \in Caller, WriteResync(c) PROVE Rows'
  <2>1. row' \in [Penalty -> {"ABSENT", "UNPAID", "PAID"}] 
          /\ charged' \in [Penalty -> Nat] /\ claims' \in [Penalty -> Nat]
    BY <1>19 DEF Rows, WriteResync, moneyVars
  <2>2. 0 \in Nat
    OBVIOUS
  <2>3. call' \in [Caller -> CallState]
    BY <1>19, <2>2, GotoKeepsShape, ReturnKeepsShape, OwedIsSubset
       DEF WriteResync, Rows, CallState, Label
  <2> QED
    BY <2>1, <2>3 DEF Rows
<1>20. ASSUME NEW c \in Caller, FlagCreated(c) PROVE Rows'
  <2>1. row' \in [Penalty -> {"ABSENT", "UNPAID", "PAID"}] 
          /\ charged' \in [Penalty -> Nat] /\ claims' \in [Penalty -> Nat]
    BY <1>20 DEF Rows, FlagCreated, moneyVars
  <2>2. 0 \in Nat
    OBVIOUS
  <2>3. call' \in [Caller -> CallState]
    BY <1>20, <2>2, GotoKeepsShape, ReturnKeepsShape, OwedIsSubset
       DEF FlagCreated, Rows, CallState, Label
  <2> QED
    BY <2>1, <2>3 DEF Rows
<1>21. ASSUME NEW c \in Caller, StartArchive(c) PROVE Rows'
  <2>1. row' \in [Penalty -> {"ABSENT", "UNPAID", "PAID"}] 
          /\ charged' \in [Penalty -> Nat] /\ claims' \in [Penalty -> Nat]
    BY <1>21 DEF Rows, StartArchive, moneyVars
  <2>2. 0 \in Nat
    OBVIOUS
  <2>3. call' \in [Caller -> CallState]
    BY <1>21, <2>2, GotoKeepsShape, ReturnKeepsShape, OwedIsSubset
       DEF StartArchive, Rows, CallState, Label
  <2> QED
    BY <2>1, <2>3 DEF Rows
<1>22. ASSUME NEW c \in Caller, Archive(c) PROVE Rows'
  <2>1. row' \in [Penalty -> {"ABSENT", "UNPAID", "PAID"}] 
          /\ charged' \in [Penalty -> Nat] /\ claims' \in [Penalty -> Nat]
    BY <1>22 DEF Rows, Archive, moneyVars
  <2>2. 0 \in Nat
    OBVIOUS
  <2>3. call' \in [Caller -> CallState]
    BY <1>22, <2>2, GotoKeepsShape, ReturnKeepsShape, OwedIsSubset
       DEF Archive, Rows, CallState, Label
  <2> QED
    BY <2>1, <2>3 DEF Rows
<1>23. ASSUME NEW c \in Caller, Restore(c) PROVE Rows'
  <2>1. row' \in [Penalty -> {"ABSENT", "UNPAID", "PAID"}] 
          /\ charged' \in [Penalty -> Nat] /\ claims' \in [Penalty -> Nat]
    BY <1>23 DEF Rows, Restore, moneyVars
  <2>2. 0 \in Nat
    OBVIOUS
  <2>3. call' \in [Caller -> CallState]
    BY <1>23, <2>2, GotoKeepsShape, ReturnKeepsShape, OwedIsSubset
       DEF Restore, Rows, CallState, Label
  <2> QED
    BY <2>1, <2>3 DEF Rows
<1>24. ASSUME NEW c \in Caller, NEW p \in Penalty, Penalise(c, p) PROVE Rows'
  <2>1. row' \in [Penalty -> {"ABSENT", "UNPAID", "PAID"}] 
          /\ charged' \in [Penalty -> Nat] /\ claims' \in [Penalty -> Nat]
    BY <1>24 DEF Rows, Penalise, moneyVars
  <2>2. Cardinality(OwedSet \cup {p}) \in Nat
    BY CountIsNat, OwedIsSubset
  <2>3. call' \in [Caller -> CallState]
    BY <1>24, <2>2, GotoKeepsShape, ReturnKeepsShape, OwedIsSubset
       DEF Penalise, Rows, CallState, Label
  <2> QED
    BY <2>1, <2>3 DEF Rows
<1>25. ASSUME NEW c \in Caller, CommitPenalise(c) PROVE Rows'
  <2>1. row' \in [Penalty -> {"ABSENT", "UNPAID", "PAID"}] 
          /\ charged' \in [Penalty -> Nat] /\ claims' \in [Penalty -> Nat]
    BY <1>25 DEF Rows, CommitPenalise, moneyVars
  <2>2. 0 \in Nat
    OBVIOUS
  <2>3. call' \in [Caller -> CallState]
    BY <1>25, <2>2, GotoKeepsShape, ReturnKeepsShape, OwedIsSubset
       DEF CommitPenalise, Rows, CallState, Label
  <2> QED
    BY <2>1, <2>3 DEF Rows
<1>26. ASSUME NEW c \in Caller, CountForSuspension(c) PROVE Rows'
  <2>1. row' \in [Penalty -> {"ABSENT", "UNPAID", "PAID"}] 
          /\ charged' \in [Penalty -> Nat] /\ claims' \in [Penalty -> Nat]
    BY <1>26 DEF Rows, CountForSuspension, moneyVars
  <2>2. 0 \in Nat
    OBVIOUS
  <2>3. call' \in [Caller -> CallState]
    BY <1>26, <2>2, GotoKeepsShape, ReturnKeepsShape, OwedIsSubset
       DEF CountForSuspension, Rows, CallState, Label
  <2> QED
    BY <2>1, <2>3 DEF Rows
<1>27. ASSUME NEW c \in Caller, Suspend(c) PROVE Rows'
  <2>1. row' \in [Penalty -> {"ABSENT", "UNPAID", "PAID"}] 
          /\ charged' \in [Penalty -> Nat] /\ claims' \in [Penalty -> Nat]
    BY <1>27 DEF Rows, Suspend, moneyVars
  <2>2. 0 \in Nat
    OBVIOUS
  <2>3. call' \in [Caller -> CallState]
    BY <1>27, <2>2, GotoKeepsShape, ReturnKeepsShape, OwedIsSubset
       DEF Suspend, Rows, CallState, Label
  <2> QED
    BY <2>1, <2>3 DEF Rows
<1>28. ASSUME NEW c \in Caller, Interrupt(c) PROVE Rows'
  <2>1. row' \in [Penalty -> {"ABSENT", "UNPAID", "PAID"}] 
          /\ charged' \in [Penalty -> Nat] /\ claims' \in [Penalty -> Nat]
    BY <1>28 DEF Rows, Interrupt, moneyVars
  <2>2. 0 \in Nat
    OBVIOUS
  <2>3. call' \in [Caller -> CallState]
    BY <1>28, <2>2, GotoKeepsShape, ReturnKeepsShape, OwedIsSubset
       DEF Interrupt, Rows, CallState, Label
  <2> QED
    BY <2>1, <2>3 DEF Rows
<1>30. ASSUME NEW c \in Caller, PriceWithoutIds(c) PROVE Rows'
  <2>1. row' \in [Penalty -> {"ABSENT", "UNPAID", "PAID"}] 
          /\ charged' \in [Penalty -> Nat] /\ claims' \in [Penalty -> Nat]
    BY <1>30 DEF Rows, PriceWithoutIds, moneyVars
  <2>2. 0 \in Nat
    OBVIOUS
  <2>3. call' \in [Caller -> CallState]
    <3> DEFINE B == {p \in Penalty : Dated(p)} \ OwedSet
    <3>1. B \in SUBSET Penalty /\ "charging" \in Label
      BY DEF Label
    <3>2. Proceed(c, "charging", OwedSet, 0, B)
      BY <1>30 DEF PriceWithoutIds
    <3> HIDE DEF B
    <3> QED
      BY <2>2, <3>1, <3>2, ProceedKeepsShape, OwedIsSubset
  <2> QED
    BY <2>1, <2>3 DEF Rows
<1>31. ASSUME NEW c \in Caller, PayOutside(c) PROVE Rows'
  <2>1. row' \in [Penalty -> {"ABSENT", "UNPAID", "PAID"}] 
          /\ charged' \in [Penalty -> Nat] /\ claims' \in [Penalty -> Nat]
    BY <1>31 DEF Rows, PayOutside, Charge, Plus
  <2>2. 0 \in Nat
    OBVIOUS
  <2>3. call' \in [Caller -> CallState]
    BY <1>31, <2>2, GotoKeepsShape, ReturnKeepsShape, OwedIsSubset
       DEF PayOutside, Rows, CallState, Label
  <2> QED
    BY <2>1, <2>3 DEF Rows
<1>29. ASSUME UNCHANGED vars PROVE Rows'
  BY <1>29 DEF vars, Rows, moneyVars
<1> QED
  BY <1>1, <1>2, <1>3, <1>4, <1>5, <1>6, <1>7, <1>8, <1>9, <1>10, <1>11,
     <1>12, <1>13, <1>14, <1>15, <1>16, <1>17, <1>18, <1>19, <1>20, <1>21,
     <1>22, <1>23, <1>24, <1>25, <1>26, <1>27, <1>28, <1>29, <1>30, <1>31
     DEF Next, WalletStep, GatewayStep, AdminStep, CancelStep

\* Only a debit or a collected payment leads to settling, and of those penalties only.
LEMMA SettlersStep ==
  ASSUME Rows, SettlersHavePaid, [Next]_vars
  PROVE  SettlersHavePaid'
<1> USE DEF Rows, Label, CallState, Idle, SettlersHavePaid, moneyVars, profileVars
<1>1. ASSUME NEW c \in Caller, NEW p \in Penalty, PayPenalty(c, p) PROVE SettlersHavePaid'
  BY <1>1 DEF PayPenalty, At, Goto, Proceed, Return
<1>2. ASSUME NEW c \in Caller, CommitPayPenalty(c) PROVE SettlersHavePaid'
  BY <1>2 DEF CommitPayPenalty, At, Goto, Proceed, Return, MarkPaid, Claim, Charge, Plus
<1>3. ASSUME NEW c \in Caller, ListUnpaid(c) PROVE SettlersHavePaid'
  BY <1>3 DEF ListUnpaid, At, Goto, Proceed, Return
<1>4. ASSUME NEW c \in Caller, DebitAll(c) PROVE SettlersHavePaid'
  BY <1>4 DEF DebitAll, At, Goto, Proceed, Return, Charge, Plus
<1>5. ASSUME NEW c \in Caller, SettleAll(c) PROVE SettlersHavePaid'
  BY <1>5 DEF SettleAll, At, Goto, Proceed, Return
<1>6. ASSUME NEW c \in Caller, CommitSettleAll(c) PROVE SettlersHavePaid'
  BY <1>6 DEF CommitSettleAll, At, Goto, Proceed, Return, MarkPaid
<1>7. ASSUME NEW c \in Caller, PriceRequest(c) PROVE SettlersHavePaid'
  BY <1>7 DEF PriceRequest, At, Goto, Proceed, Return
<1>8. ASSUME NEW c \in Caller, StartPayment(c) PROVE SettlersHavePaid'
  BY <1>8 DEF StartPayment, At, Goto, Proceed, Return
<1>9. ASSUME NEW c \in Caller, CollectPayment(c) PROVE SettlersHavePaid'
  BY <1>9 DEF CollectPayment, At, Goto, Proceed, Return, Charge, Plus
<1>10. ASSUME NEW c \in Caller, SettlePriced(c) PROVE SettlersHavePaid'
  BY <1>10 DEF SettlePriced, At, Goto, Proceed, Return, PricedPenalties
<1>11. ASSUME NEW c \in Caller, CommitSettlePriced(c) PROVE SettlersHavePaid'
  BY <1>11 DEF CommitSettlePriced, WaivedBy, At, Return, MarkPaid
<1>12. ASSUME NEW c \in Caller, ReportPaid(c) PROVE SettlersHavePaid'
  BY <1>12 DEF ReportPaid, At, Goto, Proceed, Return, MarkPaid, OwedSet
<1>13. ASSUME NEW c \in Caller, CountRemaining(c) PROVE SettlersHavePaid'
  BY <1>13 DEF CountRemaining, At, Goto, Proceed, Return
<1>14. ASSUME NEW c \in Caller, Reactivate(c) PROVE SettlersHavePaid'
  BY <1>14 DEF Reactivate, At, Goto, Proceed, Return
<1>15. ASSUME NEW c \in Caller, NEW p \in Penalty, StartConfirm(c, p) PROVE SettlersHavePaid'
  BY <1>15 DEF StartConfirm, At, Goto, Proceed, Return
<1>16. ASSUME NEW c \in Caller, NEW p \in Penalty, CreatePenalty(c, p) PROVE SettlersHavePaid'
  BY <1>16 DEF CreatePenalty, At, Goto, Proceed, Return
<1>17. ASSUME NEW c \in Caller, Confirm(c) PROVE SettlersHavePaid'
  BY <1>17 DEF Confirm, At, Goto, Proceed, Return, MarkPaid, Claim, Charge, Plus
<1>18. ASSUME NEW c \in Caller, CountForResync(c) PROVE SettlersHavePaid'
  BY <1>18 DEF CountForResync, At, Goto, Proceed, Return
<1>19. ASSUME NEW c \in Caller, WriteResync(c) PROVE SettlersHavePaid'
  BY <1>19 DEF WriteResync, At, Goto, Proceed, Return
<1>20. ASSUME NEW c \in Caller, FlagCreated(c) PROVE SettlersHavePaid'
  BY <1>20 DEF FlagCreated, At, Goto, Proceed, Return
<1>21. ASSUME NEW c \in Caller, StartArchive(c) PROVE SettlersHavePaid'
  BY <1>21 DEF StartArchive, At, Goto, Proceed, Return
<1>22. ASSUME NEW c \in Caller, Archive(c) PROVE SettlersHavePaid'
  BY <1>22 DEF Archive, At, Goto, Proceed, Return
<1>23. ASSUME NEW c \in Caller, Restore(c) PROVE SettlersHavePaid'
  BY <1>23 DEF Restore, At, Goto, Proceed, Return
<1>24. ASSUME NEW c \in Caller, NEW p \in Penalty, Penalise(c, p) PROVE SettlersHavePaid'
  BY <1>24 DEF Penalise, At, Goto, Proceed, Return
<1>25. ASSUME NEW c \in Caller, CommitPenalise(c) PROVE SettlersHavePaid'
  BY <1>25 DEF CommitPenalise, At, Goto, Proceed, Return
<1>26. ASSUME NEW c \in Caller, CountForSuspension(c) PROVE SettlersHavePaid'
  BY <1>26 DEF CountForSuspension, At, Goto, Proceed, Return
<1>27. ASSUME NEW c \in Caller, Suspend(c) PROVE SettlersHavePaid'
  BY <1>27 DEF Suspend, At, Goto, Proceed, Return
<1>28. ASSUME NEW c \in Caller, Interrupt(c) PROVE SettlersHavePaid'
  BY <1>28 DEF Interrupt, At, Goto, Proceed, Return
<1>30. ASSUME NEW c \in Caller, PriceWithoutIds(c) PROVE SettlersHavePaid'
  BY <1>30 DEF PriceWithoutIds, At, Goto, Proceed, Return
<1>31. ASSUME NEW c \in Caller, PayOutside(c) PROVE SettlersHavePaid'
  <2>1. \A p \in Penalty : (charged[p] > 0 \/ p \in OwedSet) => charged'[p] > 0
    BY <1>31 DEF PayOutside, Charge, Plus
  <2>2. \A d \in Caller : d # c => call'[d] = call[d]
    BY <1>31 DEF PayOutside, Goto, Proceed
  <2>3. call'[c].pc = "paidOutside" /\ call'[c].penalties = OwedSet
    BY <1>31 DEF PayOutside, Goto, Proceed
  <2>4. ASSUME NEW d \in Caller, d # c, NEW p \in call[d].penalties
        PROVE  /\ call[d].pc \in {"debited", "settlingAll", "charged", "paidOutside"} =>
                    charged'[p] > 0
               /\ call[d].pc = "settlingPriced" => charged'[p] > 0 \/ p \in call[d].beyond
    BY <2>1, <2>4 DEF At
  <2>5. \A p \in OwedSet : charged'[p] > 0
    BY <2>1, OwedIsSubset
  <2> QED
    BY <2>2, <2>3, <2>4, <2>5 DEF At
<1>29. ASSUME UNCHANGED vars PROVE SettlersHavePaid'
  BY <1>29 DEF vars, At
<1> QED
  BY <1>1, <1>2, <1>3, <1>4, <1>5, <1>6, <1>7, <1>8, <1>9, <1>10, <1>11,
     <1>12, <1>13, <1>14, <1>15, <1>16, <1>17, <1>18, <1>19, <1>20, <1>21,
     <1>22, <1>23, <1>24, <1>25, <1>26, <1>27, <1>28, <1>29, <1>30, <1>31
     DEF Next, WalletStep, GatewayStep, AdminStep, CancelStep

\* A row is marked paid by a call that charged it before or in the same step.
LEMMA ForFreeStep ==
  ASSUME Rows, SettlersHavePaid, NothingClearedForFree, [Next]_vars
  PROVE  NothingClearedForFree'
<1> USE DEF Rows, Label, CallState, Idle, SettlersHavePaid, NothingClearedForFree, moneyVars, profileVars
<1>1. ASSUME NEW c \in Caller, NEW p \in Penalty, PayPenalty(c, p) PROVE NothingClearedForFree'
  BY <1>1 DEF PayPenalty, At, Goto, Proceed, Return
<1>2. ASSUME NEW c \in Caller, CommitPayPenalty(c) PROVE NothingClearedForFree'
  BY <1>2 DEF CommitPayPenalty, At, Goto, Proceed, Return, MarkPaid, Claim, Charge, Plus
<1>3. ASSUME NEW c \in Caller, ListUnpaid(c) PROVE NothingClearedForFree'
  BY <1>3 DEF ListUnpaid, At, Goto, Proceed, Return
<1>4. ASSUME NEW c \in Caller, DebitAll(c) PROVE NothingClearedForFree'
  BY <1>4 DEF DebitAll, At, Goto, Proceed, Return, Charge, Plus
<1>5. ASSUME NEW c \in Caller, SettleAll(c) PROVE NothingClearedForFree'
  BY <1>5 DEF SettleAll, At, Goto, Proceed, Return
<1>6. ASSUME NEW c \in Caller, CommitSettleAll(c) PROVE NothingClearedForFree'
  BY <1>6 DEF CommitSettleAll, At, Goto, Proceed, Return, MarkPaid
<1>7. ASSUME NEW c \in Caller, PriceRequest(c) PROVE NothingClearedForFree'
  BY <1>7 DEF PriceRequest, At, Goto, Proceed, Return
<1>8. ASSUME NEW c \in Caller, StartPayment(c) PROVE NothingClearedForFree'
  BY <1>8 DEF StartPayment, At, Goto, Proceed, Return
<1>9. ASSUME NEW c \in Caller, CollectPayment(c) PROVE NothingClearedForFree'
  BY <1>9 DEF CollectPayment, At, Goto, Proceed, Return, Charge, Plus
<1>10. ASSUME NEW c \in Caller, SettlePriced(c) PROVE NothingClearedForFree'
  BY <1>10 DEF SettlePriced, At, Goto, Proceed, Return, PricedPenalties
<1>11. ASSUME NEW c \in Caller, CommitSettlePriced(c) PROVE NothingClearedForFree'
  BY <1>11 DEF CommitSettlePriced, WaivedBy, At, Return, MarkPaid
<1>12. ASSUME NEW c \in Caller, ReportPaid(c) PROVE NothingClearedForFree'
  BY <1>12 DEF ReportPaid, At, Goto, Proceed, Return, MarkPaid, OwedSet
<1>13. ASSUME NEW c \in Caller, CountRemaining(c) PROVE NothingClearedForFree'
  BY <1>13 DEF CountRemaining, At, Goto, Proceed, Return
<1>14. ASSUME NEW c \in Caller, Reactivate(c) PROVE NothingClearedForFree'
  BY <1>14 DEF Reactivate, At, Goto, Proceed, Return
<1>15. ASSUME NEW c \in Caller, NEW p \in Penalty, StartConfirm(c, p) PROVE NothingClearedForFree'
  BY <1>15 DEF StartConfirm, At, Goto, Proceed, Return
<1>16. ASSUME NEW c \in Caller, NEW p \in Penalty, CreatePenalty(c, p) PROVE NothingClearedForFree'
  BY <1>16 DEF CreatePenalty, At, Goto, Proceed, Return
<1>17. ASSUME NEW c \in Caller, Confirm(c) PROVE NothingClearedForFree'
  BY <1>17 DEF Confirm, At, Goto, Proceed, Return, MarkPaid, Claim, Charge, Plus
<1>18. ASSUME NEW c \in Caller, CountForResync(c) PROVE NothingClearedForFree'
  BY <1>18 DEF CountForResync, At, Goto, Proceed, Return
<1>19. ASSUME NEW c \in Caller, WriteResync(c) PROVE NothingClearedForFree'
  BY <1>19 DEF WriteResync, At, Goto, Proceed, Return
<1>20. ASSUME NEW c \in Caller, FlagCreated(c) PROVE NothingClearedForFree'
  BY <1>20 DEF FlagCreated, At, Goto, Proceed, Return
<1>21. ASSUME NEW c \in Caller, StartArchive(c) PROVE NothingClearedForFree'
  BY <1>21 DEF StartArchive, At, Goto, Proceed, Return
<1>22. ASSUME NEW c \in Caller, Archive(c) PROVE NothingClearedForFree'
  BY <1>22 DEF Archive, At, Goto, Proceed, Return
<1>23. ASSUME NEW c \in Caller, Restore(c) PROVE NothingClearedForFree'
  BY <1>23 DEF Restore, At, Goto, Proceed, Return
<1>24. ASSUME NEW c \in Caller, NEW p \in Penalty, Penalise(c, p) PROVE NothingClearedForFree'
  BY <1>24 DEF Penalise, At, Goto, Proceed, Return
<1>25. ASSUME NEW c \in Caller, CommitPenalise(c) PROVE NothingClearedForFree'
  BY <1>25 DEF CommitPenalise, At, Goto, Proceed, Return
<1>26. ASSUME NEW c \in Caller, CountForSuspension(c) PROVE NothingClearedForFree'
  BY <1>26 DEF CountForSuspension, At, Goto, Proceed, Return
<1>27. ASSUME NEW c \in Caller, Suspend(c) PROVE NothingClearedForFree'
  BY <1>27 DEF Suspend, At, Goto, Proceed, Return
<1>28. ASSUME NEW c \in Caller, Interrupt(c) PROVE NothingClearedForFree'
  BY <1>28 DEF Interrupt, At, Goto, Proceed, Return
<1>30. ASSUME NEW c \in Caller, PriceWithoutIds(c) PROVE NothingClearedForFree'
  BY <1>30 DEF PriceWithoutIds, At, Goto, Proceed, Return
<1>31. ASSUME NEW c \in Caller, PayOutside(c) PROVE NothingClearedForFree'
  BY <1>31 DEF PayOutside, At, Goto, Proceed, Return, Charge, Plus
<1>29. ASSUME UNCHANGED vars PROVE NothingClearedForFree'
  BY <1>29 DEF vars
<1> QED
  BY <1>1, <1>2, <1>3, <1>4, <1>5, <1>6, <1>7, <1>8, <1>9, <1>10, <1>11,
     <1>12, <1>13, <1>14, <1>15, <1>16, <1>17, <1>18, <1>19, <1>20, <1>21,
     <1>22, <1>23, <1>24, <1>25, <1>26, <1>27, <1>28, <1>29, <1>30, <1>31
     DEF Next, WalletStep, GatewayStep, AdminStep, CancelStep

\* Only a link without ids may clear more than it priced, only the webhook does not
\* look at what was priced.
LEMMA UnboundedStep ==
  ASSUME Rows, OnlyUnboundedWaive, [Next]_vars
  PROVE  OnlyUnboundedWaive'
<1> USE DEF Rows, Label, CallState, Idle, OnlyUnboundedWaive, moneyVars, profileVars
<1>1. ASSUME NEW c \in Caller, NEW p \in Penalty, PayPenalty(c, p) PROVE OnlyUnboundedWaive'
  BY <1>1 DEF PayPenalty, At, Goto, Proceed, Return
<1>2. ASSUME NEW c \in Caller, CommitPayPenalty(c) PROVE OnlyUnboundedWaive'
  BY <1>2 DEF CommitPayPenalty, At, Goto, Proceed, Return, MarkPaid, Claim, Charge, Plus
<1>3. ASSUME NEW c \in Caller, ListUnpaid(c) PROVE OnlyUnboundedWaive'
  BY <1>3 DEF ListUnpaid, At, Goto, Proceed, Return
<1>4. ASSUME NEW c \in Caller, DebitAll(c) PROVE OnlyUnboundedWaive'
  BY <1>4 DEF DebitAll, At, Goto, Proceed, Return, Charge, Plus
<1>5. ASSUME NEW c \in Caller, SettleAll(c) PROVE OnlyUnboundedWaive'
  BY <1>5 DEF SettleAll, At, Goto, Proceed, Return
<1>6. ASSUME NEW c \in Caller, CommitSettleAll(c) PROVE OnlyUnboundedWaive'
  BY <1>6 DEF CommitSettleAll, At, Goto, Proceed, Return, MarkPaid
<1>7. ASSUME NEW c \in Caller, PriceRequest(c) PROVE OnlyUnboundedWaive'
  BY <1>7 DEF PriceRequest, At, Goto, Proceed, Return
<1>8. ASSUME NEW c \in Caller, StartPayment(c) PROVE OnlyUnboundedWaive'
  BY <1>8 DEF StartPayment, At, Goto, Proceed, Return
<1>9. ASSUME NEW c \in Caller, CollectPayment(c) PROVE OnlyUnboundedWaive'
  BY <1>9 DEF CollectPayment, At, Goto, Proceed, Return, Charge, Plus
<1>10. ASSUME NEW c \in Caller, SettlePriced(c) PROVE OnlyUnboundedWaive'
  BY <1>10 DEF SettlePriced, At, Goto, Proceed, Return, PricedPenalties
<1>11. ASSUME NEW c \in Caller, CommitSettlePriced(c) PROVE OnlyUnboundedWaive'
  BY <1>11 DEF CommitSettlePriced, WaivedBy, At, Return, MarkPaid
<1>12. ASSUME NEW c \in Caller, ReportPaid(c) PROVE OnlyUnboundedWaive'
  BY <1>12 DEF ReportPaid, At, Goto, Proceed, Return, MarkPaid, OwedSet
<1>13. ASSUME NEW c \in Caller, CountRemaining(c) PROVE OnlyUnboundedWaive'
  BY <1>13 DEF CountRemaining, At, Goto, Proceed, Return
<1>14. ASSUME NEW c \in Caller, Reactivate(c) PROVE OnlyUnboundedWaive'
  BY <1>14 DEF Reactivate, At, Goto, Proceed, Return
<1>15. ASSUME NEW c \in Caller, NEW p \in Penalty, StartConfirm(c, p) PROVE OnlyUnboundedWaive'
  BY <1>15 DEF StartConfirm, At, Goto, Proceed, Return
<1>16. ASSUME NEW c \in Caller, NEW p \in Penalty, CreatePenalty(c, p) PROVE OnlyUnboundedWaive'
  BY <1>16 DEF CreatePenalty, At, Goto, Proceed, Return
<1>17. ASSUME NEW c \in Caller, Confirm(c) PROVE OnlyUnboundedWaive'
  BY <1>17 DEF Confirm, At, Goto, Proceed, Return, MarkPaid, Claim, Charge, Plus
<1>18. ASSUME NEW c \in Caller, CountForResync(c) PROVE OnlyUnboundedWaive'
  BY <1>18 DEF CountForResync, At, Goto, Proceed, Return
<1>19. ASSUME NEW c \in Caller, WriteResync(c) PROVE OnlyUnboundedWaive'
  BY <1>19 DEF WriteResync, At, Goto, Proceed, Return
<1>20. ASSUME NEW c \in Caller, FlagCreated(c) PROVE OnlyUnboundedWaive'
  BY <1>20 DEF FlagCreated, At, Goto, Proceed, Return
<1>21. ASSUME NEW c \in Caller, StartArchive(c) PROVE OnlyUnboundedWaive'
  BY <1>21 DEF StartArchive, At, Goto, Proceed, Return
<1>22. ASSUME NEW c \in Caller, Archive(c) PROVE OnlyUnboundedWaive'
  BY <1>22 DEF Archive, At, Goto, Proceed, Return
<1>23. ASSUME NEW c \in Caller, Restore(c) PROVE OnlyUnboundedWaive'
  BY <1>23 DEF Restore, At, Goto, Proceed, Return
<1>24. ASSUME NEW c \in Caller, NEW p \in Penalty, Penalise(c, p) PROVE OnlyUnboundedWaive'
  BY <1>24 DEF Penalise, At, Goto, Proceed, Return
<1>25. ASSUME NEW c \in Caller, CommitPenalise(c) PROVE OnlyUnboundedWaive'
  BY <1>25 DEF CommitPenalise, At, Goto, Proceed, Return
<1>26. ASSUME NEW c \in Caller, CountForSuspension(c) PROVE OnlyUnboundedWaive'
  BY <1>26 DEF CountForSuspension, At, Goto, Proceed, Return
<1>27. ASSUME NEW c \in Caller, Suspend(c) PROVE OnlyUnboundedWaive'
  BY <1>27 DEF Suspend, At, Goto, Proceed, Return
<1>28. ASSUME NEW c \in Caller, Interrupt(c) PROVE OnlyUnboundedWaive'
  BY <1>28 DEF Interrupt, At, Goto, Proceed, Return
<1>30. ASSUME NEW c \in Caller, PriceWithoutIds(c) PROVE OnlyUnboundedWaive'
  BY <1>30 DEF PriceWithoutIds, At, Goto, Proceed, Return
<1>31. ASSUME NEW c \in Caller, PayOutside(c) PROVE OnlyUnboundedWaive'
  BY <1>31 DEF PayOutside, At, Goto, Proceed, Return, Charge, Plus
<1>29. ASSUME UNCHANGED vars PROVE OnlyUnboundedWaive'
  BY <1>29 DEF vars, At
<1> QED
  BY <1>1, <1>2, <1>3, <1>4, <1>5, <1>6, <1>7, <1>8, <1>9, <1>10, <1>11,
     <1>12, <1>13, <1>14, <1>15, <1>16, <1>17, <1>18, <1>19, <1>20, <1>21,
     <1>22, <1>23, <1>24, <1>25, <1>26, <1>27, <1>28, <1>29, <1>30, <1>31
     DEF Next, WalletStep, GatewayStep, AdminStep, CancelStep

\* What is settled was charged, and what is not is cleared by the webhook or by a
\* link without ids, in every reachable state.
THEOREM SettledWasCharged ==
  Spec => [](Rows /\ SettlersHavePaid /\ NothingClearedForFree /\ OnlyUnboundedWaive)
<1> DEFINE I == Rows /\ SettlersHavePaid /\ NothingClearedForFree /\ OnlyUnboundedWaive
<1>1. Init => I
  BY DEF Init, Rows, CallState, Label, Idle, At, SettlersHavePaid, NothingClearedForFree,
         OnlyUnboundedWaive
<1>2. I /\ [Next]_vars => I'
  BY RowsStep, SettlersStep, ForFreeStep, UnboundedStep
<1> QED
  BY <1>1, <1>2, PTL DEF Spec

\* Whatever calls race, fail half-way or find penalties issued, archived or restored
\* in between, a penalty is cleared without money behind it only by the webhook or a
\* link without ids, beyond what its payment was priced for.
THEOREM NoPenaltyClearedForFree == Spec => []NothingClearedForFree
  BY SettledWasCharged, PTL

\* Where neither of the two is used, every penalty marked paid was paid for: the
\* wallet, confirmations and links that carry ids clear nothing beyond their price.
THEOREM PricedChannelsChargeAll ==
  ASSUME Operations \cap {"oldLink", "webhook"} = {}
  PROVE  Spec => [](\A p \in Penalty : row[p] = "PAID" => charged[p] > 0)
<1>1. NothingClearedForFree /\ OnlyUnboundedWaive =>
        \A p \in Penalty : row[p] = "PAID" => charged[p] > 0
  BY DEF NothingClearedForFree, OnlyUnboundedWaive
<1> QED
  BY <1>1, SettledWasCharged, PTL

\* A transaction starts on unlocked rows only.
LEMMA LocksStep ==
  ASSUME Rows, LocksAreDisjoint, [Next]_vars
  PROVE  LocksAreDisjoint'
<1> USE DEF Rows, Label, CallState, Idle, LocksAreDisjoint, InTransaction, Unlocked, At, moneyVars, profileVars
<1>1. ASSUME NEW c \in Caller, NEW p \in Penalty, PayPenalty(c, p) PROVE LocksAreDisjoint'
  BY <1>1 DEF PayPenalty, At, Goto, Proceed, Return
<1>2. ASSUME NEW c \in Caller, CommitPayPenalty(c) PROVE LocksAreDisjoint'
  BY <1>2 DEF CommitPayPenalty, At, Goto, Proceed, Return, MarkPaid, Claim, Charge, Plus
<1>3. ASSUME NEW c \in Caller, ListUnpaid(c) PROVE LocksAreDisjoint'
  BY <1>3 DEF ListUnpaid, At, Goto, Proceed, Return
<1>4. ASSUME NEW c \in Caller, DebitAll(c) PROVE LocksAreDisjoint'
  BY <1>4 DEF DebitAll, At, Goto, Proceed, Return, Charge, Plus
<1>5. ASSUME NEW c \in Caller, SettleAll(c) PROVE LocksAreDisjoint'
  BY <1>5 DEF SettleAll, At, Goto, Proceed, Return
<1>6. ASSUME NEW c \in Caller, CommitSettleAll(c) PROVE LocksAreDisjoint'
  BY <1>6 DEF CommitSettleAll, At, Goto, Proceed, Return, MarkPaid
<1>7. ASSUME NEW c \in Caller, PriceRequest(c) PROVE LocksAreDisjoint'
  BY <1>7 DEF PriceRequest, At, Goto, Proceed, Return
<1>8. ASSUME NEW c \in Caller, StartPayment(c) PROVE LocksAreDisjoint'
  BY <1>8 DEF StartPayment, At, Goto, Proceed, Return
<1>9. ASSUME NEW c \in Caller, CollectPayment(c) PROVE LocksAreDisjoint'
  BY <1>9 DEF CollectPayment, At, Goto, Proceed, Return, Charge, Plus
<1>10. ASSUME NEW c \in Caller, SettlePriced(c) PROVE LocksAreDisjoint'
  BY <1>10 DEF SettlePriced, At, Goto, Proceed, Return, PricedPenalties
<1>11. ASSUME NEW c \in Caller, CommitSettlePriced(c) PROVE LocksAreDisjoint'
  BY <1>11 DEF CommitSettlePriced, WaivedBy, At, Return, MarkPaid
<1>12. ASSUME NEW c \in Caller, ReportPaid(c) PROVE LocksAreDisjoint'
  BY <1>12 DEF ReportPaid, At, Goto, Proceed, Return, MarkPaid, OwedSet
<1>13. ASSUME NEW c \in Caller, CountRemaining(c) PROVE LocksAreDisjoint'
  BY <1>13 DEF CountRemaining, At, Goto, Proceed, Return
<1>14. ASSUME NEW c \in Caller, Reactivate(c) PROVE LocksAreDisjoint'
  BY <1>14 DEF Reactivate, At, Goto, Proceed, Return
<1>15. ASSUME NEW c \in Caller, NEW p \in Penalty, StartConfirm(c, p) PROVE LocksAreDisjoint'
  BY <1>15 DEF StartConfirm, At, Goto, Proceed, Return
<1>16. ASSUME NEW c \in Caller, NEW p \in Penalty, CreatePenalty(c, p) PROVE LocksAreDisjoint'
  BY <1>16 DEF CreatePenalty, At, Goto, Proceed, Return
<1>17. ASSUME NEW c \in Caller, Confirm(c) PROVE LocksAreDisjoint'
  BY <1>17 DEF Confirm, At, Goto, Proceed, Return, MarkPaid, Claim, Charge, Plus
<1>18. ASSUME NEW c \in Caller, CountForResync(c) PROVE LocksAreDisjoint'
  BY <1>18 DEF CountForResync, At, Goto, Proceed, Return
<1>19. ASSUME NEW c \in Caller, WriteResync(c) PROVE LocksAreDisjoint'
  BY <1>19 DEF WriteResync, At, Goto, Proceed, Return
<1>20. ASSUME NEW c \in Caller, FlagCreated(c) PROVE LocksAreDisjoint'
  BY <1>20 DEF FlagCreated, At, Goto, Proceed, Return
<1>21. ASSUME NEW c \in Caller, StartArchive(c) PROVE LocksAreDisjoint'
  BY <1>21 DEF StartArchive, At, Goto, Proceed, Return
<1>22. ASSUME NEW c \in Caller, Archive(c) PROVE LocksAreDisjoint'
  BY <1>22 DEF Archive, At, Goto, Proceed, Return
<1>23. ASSUME NEW c \in Caller, Restore(c) PROVE LocksAreDisjoint'
  BY <1>23 DEF Restore, At, Goto, Proceed, Return
<1>24. ASSUME NEW c \in Caller, NEW p \in Penalty, Penalise(c, p) PROVE LocksAreDisjoint'
  BY <1>24 DEF Penalise, At, Goto, Proceed, Return
<1>25. ASSUME NEW c \in Caller, CommitPenalise(c) PROVE LocksAreDisjoint'
  BY <1>25 DEF CommitPenalise, At, Goto, Proceed, Return
<1>26. ASSUME NEW c \in Caller, CountForSuspension(c) PROVE LocksAreDisjoint'
  BY <1>26 DEF CountForSuspension, At, Goto, Proceed, Return
<1>27. ASSUME NEW c \in Caller, Suspend(c) PROVE LocksAreDisjoint'
  BY <1>27 DEF Suspend, At, Goto, Proceed, Return
<1>28. ASSUME NEW c \in Caller, Interrupt(c) PROVE LocksAreDisjoint'
  BY <1>28 DEF Interrupt, At, Goto, Proceed, Return
<1>30. ASSUME NEW c \in Caller, PriceWithoutIds(c) PROVE LocksAreDisjoint'
  BY <1>30 DEF PriceWithoutIds, At, Goto, Proceed, Return
<1>31. ASSUME NEW c \in Caller, PayOutside(c) PROVE LocksAreDisjoint'
  BY <1>31 DEF PayOutside, At, Goto, Proceed, Return, Charge, Plus
<1>29. ASSUME UNCHANGED vars PROVE LocksAreDisjoint'
  BY <1>29 DEF vars
<1> QED
  BY <1>1, <1>2, <1>3, <1>4, <1>5, <1>6, <1>7, <1>8, <1>9, <1>10, <1>11,
     <1>12, <1>13, <1>14, <1>15, <1>16, <1>17, <1>18, <1>19, <1>20, <1>21,
     <1>22, <1>23, <1>24, <1>25, <1>26, <1>27, <1>28, <1>29, <1>30, <1>31
     DEF Next, WalletStep, GatewayStep, AdminStep, CancelStep

\* The row locks keep what a transaction read true until it commits.
LEMMA PaidStep ==
  ASSUME Rows, LocksAreDisjoint, ClaimsArePaid, [Next]_vars
  PROVE  ClaimsArePaid'
<1> USE DEF Rows, Label, CallState, Idle, LocksAreDisjoint, InTransaction, Unlocked, At, ClaimsArePaid, Owed, OwedSet, moneyVars, profileVars
<1>1. ASSUME NEW c \in Caller, NEW p \in Penalty, PayPenalty(c, p) PROVE ClaimsArePaid'
  BY <1>1 DEF PayPenalty, At, Goto, Proceed, Return
<1>2. ASSUME NEW c \in Caller, CommitPayPenalty(c) PROVE ClaimsArePaid'
  BY <1>2 DEF CommitPayPenalty, At, Goto, Proceed, Return, MarkPaid, Claim, Charge, Plus
<1>3. ASSUME NEW c \in Caller, ListUnpaid(c) PROVE ClaimsArePaid'
  BY <1>3 DEF ListUnpaid, At, Goto, Proceed, Return
<1>4. ASSUME NEW c \in Caller, DebitAll(c) PROVE ClaimsArePaid'
  BY <1>4 DEF DebitAll, At, Goto, Proceed, Return, Charge, Plus
<1>5. ASSUME NEW c \in Caller, SettleAll(c) PROVE ClaimsArePaid'
  BY <1>5 DEF SettleAll, At, Goto, Proceed, Return
<1>6. ASSUME NEW c \in Caller, CommitSettleAll(c) PROVE ClaimsArePaid'
  BY <1>6 DEF CommitSettleAll, At, Goto, Proceed, Return, MarkPaid
<1>7. ASSUME NEW c \in Caller, PriceRequest(c) PROVE ClaimsArePaid'
  BY <1>7 DEF PriceRequest, At, Goto, Proceed, Return
<1>8. ASSUME NEW c \in Caller, StartPayment(c) PROVE ClaimsArePaid'
  BY <1>8, SMTT(40) DEF StartPayment, At, Goto, Proceed, Return
<1>9. ASSUME NEW c \in Caller, CollectPayment(c) PROVE ClaimsArePaid'
  BY <1>9 DEF CollectPayment, At, Goto, Proceed, Return, Charge, Plus
<1>10. ASSUME NEW c \in Caller, SettlePriced(c) PROVE ClaimsArePaid'
  BY <1>10 DEF SettlePriced, At, Goto, Proceed, Return, PricedPenalties
<1>11. ASSUME NEW c \in Caller, CommitSettlePriced(c) PROVE ClaimsArePaid'
  BY <1>11 DEF CommitSettlePriced, WaivedBy, At, Return, MarkPaid
<1>12. ASSUME NEW c \in Caller, ReportPaid(c) PROVE ClaimsArePaid'
  BY <1>12 DEF ReportPaid, At, Goto, Proceed, Return, MarkPaid, OwedSet
<1>13. ASSUME NEW c \in Caller, CountRemaining(c) PROVE ClaimsArePaid'
  BY <1>13, SMTT(40) DEF CountRemaining, At, Goto, Proceed, Return
<1>14. ASSUME NEW c \in Caller, Reactivate(c) PROVE ClaimsArePaid'
  BY <1>14 DEF Reactivate, At, Goto, Proceed, Return
<1>15. ASSUME NEW c \in Caller, NEW p \in Penalty, StartConfirm(c, p) PROVE ClaimsArePaid'
  BY <1>15 DEF StartConfirm, At, Goto, Proceed, Return
<1>16. ASSUME NEW c \in Caller, NEW p \in Penalty, CreatePenalty(c, p) PROVE ClaimsArePaid'
  BY <1>16 DEF CreatePenalty, At, Goto, Proceed, Return
<1>17. ASSUME NEW c \in Caller, Confirm(c) PROVE ClaimsArePaid'
  BY <1>17 DEF Confirm, At, Goto, Proceed, Return, MarkPaid, Claim, Charge, Plus
<1>18. ASSUME NEW c \in Caller, CountForResync(c) PROVE ClaimsArePaid'
  BY <1>18 DEF CountForResync, At, Goto, Proceed, Return
<1>19. ASSUME NEW c \in Caller, WriteResync(c) PROVE ClaimsArePaid'
  BY <1>19 DEF WriteResync, At, Goto, Proceed, Return
<1>20. ASSUME NEW c \in Caller, FlagCreated(c) PROVE ClaimsArePaid'
  BY <1>20 DEF FlagCreated, At, Goto, Proceed, Return
<1>21. ASSUME NEW c \in Caller, StartArchive(c) PROVE ClaimsArePaid'
  BY <1>21 DEF StartArchive, At, Goto, Proceed, Return
<1>22. ASSUME NEW c \in Caller, Archive(c) PROVE ClaimsArePaid'
  BY <1>22 DEF Archive, At, Goto, Proceed, Return
<1>23. ASSUME NEW c \in Caller, Restore(c) PROVE ClaimsArePaid'
  BY <1>23 DEF Restore, At, Goto, Proceed, Return
<1>24. ASSUME NEW c \in Caller, NEW p \in Penalty, Penalise(c, p) PROVE ClaimsArePaid'
  BY <1>24 DEF Penalise, At, Goto, Proceed, Return
<1>25. ASSUME NEW c \in Caller, CommitPenalise(c) PROVE ClaimsArePaid'
  BY <1>25 DEF CommitPenalise, At, Goto, Proceed, Return
<1>26. ASSUME NEW c \in Caller, CountForSuspension(c) PROVE ClaimsArePaid'
  BY <1>26, SMTT(40) DEF CountForSuspension, At, Goto, Proceed, Return
<1>27. ASSUME NEW c \in Caller, Suspend(c) PROVE ClaimsArePaid'
  BY <1>27 DEF Suspend, At, Goto, Proceed, Return
<1>28. ASSUME NEW c \in Caller, Interrupt(c) PROVE ClaimsArePaid'
  BY <1>28 DEF Interrupt, At, Goto, Proceed, Return
<1>30. ASSUME NEW c \in Caller, PriceWithoutIds(c) PROVE ClaimsArePaid'
  BY <1>30 DEF PriceWithoutIds, At, Goto, Proceed, Return
<1>31. ASSUME NEW c \in Caller, PayOutside(c) PROVE ClaimsArePaid'
  BY <1>31 DEF PayOutside, At, Goto, Proceed, Return, Charge, Plus
<1>29. ASSUME UNCHANGED vars PROVE ClaimsArePaid'
  BY <1>29 DEF vars
<1> QED
  BY <1>1, <1>2, <1>3, <1>4, <1>5, <1>6, <1>7, <1>8, <1>9, <1>10, <1>11,
     <1>12, <1>13, <1>14, <1>15, <1>16, <1>17, <1>18, <1>19, <1>20, <1>21,
     <1>22, <1>23, <1>24, <1>25, <1>26, <1>27, <1>28, <1>29, <1>30, <1>31
     DEF Next, WalletStep, GatewayStep, AdminStep, CancelStep

\* A claim hits an unpaid row, and leaves it paid.
LEMMA ClaimedStep ==
  ASSUME Rows, LocksAreDisjoint, ClaimsArePaid, ClaimedOnce, [Next]_vars
  PROVE  ClaimedOnce'
<1> USE DEF Rows, Label, CallState, Idle, LocksAreDisjoint, InTransaction, Unlocked, At, ClaimsArePaid, Owed, OwedSet, ClaimedOnce, moneyVars, profileVars
<1>1. ASSUME NEW c \in Caller, NEW p \in Penalty, PayPenalty(c, p) PROVE ClaimedOnce'
  BY <1>1 DEF PayPenalty, At, Goto, Proceed, Return
<1>2. ASSUME NEW c \in Caller, CommitPayPenalty(c) PROVE ClaimedOnce'
  BY <1>2 DEF CommitPayPenalty, At, Goto, Proceed, Return, MarkPaid, Claim, Charge, Plus
<1>3. ASSUME NEW c \in Caller, ListUnpaid(c) PROVE ClaimedOnce'
  BY <1>3 DEF ListUnpaid, At, Goto, Proceed, Return
<1>4. ASSUME NEW c \in Caller, DebitAll(c) PROVE ClaimedOnce'
  BY <1>4 DEF DebitAll, At, Goto, Proceed, Return, Charge, Plus
<1>5. ASSUME NEW c \in Caller, SettleAll(c) PROVE ClaimedOnce'
  BY <1>5 DEF SettleAll, At, Goto, Proceed, Return
<1>6. ASSUME NEW c \in Caller, CommitSettleAll(c) PROVE ClaimedOnce'
  BY <1>6 DEF CommitSettleAll, At, Goto, Proceed, Return, MarkPaid
<1>7. ASSUME NEW c \in Caller, PriceRequest(c) PROVE ClaimedOnce'
  BY <1>7 DEF PriceRequest, At, Goto, Proceed, Return
<1>8. ASSUME NEW c \in Caller, StartPayment(c) PROVE ClaimedOnce'
  BY <1>8 DEF StartPayment, At, Goto, Proceed, Return
<1>9. ASSUME NEW c \in Caller, CollectPayment(c) PROVE ClaimedOnce'
  BY <1>9 DEF CollectPayment, At, Goto, Proceed, Return, Charge, Plus
<1>10. ASSUME NEW c \in Caller, SettlePriced(c) PROVE ClaimedOnce'
  BY <1>10 DEF SettlePriced, At, Goto, Proceed, Return, PricedPenalties
<1>11. ASSUME NEW c \in Caller, CommitSettlePriced(c) PROVE ClaimedOnce'
  BY <1>11 DEF CommitSettlePriced, WaivedBy, At, Return, MarkPaid
<1>12. ASSUME NEW c \in Caller, ReportPaid(c) PROVE ClaimedOnce'
  BY <1>12 DEF ReportPaid, At, Goto, Proceed, Return, MarkPaid, OwedSet
<1>13. ASSUME NEW c \in Caller, CountRemaining(c) PROVE ClaimedOnce'
  BY <1>13 DEF CountRemaining, At, Goto, Proceed, Return
<1>14. ASSUME NEW c \in Caller, Reactivate(c) PROVE ClaimedOnce'
  BY <1>14 DEF Reactivate, At, Goto, Proceed, Return
<1>15. ASSUME NEW c \in Caller, NEW p \in Penalty, StartConfirm(c, p) PROVE ClaimedOnce'
  BY <1>15 DEF StartConfirm, At, Goto, Proceed, Return
<1>16. ASSUME NEW c \in Caller, NEW p \in Penalty, CreatePenalty(c, p) PROVE ClaimedOnce'
  BY <1>16 DEF CreatePenalty, At, Goto, Proceed, Return
<1>17. ASSUME NEW c \in Caller, Confirm(c) PROVE ClaimedOnce'
  BY <1>17 DEF Confirm, At, Goto, Proceed, Return, MarkPaid, Claim, Charge, Plus
<1>18. ASSUME NEW c \in Caller, CountForResync(c) PROVE ClaimedOnce'
  BY <1>18 DEF CountForResync, At, Goto, Proceed, Return
<1>19. ASSUME NEW c \in Caller, WriteResync(c) PROVE ClaimedOnce'
  BY <1>19 DEF WriteResync, At, Goto, Proceed, Return
<1>20. ASSUME NEW c \in Caller, FlagCreated(c) PROVE ClaimedOnce'
  BY <1>20 DEF FlagCreated, At, Goto, Proceed, Return
<1>21. ASSUME NEW c \in Caller, StartArchive(c) PROVE ClaimedOnce'
  BY <1>21 DEF StartArchive, At, Goto, Proceed, Return
<1>22. ASSUME NEW c \in Caller, Archive(c) PROVE ClaimedOnce'
  BY <1>22 DEF Archive, At, Goto, Proceed, Return
<1>23. ASSUME NEW c \in Caller, Restore(c) PROVE ClaimedOnce'
  BY <1>23 DEF Restore, At, Goto, Proceed, Return
<1>24. ASSUME NEW c \in Caller, NEW p \in Penalty, Penalise(c, p) PROVE ClaimedOnce'
  BY <1>24 DEF Penalise, At, Goto, Proceed, Return
<1>25. ASSUME NEW c \in Caller, CommitPenalise(c) PROVE ClaimedOnce'
  BY <1>25 DEF CommitPenalise, At, Goto, Proceed, Return
<1>26. ASSUME NEW c \in Caller, CountForSuspension(c) PROVE ClaimedOnce'
  BY <1>26 DEF CountForSuspension, At, Goto, Proceed, Return
<1>27. ASSUME NEW c \in Caller, Suspend(c) PROVE ClaimedOnce'
  BY <1>27 DEF Suspend, At, Goto, Proceed, Return
<1>28. ASSUME NEW c \in Caller, Interrupt(c) PROVE ClaimedOnce'
  BY <1>28 DEF Interrupt, At, Goto, Proceed, Return
<1>30. ASSUME NEW c \in Caller, PriceWithoutIds(c) PROVE ClaimedOnce'
  BY <1>30 DEF PriceWithoutIds, At, Goto, Proceed, Return
<1>31. ASSUME NEW c \in Caller, PayOutside(c) PROVE ClaimedOnce'
  BY <1>31 DEF PayOutside, At, Goto, Proceed, Return, Charge, Plus
<1>29. ASSUME UNCHANGED vars PROVE ClaimedOnce'
  BY <1>29 DEF vars
<1> QED
  BY <1>1, <1>2, <1>3, <1>4, <1>5, <1>6, <1>7, <1>8, <1>9, <1>10, <1>11,
     <1>12, <1>13, <1>14, <1>15, <1>16, <1>17, <1>18, <1>19, <1>20, <1>21,
     <1>22, <1>23, <1>24, <1>25, <1>26, <1>27, <1>28, <1>29, <1>30, <1>31
     DEF Next, WalletStep, GatewayStep, AdminStep, CancelStep

\* The guards of payPenaltyFromWallet and confirmPenaltyPaymentManually: whatever
\* calls race, a penalty is booked by at most one of them.
THEOREM PenaltiesClaimedOnce == Spec => []ClaimedOnce
<1> DEFINE I == Rows /\ LocksAreDisjoint /\ ClaimsArePaid /\ ClaimedOnce
<1>1. Init => I
  BY DEF Init, Rows, CallState, Label, Idle, LocksAreDisjoint, InTransaction,
         ClaimsArePaid, ClaimedOnce, At
<1>2. I /\ [Next]_vars => I'
  BY RowsStep, LocksStep, PaidStep, ClaimedStep
<1>3. I => ClaimedOnce
  OBVIOUS
<1> QED
  BY <1>1, <1>2, <1>3, PTL DEF Spec

----------------------------------------------------------------------------
(* Totals: what a fold of the library computes, by induction over the set. *)
\* Induction over a finite set: of its subsets with a property, one is smallest.
LEMMA Smallest ==
  ASSUME NEW S, IsFiniteSet(S), NEW B \in SUBSET SUBSET S, B # {}
  PROVE  \E T \in B : \A U \in B : U \subseteq T => U = T
<1> DEFINE R == StrictSubsetOrdering(S)
<1>1. IsWellFoundedOn(R, SUBSET S)
  BY FS_StrictSubsetOrderingWellFounded, FS_FiniteSubsetsOfFinite
<1>2. \E T \in B : \A U \in B : <<U, T>> \notin R
  <2> HIDE DEF R
  <2> QED BY <1>1, WFMin
<1> QED
  BY <1>2 DEF StrictSubsetOrdering

\* The francs that penalties cost, one by one.
Francs(S) == {f \in S \X Nat : f[2] \in 1 .. Amount[f[1]]}

\* Taking a penalty out of a set takes out its francs.
LEMMA FrancsOfOne ==
  ASSUME NEW S \in SUBSET Penalty, NEW x \in S
  PROVE  /\ IsFiniteSet(Francs(S \ {x})) => IsFiniteSet(Francs(S))
         /\ IsFiniteSet(Francs(S \ {x})) =>
              Cardinality(Francs(S)) = Amount[x] + Cardinality(Francs(S \ {x}))
<1> DEFINE One == {x} \X (1 .. Amount[x])
           Rest == Francs(S \ {x})
<1>1. Amount[x] \in Nat
  BY PenaltyAssumption
<1>2. Francs(S) = Rest \cup One /\ Rest \cap One = {}
  BY <1>1 DEF Francs
<1>3. IsFiniteSet(1 .. Amount[x]) /\ Cardinality(1 .. Amount[x]) = Amount[x]
  <2> DEFINE n == Amount[x]
  <2>1. n \in Nat
    BY <1>1
  <2> HIDE DEF n
  <2>2. IsFiniteSet(1 .. n) /\ Cardinality(1 .. n) = n
    BY <2>1, FS_Interval
  <2> QED
    BY <2>2 DEF n
<1>4. IsFiniteSet({x}) /\ Cardinality({x}) = 1
  BY FS_Singleton
<1>5. IsFiniteSet(One) /\ Cardinality(One) = Amount[x]
  <2>1. IsFiniteSet(One) /\ Cardinality(One) = Cardinality({x}) * Cardinality(1 .. Amount[x])
    BY <1>3, <1>4, FS_Product
  <2> QED
    BY <2>1, <1>1, <1>3, <1>4
<1> SUFFICES ASSUME IsFiniteSet(Rest)
             PROVE  /\ IsFiniteSet(Francs(S))
                    /\ Cardinality(Francs(S)) = Amount[x] + Cardinality(Rest)
  OBVIOUS
<1> HIDE DEF One, Rest
<1>6. /\ IsFiniteSet(Rest \cup One)
      /\ Cardinality(Rest \cup One) = Cardinality(Rest) + Cardinality(One) - Cardinality(Rest \cap One)
  BY <1>5, FS_Union
<1>7. Cardinality(Rest \cap One) = 0 /\ Cardinality(Rest) \in Nat
  BY <1>2, FS_EmptySet, FS_CardinalityType
<1> QED
  BY <1>1, <1>2, <1>5, <1>6, <1>7

\* Finitely many francs, then.
LEMMA FrancsAreFinite ==
  ASSUME NEW S \in SUBSET Penalty
  PROVE  IsFiniteSet(Francs(S)) /\ Cardinality(Francs(S)) \in Nat
<1> DEFINE B == {T \in SUBSET Penalty : ~IsFiniteSet(Francs(T))}
<1>1. IsFiniteSet(Francs(S))
  <2> SUFFICES ASSUME B # {} PROVE FALSE
    OBVIOUS
  <2>1. PICK T \in B : \A U \in B : U \subseteq T => U = T
    <3> HIDE DEF B
    <3>1. B \in SUBSET SUBSET Penalty
      BY DEF B
    <3> QED BY <3>1, PenaltyAssumption, Smallest
  <2>2. CASE T = {}
    BY <2>1, <2>2, FS_EmptySet DEF Francs
  <2>3. CASE T # {}
    <3>1. PICK x \in T : TRUE
      BY <2>3
    <3>2. IsFiniteSet(Francs(T \ {x}))
      BY <2>1, <3>1
    <3> QED
      BY <2>1, <3>1, <3>2, FrancsOfOne
  <2> QED
    BY <2>2, <2>3
<1> QED
  BY <1>1, FS_CardinalityType

\* What the library computes: a function defined by recursion over the subsets of S.
Pick(s) == CHOOSE x \in s : TRUE
SumStep(S, g) ==
  [s \in SUBSET S |-> IF s = {} THEN 0 ELSE Amount[Pick(s)] + g[s \ {Pick(s)}]]
SumFcn(S) == CHOOSE g : g = SumStep(S, g)

\* That is how the module's totals unfold.
LEMMA TotalIsFold == ASSUME NEW S PROVE Total(S) = SumFcn(S)[S]
  BY SMT DEF Total, MapThenSumSet, MapThenFoldSet, SumFcn, SumStep, Pick

\* A total is a number of francs.
LEMMA TotalCountsFrancs ==
  ASSUME NEW S \in SUBSET Penalty
  PROVE  Total(S) = Cardinality(Francs(S)) /\ Total(S) \in Nat
<1> DEFINE h == [s \in SUBSET S |-> Cardinality(Francs(s))]
           g == SumFcn(S)
           B == {s \in SUBSET S : g[s] # Cardinality(Francs(s))}
<1>1. ASSUME NEW s \in SUBSET S, s # {}
      PROVE  Pick(s) \in s
  BY <1>1 DEF Pick
<1>2. h = SumStep(S, h)
  <2>1. ASSUME NEW s \in SUBSET S
        PROVE  h[s] = IF s = {} THEN 0 ELSE Amount[Pick(s)] + h[s \ {Pick(s)}]
    <3>1. CASE s = {}
      <4>1. Francs({}) = {}
        BY DEF Francs
      <4> QED BY <3>1, <4>1, FS_EmptySet
    <3>2. CASE s # {}
      <4>1. Pick(s) \in s /\ s \ {Pick(s)} \in SUBSET Penalty /\ s \in SUBSET Penalty
        BY <1>1, <3>2
      <4> QED BY <3>2, <4>1, FrancsOfOne, FrancsAreFinite
    <3> QED BY <3>1, <3>2
  <2> QED
    BY <2>1 DEF SumStep
<1>3. g = SumStep(S, g)
  BY <1>2 DEF SumFcn
<1>4. B = {}
  <2> SUFFICES ASSUME B # {} PROVE FALSE
    OBVIOUS
  <2>1. IsFiniteSet(S)
    BY PenaltyAssumption, FS_Subset
  <2>2. PICK s \in B : \A u \in B : u \subseteq s => u = s
    <3> HIDE DEF B
    <3>1. B \in SUBSET SUBSET S
      BY DEF B
    <3> QED BY <2>1, <3>1, Smallest
  <2> HIDE DEF g
  <2>3. g[s] = IF s = {} THEN 0 ELSE Amount[Pick(s)] + g[s \ {Pick(s)}]
    BY <1>3, <2>2 DEF SumStep
  <2>4. CASE s = {}
    <3>1. Francs({}) = {}
      BY DEF Francs
    <3> QED BY <2>2, <2>3, <2>4, <3>1, FS_EmptySet
  <2>5. CASE s # {}
    <3>1. Pick(s) \in s
      BY <1>1, <2>2, <2>5
    <3>2. g[s \ {Pick(s)}] = Cardinality(Francs(s \ {Pick(s)}))
      BY <2>2, <3>1
    <3>3. s \in SUBSET Penalty /\ s \ {Pick(s)} \in SUBSET Penalty
      BY <2>2
    <3> QED BY <2>2, <2>3, <2>5, <3>1, <3>2, <3>3, FrancsOfOne, FrancsAreFinite
  <2> QED
    BY <2>4, <2>5
<1>5. g[S] = Cardinality(Francs(S))
  BY <1>4
<1> QED
  BY <1>5, TotalIsFold, FrancsAreFinite

\* The total of one penalty is its amount.
LEMMA TotalOfOne == ASSUME NEW p \in Penalty PROVE Total({p}) = Amount[p]
<1>1. Total({p}) = Cardinality(Francs({p}))
  BY TotalCountsFrancs
<1>2. {p} \ {p} = {} /\ Francs({}) = {}
  BY DEF Francs
<1>3. Cardinality(Francs({p})) = Amount[p] + Cardinality(Francs({p} \ {p}))
  BY FrancsOfOne, FrancsAreFinite
<1> QED
  BY <1>1, <1>2, <1>3, FS_EmptySet, PenaltyAssumption

----------------------------------------------------------------------------
(* Types: no balance is overdrawn. *)
\* The rest of the type invariant but for the balances.
Marks ==
  /\ archived \in SUBSET Penalty /\ waived \in SUBSET Penalty
  /\ billing \in Billing
  /\ account \in {"ACTIVE", "SUSPENDED"}
  /\ interruptions \in 0 .. MaxInterruptions

\* Balances are never overdrawn: the one transaction that pays from the wallet
\* holds its lock from the check on, so the money is still there when it commits.
Funds ==
  /\ wallet \in Nat /\ phone \in Nat
  /\ \A c \in Caller : At(c, "paying") => wallet >= Total(call[c].penalties)
  /\ \A c, d \in Caller : At(c, "paying") /\ At(d, "paying") => c = d

\* Every step keeps the marks in their types.
LEMMA MarksStep ==
  ASSUME Rows, Marks, [Next]_vars
  PROVE  Marks'
<1> USE PenaltyAssumption DEF Rows, Label, CallState, Idle, Marks, Billing, BillingFor, ResyncFor, moneyVars, profileVars
<1>1. ASSUME NEW c \in Caller, NEW p \in Penalty, PayPenalty(c, p) PROVE Marks'
  BY <1>1 DEF PayPenalty, At, Goto, Proceed, Return
<1>2. ASSUME NEW c \in Caller, CommitPayPenalty(c) PROVE Marks'
  BY <1>2 DEF CommitPayPenalty, At, Goto, Proceed, Return, MarkPaid, Claim, Charge, Plus
<1>3. ASSUME NEW c \in Caller, ListUnpaid(c) PROVE Marks'
  BY <1>3 DEF ListUnpaid, At, Goto, Proceed, Return
<1>4. ASSUME NEW c \in Caller, DebitAll(c) PROVE Marks'
  BY <1>4 DEF DebitAll, At, Goto, Proceed, Return, Charge, Plus
<1>5. ASSUME NEW c \in Caller, SettleAll(c) PROVE Marks'
  BY <1>5 DEF SettleAll, At, Goto, Proceed, Return
<1>6. ASSUME NEW c \in Caller, CommitSettleAll(c) PROVE Marks'
  BY <1>6 DEF CommitSettleAll, At, Goto, Proceed, Return, MarkPaid
<1>7. ASSUME NEW c \in Caller, PriceRequest(c) PROVE Marks'
  BY <1>7 DEF PriceRequest, At, Goto, Proceed, Return
<1>8. ASSUME NEW c \in Caller, StartPayment(c) PROVE Marks'
  BY <1>8 DEF StartPayment, At, Goto, Proceed, Return
<1>9. ASSUME NEW c \in Caller, CollectPayment(c) PROVE Marks'
  BY <1>9 DEF CollectPayment, At, Goto, Proceed, Return, Charge, Plus
<1>10. ASSUME NEW c \in Caller, SettlePriced(c) PROVE Marks'
  BY <1>10 DEF SettlePriced, At, Goto, Proceed, Return, PricedPenalties
<1>11. ASSUME NEW c \in Caller, CommitSettlePriced(c) PROVE Marks'
  BY <1>11 DEF CommitSettlePriced, WaivedBy, At, Return, MarkPaid
<1>12. ASSUME NEW c \in Caller, ReportPaid(c) PROVE Marks'
  BY <1>12 DEF ReportPaid, At, Goto, Proceed, Return, MarkPaid, OwedSet
<1>13. ASSUME NEW c \in Caller, CountRemaining(c) PROVE Marks'
  BY <1>13 DEF CountRemaining, At, Goto, Proceed, Return
<1>14. ASSUME NEW c \in Caller, Reactivate(c) PROVE Marks'
  BY <1>14 DEF Reactivate, At, Goto, Proceed, Return
<1>15. ASSUME NEW c \in Caller, NEW p \in Penalty, StartConfirm(c, p) PROVE Marks'
  BY <1>15 DEF StartConfirm, At, Goto, Proceed, Return
<1>16. ASSUME NEW c \in Caller, NEW p \in Penalty, CreatePenalty(c, p) PROVE Marks'
  BY <1>16 DEF CreatePenalty, At, Goto, Proceed, Return
<1>17. ASSUME NEW c \in Caller, Confirm(c) PROVE Marks'
  BY <1>17 DEF Confirm, At, Goto, Proceed, Return, MarkPaid, Claim, Charge, Plus
<1>18. ASSUME NEW c \in Caller, CountForResync(c) PROVE Marks'
  BY <1>18 DEF CountForResync, At, Goto, Proceed, Return
<1>19. ASSUME NEW c \in Caller, WriteResync(c) PROVE Marks'
  BY <1>19 DEF WriteResync, At, Goto, Proceed, Return
<1>20. ASSUME NEW c \in Caller, FlagCreated(c) PROVE Marks'
  BY <1>20 DEF FlagCreated, At, Goto, Proceed, Return
<1>21. ASSUME NEW c \in Caller, StartArchive(c) PROVE Marks'
  BY <1>21 DEF StartArchive, At, Goto, Proceed, Return
<1>22. ASSUME NEW c \in Caller, Archive(c) PROVE Marks'
  BY <1>22 DEF Archive, At, Goto, Proceed, Return
<1>23. ASSUME NEW c \in Caller, Restore(c) PROVE Marks'
  BY <1>23 DEF Restore, At, Goto, Proceed, Return
<1>24. ASSUME NEW c \in Caller, NEW p \in Penalty, Penalise(c, p) PROVE Marks'
  BY <1>24 DEF Penalise, At, Goto, Proceed, Return
<1>25. ASSUME NEW c \in Caller, CommitPenalise(c) PROVE Marks'
  BY <1>25 DEF CommitPenalise, At, Goto, Proceed, Return
<1>26. ASSUME NEW c \in Caller, CountForSuspension(c) PROVE Marks'
  BY <1>26 DEF CountForSuspension, At, Goto, Proceed, Return
<1>27. ASSUME NEW c \in Caller, Suspend(c) PROVE Marks'
  BY <1>27 DEF Suspend, At, Goto, Proceed, Return
<1>28. ASSUME NEW c \in Caller, Interrupt(c) PROVE Marks'
  BY <1>28 DEF Interrupt, At, Goto, Proceed, Return
<1>30. ASSUME NEW c \in Caller, PriceWithoutIds(c) PROVE Marks'
  BY <1>30 DEF PriceWithoutIds, At, Goto, Proceed, Return
<1>31. ASSUME NEW c \in Caller, PayOutside(c) PROVE Marks'
  BY <1>31 DEF PayOutside, At, Goto, Proceed, Return, Charge, Plus
<1>29. ASSUME UNCHANGED vars PROVE Marks'
  BY <1>29 DEF vars
<1> QED
  BY <1>1, <1>2, <1>3, <1>4, <1>5, <1>6, <1>7, <1>8, <1>9, <1>10, <1>11,
     <1>12, <1>13, <1>14, <1>15, <1>16, <1>17, <1>18, <1>19, <1>20, <1>21,
     <1>22, <1>23, <1>24, <1>25, <1>26, <1>27, <1>28, <1>29, <1>30, <1>31
     DEF Next, WalletStep, GatewayStep, AdminStep, CancelStep

\* Every debit is covered when it commits.
LEMMA FundsStep ==
  ASSUME Rows, Funds, [Next]_vars
  PROVE  Funds'
<1> USE DEF Rows, Label, CallState, Idle, Funds, At, moneyVars, profileVars
<1>1. ASSUME NEW c \in Caller, NEW p \in Penalty, PayPenalty(c, p) PROVE Funds'
  <2>1. Total({p}) = Amount[p]
    BY TotalOfOne
  <2> QED
    BY <1>1, <2>1 DEF PayPenalty, At, Goto, Proceed, WalletUnlocked
<1>2. ASSUME NEW c \in Caller, CommitPayPenalty(c) PROVE Funds'
  <2>1. Total(call[c].penalties) \in Nat /\ wallet >= Total(call[c].penalties)
    BY <1>2, TotalCountsFrancs DEF CommitPayPenalty
  <2>2. wallet' \in Nat /\ phone' = phone
    BY <1>2, <2>1 DEF CommitPayPenalty
  <2>3. \A d \in Caller : ~At(d, "paying")'
    BY <1>2 DEF CommitPayPenalty, Return
  <2> QED
    BY <2>2, <2>3
<1>3. ASSUME NEW c \in Caller, ListUnpaid(c) PROVE Funds'
  BY <1>3 DEF ListUnpaid, At, Goto, Proceed, Return
<1>4. ASSUME NEW c \in Caller, DebitAll(c) PROVE Funds'
  <2>1. Total(call[c].penalties) \in Nat
    BY TotalCountsFrancs
  <2>2. wallet' \in Nat /\ phone' = phone
    BY <1>4, <2>1 DEF DebitAll
  <2>3. \A d \in Caller : ~At(d, "paying")'
    BY <1>4 DEF DebitAll, Goto, Proceed, Return, WalletUnlocked
  <2> QED
    BY <2>2, <2>3
<1>5. ASSUME NEW c \in Caller, SettleAll(c) PROVE Funds'
  BY <1>5 DEF SettleAll, At, Goto, Proceed, Return
<1>6. ASSUME NEW c \in Caller, CommitSettleAll(c) PROVE Funds'
  BY <1>6 DEF CommitSettleAll, At, Goto, Proceed, Return, MarkPaid
<1>7. ASSUME NEW c \in Caller, PriceRequest(c) PROVE Funds'
  BY <1>7 DEF PriceRequest, At, Goto, Proceed, Return
<1>8. ASSUME NEW c \in Caller, StartPayment(c) PROVE Funds'
  BY <1>8 DEF StartPayment, At, Goto, Proceed, Return
<1>9. ASSUME NEW c \in Caller, CollectPayment(c) PROVE Funds'
  <2>1. Total(call[c].penalties) \in Nat
    BY TotalCountsFrancs
  <2>2. phone' \in Nat /\ wallet' = wallet
    BY <1>9, <2>1 DEF CollectPayment
  <2> QED
    BY <1>9, <2>2 DEF CollectPayment, Goto, Proceed, Return
<1>10. ASSUME NEW c \in Caller, SettlePriced(c) PROVE Funds'
  BY <1>10 DEF SettlePriced, At, Goto, Proceed, Return, PricedPenalties
<1>11. ASSUME NEW c \in Caller, CommitSettlePriced(c) PROVE Funds'
  BY <1>11 DEF CommitSettlePriced, WaivedBy, At, Return, MarkPaid
<1>12. ASSUME NEW c \in Caller, ReportPaid(c) PROVE Funds'
  BY <1>12 DEF ReportPaid, At, Goto, Proceed, Return, MarkPaid, OwedSet
<1>13. ASSUME NEW c \in Caller, CountRemaining(c) PROVE Funds'
  BY <1>13 DEF CountRemaining, At, Goto, Proceed, Return
<1>14. ASSUME NEW c \in Caller, Reactivate(c) PROVE Funds'
  BY <1>14 DEF Reactivate, At, Goto, Proceed, Return
<1>15. ASSUME NEW c \in Caller, NEW p \in Penalty, StartConfirm(c, p) PROVE Funds'
  BY <1>15 DEF StartConfirm, At, Goto, Proceed, Return
<1>16. ASSUME NEW c \in Caller, NEW p \in Penalty, CreatePenalty(c, p) PROVE Funds'
  BY <1>16 DEF CreatePenalty, At, Goto, Proceed, Return
<1>17. ASSUME NEW c \in Caller, Confirm(c) PROVE Funds'
  BY <1>17 DEF Confirm, At, Goto, Proceed, Return, MarkPaid, Claim, Charge, Plus
<1>18. ASSUME NEW c \in Caller, CountForResync(c) PROVE Funds'
  BY <1>18 DEF CountForResync, At, Goto, Proceed, Return
<1>19. ASSUME NEW c \in Caller, WriteResync(c) PROVE Funds'
  BY <1>19 DEF WriteResync, At, Goto, Proceed, Return
<1>20. ASSUME NEW c \in Caller, FlagCreated(c) PROVE Funds'
  BY <1>20 DEF FlagCreated, At, Goto, Proceed, Return
<1>21. ASSUME NEW c \in Caller, StartArchive(c) PROVE Funds'
  BY <1>21 DEF StartArchive, At, Goto, Proceed, Return
<1>22. ASSUME NEW c \in Caller, Archive(c) PROVE Funds'
  BY <1>22 DEF Archive, At, Goto, Proceed, Return
<1>23. ASSUME NEW c \in Caller, Restore(c) PROVE Funds'
  BY <1>23 DEF Restore, At, Goto, Proceed, Return
<1>24. ASSUME NEW c \in Caller, NEW p \in Penalty, Penalise(c, p) PROVE Funds'
  BY <1>24 DEF Penalise, At, Goto, Proceed, Return
<1>25. ASSUME NEW c \in Caller, CommitPenalise(c) PROVE Funds'
  BY <1>25 DEF CommitPenalise, At, Goto, Proceed, Return
<1>26. ASSUME NEW c \in Caller, CountForSuspension(c) PROVE Funds'
  BY <1>26 DEF CountForSuspension, At, Goto, Proceed, Return
<1>27. ASSUME NEW c \in Caller, Suspend(c) PROVE Funds'
  BY <1>27 DEF Suspend, At, Goto, Proceed, Return
<1>28. ASSUME NEW c \in Caller, Interrupt(c) PROVE Funds'
  BY <1>28 DEF Interrupt, At, Goto, Proceed, Return
<1>30. ASSUME NEW c \in Caller, PriceWithoutIds(c) PROVE Funds'
  BY <1>30 DEF PriceWithoutIds, At, Goto, Proceed, Return
<1>31. ASSUME NEW c \in Caller, PayOutside(c) PROVE Funds'
  <2>1. Total(OwedSet) \in Nat
    BY TotalCountsFrancs, OwedIsSubset
  <2>2. phone' \in Nat /\ wallet' = wallet
    BY <1>31, <2>1 DEF PayOutside
  <2> QED
    BY <1>31, <2>2 DEF PayOutside, Goto, Proceed, Return
<1>29. ASSUME UNCHANGED vars PROVE Funds'
  BY <1>29 DEF vars
<1> QED
  BY <1>1, <1>2, <1>3, <1>4, <1>5, <1>6, <1>7, <1>8, <1>9, <1>10, <1>11,
     <1>12, <1>13, <1>14, <1>15, <1>16, <1>17, <1>18, <1>19, <1>20, <1>21,
     <1>22, <1>23, <1>24, <1>25, <1>26, <1>27, <1>28, <1>29, <1>30, <1>31
     DEF Next, WalletStep, GatewayStep, AdminStep, CancelStep

\* Rows, marks, balances and calls hold values of their types: in particular no
\* wallet and no phone is ever overdrawn, whatever payments race.
THEOREM PenaltyTypes == Spec => []TypeOK
<1> DEFINE I == Rows /\ Marks /\ Funds
<1>1. Init => I
  BY PenaltyAssumption DEF Init, Rows, Marks, Funds, CallState, Label, Idle, Billing, At
<1>2. I /\ [Next]_vars => I'
  BY RowsStep, MarksStep, FundsStep
<1>3. I => TypeOK
  BY DEF Rows, Marks, Funds, TypeOK
<1> QED
  BY <1>1, <1>2, <1>3, PTL DEF Spec

----------------------------------------------------------------------------
(* Calls one after another. *)
\* Calls run one after another, and to their end.
InTurn ==
  /\ interruptions = 0
  /\ \A c, d \in Caller : ~At(c, "idle") /\ ~At(d, "idle") => c = d

\* The operations that recompute the status with the threshold: the wallet, the
\* payment links and the late cancellations.
RecomputeOnly ==
  Operations \subseteq {"payPenalty", "payAll", "gateway", "oldLink", "cancel"}

\* Nothing that adds to the debt but a late cancellation.
NoneCreated == Operations \cap {"create", "restore"} = {}

\* What an open transaction has counted is what will be owed once it commits.
CountTells(c) ==
  /\ call[c].pc \in {"paying", "settlingAll", "settlingPriced"} =>
       call[c].unpaid = Cardinality(OwedSet \ call[c].penalties)
  /\ call[c].pc = "penalising" =>
       call[c].unpaid = Cardinality(OwedSet \cup call[c].penalties)
  /\ call[c].pc \notin
       {"confirming", "archiving", "resyncing", "resynced", "created",
        "paidOutside", "reported", "reactivating"}

\* The status follows the debt at every step, not only between calls.
Follows ==
  /\ archived = {}
  /\ billing = BillingFor(Cardinality(OwedSet))
  /\ \A c \in Caller : CountTells(c)

\* Marking penalties paid takes them out of what is owed.
LEMMA OwedAfterPaying ==
  ASSUME Rows, NEW S \in SUBSET Penalty, MarkPaid(S), UNCHANGED archived
  PROVE  OwedSet' = OwedSet \ S
  BY DEF Rows, MarkPaid, OwedSet, Owed

\* In turn, a commit writes the status of the debt it leaves.
LEMMA FollowsStep ==
  ASSUME RecomputeOnly, Rows, InTurn, InTurn', Follows, [Next]_vars
  PROVE  Follows'
<1> USE DEF Rows, Label, CallState, Idle, Follows, moneyVars, profileVars
<1>1. ASSUME NEW c \in Caller, NEW p \in Penalty, PayPenalty(c, p) PROVE Follows'
  <2>1. UNCHANGED <<row, archived, billing>>
    BY <1>1 DEF PayPenalty
  <2>2. OwedSet' = OwedSet
    BY <2>1 DEF OwedSet, Owed
  <2>3. ASSUME NEW d \in Caller PROVE CountTells(d)'
    BY <1>1, <2>2 DEF PayPenalty, At, Goto, Proceed, Return, CountTells
  <2> QED
    BY <2>1, <2>2, <2>3
<1>2. ASSUME NEW c \in Caller, CommitPayPenalty(c) PROVE Follows'
  <2>1. OwedSet' = OwedSet \ call[c].penalties /\ archived' = {}
    BY <1>2, OwedAfterPaying DEF CommitPayPenalty
  <2>2. billing' = BillingFor(Cardinality(OwedSet'))
    BY <1>2, <2>1 DEF CommitPayPenalty, At, CountTells
  <2>3. ASSUME NEW d \in Caller PROVE CountTells(d)'
    <3>1. call[c].pc # "idle" /\ (d # c => call[d].pc = "idle")
      BY <1>2 DEF CommitPayPenalty, At, InTurn
    <3>2. call' = [call EXCEPT ![c] = Idle]
      BY <1>2 DEF CommitPayPenalty, Return
    <3> QED
      BY <3>1, <3>2 DEF CountTells
  <2> QED
    BY <2>1, <2>2, <2>3
<1>3. ASSUME NEW c \in Caller, ListUnpaid(c) PROVE Follows'
  <2>1. UNCHANGED <<row, archived, billing>>
    BY <1>3 DEF ListUnpaid
  <2>2. OwedSet' = OwedSet
    BY <2>1 DEF OwedSet, Owed
  <2>3. ASSUME NEW d \in Caller PROVE CountTells(d)'
    BY <1>3, <2>2 DEF ListUnpaid, At, Goto, Proceed, Return, CountTells
  <2> QED
    BY <2>1, <2>2, <2>3
<1>4. ASSUME NEW c \in Caller, DebitAll(c) PROVE Follows'
  <2>1. UNCHANGED <<row, archived, billing>>
    BY <1>4 DEF DebitAll
  <2>2. OwedSet' = OwedSet
    BY <2>1 DEF OwedSet, Owed
  <2>3. ASSUME NEW d \in Caller PROVE CountTells(d)'
    <3>1. PICK rec : call' = [call EXCEPT ![c] = rec] /\
            rec.pc \in {"idle", "debited", "charging", "charged", "suspending"}
      BY <1>4 DEF DebitAll, Goto, Proceed, Return
    <3>2. \A e \in Caller : CountTells(e)'
      BY <2>2, <3>1 DEF CountTells
    <3> QED
      BY <3>2
  <2> QED
    BY <2>1, <2>2, <2>3
<1>5. ASSUME NEW c \in Caller, SettleAll(c) PROVE Follows'
  <2>1. UNCHANGED <<row, archived, billing>>
    BY <1>5 DEF SettleAll
  <2>2. OwedSet' = OwedSet
    BY <2>1 DEF OwedSet, Owed
  <2>3. ASSUME NEW d \in Caller PROVE CountTells(d)'
    BY <1>5, <2>2 DEF SettleAll, At, Goto, Proceed, Return, CountTells
  <2> QED
    BY <2>1, <2>2, <2>3
<1>6. ASSUME NEW c \in Caller, CommitSettleAll(c) PROVE Follows'
  <2>1. OwedSet' = OwedSet \ call[c].penalties /\ archived' = {}
    BY <1>6, OwedAfterPaying DEF CommitSettleAll
  <2>2. billing' = BillingFor(Cardinality(OwedSet'))
    BY <1>6, <2>1 DEF CommitSettleAll, At, CountTells
  <2>3. ASSUME NEW d \in Caller PROVE CountTells(d)'
    <3>1. call[c].pc # "idle" /\ (d # c => call[d].pc = "idle")
      BY <1>6 DEF CommitSettleAll, At, InTurn
    <3>2. call' = [call EXCEPT ![c] = Idle]
      BY <1>6 DEF CommitSettleAll, Return
    <3> QED
      BY <3>1, <3>2 DEF CountTells
  <2> QED
    BY <2>1, <2>2, <2>3
<1>7. ASSUME NEW c \in Caller, PriceRequest(c) PROVE Follows'
  <2>1. UNCHANGED <<row, archived, billing>>
    BY <1>7 DEF PriceRequest
  <2>2. OwedSet' = OwedSet
    BY <2>1 DEF OwedSet, Owed
  <2>3. ASSUME NEW d \in Caller PROVE CountTells(d)'
    BY <1>7, <2>2 DEF PriceRequest, At, Goto, Proceed, Return, CountTells
  <2> QED
    BY <2>1, <2>2, <2>3
<1>8. ASSUME NEW c \in Caller, StartPayment(c) PROVE Follows'
  <2>1. UNCHANGED <<row, archived, billing>>
    BY <1>8 DEF StartPayment
  <2>2. OwedSet' = OwedSet
    BY <2>1 DEF OwedSet, Owed
  <2>3. ASSUME NEW d \in Caller PROVE CountTells(d)'
    <3>1. PICK rec : call' = [call EXCEPT ![c] = rec] /\
            rec.pc \in {"idle", "debited", "charging", "charged", "suspending"}
      BY <1>8 DEF StartPayment, Goto, Proceed, Return
    <3>2. \A e \in Caller : CountTells(e)'
      BY <2>2, <3>1 DEF CountTells
    <3> QED
      BY <3>2
  <2> QED
    BY <2>1, <2>2, <2>3
<1>9. ASSUME NEW c \in Caller, CollectPayment(c) PROVE Follows'
  <2>1. UNCHANGED <<row, archived, billing>>
    BY <1>9 DEF CollectPayment
  <2>2. OwedSet' = OwedSet
    BY <2>1 DEF OwedSet, Owed
  <2>3. ASSUME NEW d \in Caller PROVE CountTells(d)'
    <3>1. PICK rec : call' = [call EXCEPT ![c] = rec] /\
            rec.pc \in {"idle", "debited", "charging", "charged", "suspending"}
      BY <1>9 DEF CollectPayment, Goto, Proceed, Return
    <3>2. \A e \in Caller : CountTells(e)'
      BY <2>2, <3>1 DEF CountTells
    <3> QED
      BY <3>2
  <2> QED
    BY <2>1, <2>2, <2>3
<1>10. ASSUME NEW c \in Caller, SettlePriced(c) PROVE Follows'
  <2>1. UNCHANGED <<row, archived, billing>>
    BY <1>10 DEF SettlePriced
  <2>2. OwedSet' = OwedSet
    BY <2>1 DEF OwedSet, Owed
  <2>3. ASSUME NEW d \in Caller PROVE CountTells(d)'
    BY <1>10, <2>2 DEF SettlePriced, PricedPenalties, At, Goto, Proceed, Return, CountTells
  <2> QED
    BY <2>1, <2>2, <2>3
<1>11. ASSUME NEW c \in Caller, CommitSettlePriced(c) PROVE Follows'
  <2>1. OwedSet' = OwedSet \ call[c].penalties /\ archived' = {}
    BY <1>11, OwedAfterPaying DEF CommitSettlePriced
  <2>2. billing' = BillingFor(Cardinality(OwedSet'))
    BY <1>11, <2>1 DEF CommitSettlePriced, At, CountTells
  <2>3. ASSUME NEW d \in Caller PROVE CountTells(d)'
    <3>1. call[c].pc # "idle" /\ (d # c => call[d].pc = "idle")
      BY <1>11 DEF CommitSettlePriced, At, InTurn
    <3>2. call' = [call EXCEPT ![c] = Idle]
      BY <1>11 DEF CommitSettlePriced, Return
    <3> QED
      BY <3>1, <3>2 DEF CountTells
  <2> QED
    BY <2>1, <2>2, <2>3
<1>12. ASSUME NEW c \in Caller, ReportPaid(c) PROVE Follows'
  BY <1>12 DEF ReportPaid, At, CountTells
<1>13. ASSUME NEW c \in Caller, CountRemaining(c) PROVE Follows'
  BY <1>13 DEF CountRemaining, At, CountTells
<1>14. ASSUME NEW c \in Caller, Reactivate(c) PROVE Follows'
  BY <1>14 DEF Reactivate, At, CountTells
<1>15. ASSUME NEW c \in Caller, NEW p \in Penalty, StartConfirm(c, p) PROVE Follows'
  BY <1>15 DEF StartConfirm, RecomputeOnly
<1>16. ASSUME NEW c \in Caller, NEW p \in Penalty, CreatePenalty(c, p) PROVE Follows'
  BY <1>16 DEF CreatePenalty, RecomputeOnly
<1>17. ASSUME NEW c \in Caller, Confirm(c) PROVE Follows'
  BY <1>17 DEF Confirm, At, CountTells
<1>18. ASSUME NEW c \in Caller, CountForResync(c) PROVE Follows'
  BY <1>18 DEF CountForResync, At, CountTells
<1>19. ASSUME NEW c \in Caller, WriteResync(c) PROVE Follows'
  BY <1>19 DEF WriteResync, At, CountTells
<1>20. ASSUME NEW c \in Caller, FlagCreated(c) PROVE Follows'
  BY <1>20 DEF FlagCreated, At, CountTells
<1>21. ASSUME NEW c \in Caller, StartArchive(c) PROVE Follows'
  BY <1>21 DEF StartArchive, RecomputeOnly
<1>22. ASSUME NEW c \in Caller, Archive(c) PROVE Follows'
  BY <1>22 DEF Archive, At, CountTells
<1>23. ASSUME NEW c \in Caller, Restore(c) PROVE Follows'
  BY <1>23 DEF Restore, RecomputeOnly
<1>24. ASSUME NEW c \in Caller, NEW p \in Penalty, Penalise(c, p) PROVE Follows'
  <2>1. UNCHANGED <<row, archived, billing>>
    BY <1>24 DEF Penalise
  <2>2. OwedSet' = OwedSet
    BY <2>1 DEF OwedSet, Owed
  <2>3. ASSUME NEW d \in Caller PROVE CountTells(d)'
    BY <1>24, <2>2 DEF Penalise, At, Goto, Proceed, Return, CountTells
  <2> QED
    BY <2>1, <2>2, <2>3
<1>25. ASSUME NEW c \in Caller, CommitPenalise(c) PROVE Follows'
  <2>1. OwedSet' = OwedSet \cup call[c].penalties /\ archived' = {}
    BY <1>25 DEF CommitPenalise, OwedSet, Owed
  <2>2. billing' = BillingFor(Cardinality(OwedSet'))
    BY <1>25, <2>1 DEF CommitPenalise, At, CountTells
  <2>3. ASSUME NEW d \in Caller PROVE CountTells(d)'
    <3>1. call[c].pc # "idle" /\ (d # c => call[d].pc = "idle")
      BY <1>25 DEF CommitPenalise, At, InTurn
    <3>2. call' = [call EXCEPT ![c] =
                 [pc |-> "penalised", penalties |-> {}, unpaid |-> 0, beyond |-> {}]]
      BY <1>25 DEF CommitPenalise, Goto, Proceed
    <3> QED
      BY <3>1, <3>2 DEF CountTells
  <2> QED
    BY <2>1, <2>2, <2>3
<1>26. ASSUME NEW c \in Caller, CountForSuspension(c) PROVE Follows'
  <2>1. UNCHANGED <<row, archived, billing>>
    BY <1>26 DEF CountForSuspension
  <2>2. OwedSet' = OwedSet
    BY <2>1 DEF OwedSet, Owed
  <2>3. ASSUME NEW d \in Caller PROVE CountTells(d)'
    <3>1. PICK rec : call' = [call EXCEPT ![c] = rec] /\
            rec.pc \in {"idle", "debited", "charging", "charged", "suspending"}
      BY <1>26 DEF CountForSuspension, Goto, Proceed, Return
    <3>2. \A e \in Caller : CountTells(e)'
      BY <2>2, <3>1 DEF CountTells
    <3> QED
      BY <3>2
  <2> QED
    BY <2>1, <2>2, <2>3
<1>27. ASSUME NEW c \in Caller, Suspend(c) PROVE Follows'
  <2>1. UNCHANGED <<row, archived, billing>>
    BY <1>27 DEF Suspend
  <2>2. OwedSet' = OwedSet
    BY <2>1 DEF OwedSet, Owed
  <2>3. ASSUME NEW d \in Caller PROVE CountTells(d)'
    BY <1>27, <2>2 DEF Suspend, At, Return, CountTells
  <2> QED
    BY <2>1, <2>2, <2>3
<1>28. ASSUME NEW c \in Caller, Interrupt(c) PROVE Follows'
  BY <1>28 DEF Interrupt, InTurn
<1>30. ASSUME NEW c \in Caller, PriceWithoutIds(c) PROVE Follows'
  <2>1. UNCHANGED <<row, archived, billing>>
    BY <1>30 DEF PriceWithoutIds
  <2>2. OwedSet' = OwedSet
    BY <2>1 DEF OwedSet, Owed
  <2>3. ASSUME NEW d \in Caller PROVE CountTells(d)'
    BY <1>30, <2>2 DEF PriceWithoutIds, At, Goto, Proceed, Return, CountTells
  <2> QED
    BY <2>1, <2>2, <2>3
<1>31. ASSUME NEW c \in Caller, PayOutside(c) PROVE Follows'
  BY <1>31 DEF PayOutside, RecomputeOnly
<1>29. ASSUME UNCHANGED vars PROVE Follows'
  <2>1. OwedSet' = OwedSet /\ UNCHANGED <<call, archived, billing>>
    BY <1>29 DEF vars, OwedSet, Owed
  <2> QED
    BY <2>1 DEF CountTells
<1> QED
  BY <1>1, <1>2, <1>3, <1>4, <1>5, <1>6, <1>7, <1>8, <1>9, <1>10, <1>11,
     <1>12, <1>13, <1>14, <1>15, <1>16, <1>17, <1>18, <1>19, <1>20, <1>21,
     <1>22, <1>23, <1>24, <1>25, <1>26, <1>27, <1>28, <1>29, <1>30, <1>31
     DEF Next, WalletStep, GatewayStep, AdminStep, CancelStep

\* Whenever wallet payments, payment links and late cancellations run one after
\* another, the billing status says what is still unpaid, whatever the thresholds.
THEOREM BillingTellsDebt ==
  ASSUME RecomputeOnly
  PROVE  Spec /\ []InTurn => []BillingFollowsDebt
<1> DEFINE I == Rows /\ Follows
<1>1. Init => I
  <2> SUFFICES ASSUME Init PROVE I
    OBVIOUS
  <2>1. OwedSet = {}
    BY DEF Init, OwedSet, Owed
  <2>2. billing = BillingFor(Cardinality(OwedSet))
    BY <2>1, FS_EmptySet DEF Init, BillingFor
  <2> QED
    BY <2>2 DEF Init, Rows, Follows, CountTells, CallState, Label, Idle
<1>2. I /\ InTurn /\ InTurn' /\ [Next]_vars => I'
  BY RowsStep, FollowsStep
<1>3. I => BillingFollowsDebt
  BY DEF Follows, BillingFollowsDebt
<1> QED
  BY <1>1, <1>2, <1>3, PTL DEF Spec

\* A debt at the suspension threshold has suspended the account, or the call that
\* raised it is about to; an account is reactivated only when nothing is owed.
Warned ==
  /\ Cardinality(OwedSet) >= SuspensionThreshold
       /\ (\A c \in Caller : ~At(c, "penalised") /\ ~At(c, "suspending"))
       => account = "SUSPENDED"
  /\ \A c \in Caller : At(c, "reactivating") => OwedSet = {}
  /\ \A c \in Caller : ~At(c, "created")

\* A step that leaves the account alone and owes no more than before.
LEMMA WarnedKept ==
  ASSUME Rows, Warned, UNCHANGED account, OwedSet' \subseteq OwedSet,
         \A c \in Caller : At(c, "penalised") \/ At(c, "suspending") =>
           Cardinality(OwedSet') < SuspensionThreshold
             \/ \E d \in Caller : (At(d, "penalised") \/ At(d, "suspending"))',
         \A c \in Caller : At(c, "reactivating")' => OwedSet' = {},
         \A c \in Caller : ~At(c, "created")'
  PROVE  Warned'
<1>1. OwedSet \in SUBSET Penalty /\ IsFiniteSet(OwedSet)
  BY OwedIsSubset, PenaltyAssumption, FS_Subset
<1>2. Cardinality(OwedSet') <= Cardinality(OwedSet)
  BY <1>1, FS_Subset
<1>3. Cardinality(OwedSet') \in Nat /\ Cardinality(OwedSet) \in Nat
  BY <1>1, CountIsNat
<1>4. SuspensionThreshold \in Nat
  BY PenaltyAssumption
<1> QED
  BY <1>2, <1>3, <1>4 DEF Warned

\* In turn, only a late cancellation adds to the debt, and it counts before it ends.
LEMMA WarnedStep ==
  ASSUME NoneCreated, Rows, InTurn, InTurn', Warned, [Next]_vars
  PROVE  Warned'
<1> USE DEF Rows, Label, CallState, Idle, moneyVars, profileVars
<1>1. ASSUME NEW c \in Caller, NEW p \in Penalty, PayPenalty(c, p) PROVE Warned'
  <2>1. OwedSet' = OwedSet
    BY <1>1 DEF PayPenalty, OwedSet, Owed
  <2>2. account' = account
    BY <1>1 DEF PayPenalty
  <2>3. \A d \in Caller : ~At(d, "created")'
    BY <1>1 DEF PayPenalty, Warned, At, Goto, Proceed, Return
  <2>4. ASSUME NEW d \in Caller, At(d, "reactivating")' PROVE OwedSet' = {}
    BY <1>1, <2>1, <2>4 DEF PayPenalty, Warned, At, Goto, Proceed, Return
  <2>5. ASSUME NEW d \in Caller, At(d, "penalised") \/ At(d, "suspending")
        PROVE  (At(d, "penalised") \/ At(d, "suspending"))'
    BY <1>1, <2>5 DEF PayPenalty, At, Goto, Proceed, Return
  <2> QED
    BY <2>1, <2>2, <2>3, <2>4, <2>5, WarnedKept
<1>2. ASSUME NEW c \in Caller, CommitPayPenalty(c) PROVE Warned'
  <2>1. OwedSet' \subseteq OwedSet
    BY <1>2, OwedAfterPaying DEF CommitPayPenalty
  <2>2. account' = account
    BY <1>2 DEF CommitPayPenalty
  <2>3. \A d \in Caller : ~At(d, "created")'
    BY <1>2 DEF CommitPayPenalty, Warned, At, Goto, Proceed, Return
  <2>4. ASSUME NEW d \in Caller, At(d, "reactivating")' PROVE OwedSet' = {}
    BY <1>2, <2>1, <2>4 DEF CommitPayPenalty, Warned, At, Goto, Proceed, Return
  <2>5. ASSUME NEW d \in Caller, At(d, "penalised") \/ At(d, "suspending")
        PROVE  (At(d, "penalised") \/ At(d, "suspending"))'
    BY <1>2, <2>5 DEF CommitPayPenalty, At, Goto, Proceed, Return
  <2> QED
    BY <2>1, <2>2, <2>3, <2>4, <2>5, WarnedKept
<1>3. ASSUME NEW c \in Caller, ListUnpaid(c) PROVE Warned'
  <2>1. OwedSet' = OwedSet
    BY <1>3 DEF ListUnpaid, OwedSet, Owed
  <2>2. account' = account
    BY <1>3 DEF ListUnpaid
  <2>3. \A d \in Caller : ~At(d, "created")'
    BY <1>3 DEF ListUnpaid, Warned, At, Goto, Proceed, Return
  <2>4. ASSUME NEW d \in Caller, At(d, "reactivating")' PROVE OwedSet' = {}
    BY <1>3, <2>1, <2>4 DEF ListUnpaid, Warned, At, Goto, Proceed, Return
  <2>5. ASSUME NEW d \in Caller, At(d, "penalised") \/ At(d, "suspending")
        PROVE  (At(d, "penalised") \/ At(d, "suspending"))'
    BY <1>3, <2>5 DEF ListUnpaid, At, Goto, Proceed, Return
  <2> QED
    BY <2>1, <2>2, <2>3, <2>4, <2>5, WarnedKept
<1>4. ASSUME NEW c \in Caller, DebitAll(c) PROVE Warned'
  <2>1. OwedSet' = OwedSet
    BY <1>4 DEF DebitAll, OwedSet, Owed
  <2>2. account' = account
    BY <1>4 DEF DebitAll
  <2>3. \A d \in Caller : ~At(d, "created")'
    BY <1>4 DEF DebitAll, Warned, At, Goto, Proceed, Return
  <2>4. ASSUME NEW d \in Caller, At(d, "reactivating")' PROVE OwedSet' = {}
    BY <1>4, <2>1, <2>4 DEF DebitAll, Warned, At, Goto, Proceed, Return
  <2>5. ASSUME NEW d \in Caller, At(d, "penalised") \/ At(d, "suspending")
        PROVE  (At(d, "penalised") \/ At(d, "suspending"))'
    BY <1>4, <2>5 DEF DebitAll, At, Goto, Proceed, Return
  <2> QED
    BY <2>1, <2>2, <2>3, <2>4, <2>5, WarnedKept
<1>5. ASSUME NEW c \in Caller, SettleAll(c) PROVE Warned'
  <2>1. OwedSet' = OwedSet
    BY <1>5 DEF SettleAll, OwedSet, Owed
  <2>2. account' = account
    BY <1>5 DEF SettleAll
  <2>3. \A d \in Caller : ~At(d, "created")'
    BY <1>5 DEF SettleAll, Warned, At, Goto, Proceed, Return
  <2>4. ASSUME NEW d \in Caller, At(d, "reactivating")' PROVE OwedSet' = {}
    BY <1>5, <2>1, <2>4 DEF SettleAll, Warned, At, Goto, Proceed, Return
  <2>5. ASSUME NEW d \in Caller, At(d, "penalised") \/ At(d, "suspending")
        PROVE  (At(d, "penalised") \/ At(d, "suspending"))'
    BY <1>5, <2>5 DEF SettleAll, At, Goto, Proceed, Return
  <2> QED
    BY <2>1, <2>2, <2>3, <2>4, <2>5, WarnedKept
<1>6. ASSUME NEW c \in Caller, CommitSettleAll(c) PROVE Warned'
  <2>1. OwedSet' \subseteq OwedSet
    BY <1>6, OwedAfterPaying DEF CommitSettleAll
  <2>2. account' = account
    BY <1>6 DEF CommitSettleAll
  <2>3. \A d \in Caller : ~At(d, "created")'
    BY <1>6 DEF CommitSettleAll, Warned, At, Goto, Proceed, Return
  <2>4. ASSUME NEW d \in Caller, At(d, "reactivating")' PROVE OwedSet' = {}
    BY <1>6, <2>1, <2>4 DEF CommitSettleAll, Warned, At, Goto, Proceed, Return
  <2>5. ASSUME NEW d \in Caller, At(d, "penalised") \/ At(d, "suspending")
        PROVE  (At(d, "penalised") \/ At(d, "suspending"))'
    BY <1>6, <2>5 DEF CommitSettleAll, At, Goto, Proceed, Return
  <2> QED
    BY <2>1, <2>2, <2>3, <2>4, <2>5, WarnedKept
<1>7. ASSUME NEW c \in Caller, PriceRequest(c) PROVE Warned'
  <2>1. OwedSet' = OwedSet
    BY <1>7 DEF PriceRequest, OwedSet, Owed
  <2>2. account' = account
    BY <1>7 DEF PriceRequest
  <2>3. \A d \in Caller : ~At(d, "created")'
    BY <1>7 DEF PriceRequest, Warned, At, Goto, Proceed, Return
  <2>4. ASSUME NEW d \in Caller, At(d, "reactivating")' PROVE OwedSet' = {}
    BY <1>7, <2>1, <2>4 DEF PriceRequest, Warned, At, Goto, Proceed, Return
  <2>5. ASSUME NEW d \in Caller, At(d, "penalised") \/ At(d, "suspending")
        PROVE  (At(d, "penalised") \/ At(d, "suspending"))'
    BY <1>7, <2>5 DEF PriceRequest, At, Goto, Proceed, Return
  <2> QED
    BY <2>1, <2>2, <2>3, <2>4, <2>5, WarnedKept
<1>8. ASSUME NEW c \in Caller, StartPayment(c) PROVE Warned'
  <2>1. OwedSet' = OwedSet
    BY <1>8 DEF StartPayment, OwedSet, Owed
  <2>2. account' = account
    BY <1>8 DEF StartPayment
  <2>3. \A d \in Caller : ~At(d, "created")'
    BY <1>8 DEF StartPayment, Warned, At, Goto, Proceed, Return
  <2>4. ASSUME NEW d \in Caller, At(d, "reactivating")' PROVE OwedSet' = {}
    BY <1>8, <2>1, <2>4 DEF StartPayment, Warned, At, Goto, Proceed, Return
  <2>5. ASSUME NEW d \in Caller, At(d, "penalised") \/ At(d, "suspending")
        PROVE  (At(d, "penalised") \/ At(d, "suspending"))'
    BY <1>8, <2>5 DEF StartPayment, At, Goto, Proceed, Return
  <2> QED
    BY <2>1, <2>2, <2>3, <2>4, <2>5, WarnedKept
<1>9. ASSUME NEW c \in Caller, CollectPayment(c) PROVE Warned'
  <2>1. OwedSet' = OwedSet
    BY <1>9 DEF CollectPayment, OwedSet, Owed
  <2>2. account' = account
    BY <1>9 DEF CollectPayment
  <2>3. \A d \in Caller : ~At(d, "created")'
    BY <1>9 DEF CollectPayment, Warned, At, Goto, Proceed, Return
  <2>4. ASSUME NEW d \in Caller, At(d, "reactivating")' PROVE OwedSet' = {}
    BY <1>9, <2>1, <2>4 DEF CollectPayment, Warned, At, Goto, Proceed, Return
  <2>5. ASSUME NEW d \in Caller, At(d, "penalised") \/ At(d, "suspending")
        PROVE  (At(d, "penalised") \/ At(d, "suspending"))'
    BY <1>9, <2>5 DEF CollectPayment, At, Goto, Proceed, Return
  <2> QED
    BY <2>1, <2>2, <2>3, <2>4, <2>5, WarnedKept
<1>10. ASSUME NEW c \in Caller, SettlePriced(c) PROVE Warned'
  <2>1. OwedSet' = OwedSet
    BY <1>10 DEF SettlePriced, OwedSet, Owed
  <2>2. account' = account
    BY <1>10 DEF SettlePriced
  <2>3. \A d \in Caller : ~At(d, "created")'
    BY <1>10 DEF SettlePriced, Warned, At, Goto, Proceed, Return
  <2>4. ASSUME NEW d \in Caller, At(d, "reactivating")' PROVE OwedSet' = {}
    BY <1>10, <2>1, <2>4 DEF SettlePriced, Warned, At, Goto, Proceed, Return
  <2>5. ASSUME NEW d \in Caller, At(d, "penalised") \/ At(d, "suspending")
        PROVE  (At(d, "penalised") \/ At(d, "suspending"))'
    BY <1>10, <2>5 DEF SettlePriced, At, Goto, Proceed, Return
  <2> QED
    BY <2>1, <2>2, <2>3, <2>4, <2>5, WarnedKept
<1>11. ASSUME NEW c \in Caller, CommitSettlePriced(c) PROVE Warned'
  <2>1. OwedSet' \subseteq OwedSet
    BY <1>11, OwedAfterPaying DEF CommitSettlePriced
  <2>2. account' = account
    BY <1>11 DEF CommitSettlePriced
  <2>3. \A d \in Caller : ~At(d, "created")'
    BY <1>11 DEF CommitSettlePriced, Warned, At, Goto, Proceed, Return
  <2>4. ASSUME NEW d \in Caller, At(d, "reactivating")' PROVE OwedSet' = {}
    BY <1>11, <2>1, <2>4 DEF CommitSettlePriced, Warned, At, Goto, Proceed, Return
  <2>5. ASSUME NEW d \in Caller, At(d, "penalised") \/ At(d, "suspending")
        PROVE  (At(d, "penalised") \/ At(d, "suspending"))'
    BY <1>11, <2>5 DEF CommitSettlePriced, At, Goto, Proceed, Return
  <2> QED
    BY <2>1, <2>2, <2>3, <2>4, <2>5, WarnedKept
<1>12. ASSUME NEW c \in Caller, ReportPaid(c) PROVE Warned'
  <2>1. OwedSet' \subseteq OwedSet
    BY <1>12 DEF ReportPaid, MarkPaid, OwedSet, Owed
  <2>2. account' = account
    BY <1>12 DEF ReportPaid
  <2>3. \A d \in Caller : ~At(d, "created")'
    BY <1>12 DEF ReportPaid, Warned, At, Goto, Proceed, Return
  <2>4. ASSUME NEW d \in Caller, At(d, "reactivating")' PROVE OwedSet' = {}
    BY <1>12, <2>1, <2>4 DEF ReportPaid, Warned, At, Goto, Proceed, Return
  <2>5. ASSUME NEW d \in Caller, At(d, "penalised") \/ At(d, "suspending")
        PROVE  (At(d, "penalised") \/ At(d, "suspending"))'
    BY <1>12, <2>5 DEF ReportPaid, At, Goto, Proceed, Return
  <2> QED
    BY <2>1, <2>2, <2>3, <2>4, <2>5, WarnedKept
<1>13. ASSUME NEW c \in Caller, CountRemaining(c) PROVE Warned'
  <2>1. OwedSet' = OwedSet /\ account' = account
    BY <1>13 DEF CountRemaining, OwedSet, Owed
  <2> QED
    BY <1>13, <2>1 DEF CountRemaining, Warned, At, Goto, Proceed, Return
<1>14. ASSUME NEW c \in Caller, Reactivate(c) PROVE Warned'
  <2>1. OwedSet' = {}
    BY <1>14 DEF Reactivate, Warned, OwedSet, Owed
  <2>2. Cardinality({}) = 0 /\ SuspensionThreshold \in Nat \ {0}
    BY FS_EmptySet, PenaltyAssumption
  <2>3. \A d \in Caller : ~At(d, "created")'
    BY <1>14 DEF Reactivate, Warned, At, Return
  <2> QED
    BY <2>1, <2>2, <2>3 DEF Warned
<1>15. ASSUME NEW c \in Caller, NEW p \in Penalty, StartConfirm(c, p) PROVE Warned'
  <2>1. OwedSet' = OwedSet
    BY <1>15 DEF StartConfirm, OwedSet, Owed
  <2>2. account' = account
    BY <1>15 DEF StartConfirm
  <2>3. \A d \in Caller : ~At(d, "created")'
    BY <1>15 DEF StartConfirm, Warned, At, Goto, Proceed, Return
  <2>4. ASSUME NEW d \in Caller, At(d, "reactivating")' PROVE OwedSet' = {}
    BY <1>15, <2>1, <2>4 DEF StartConfirm, Warned, At, Goto, Proceed, Return
  <2>5. ASSUME NEW d \in Caller, At(d, "penalised") \/ At(d, "suspending")
        PROVE  (At(d, "penalised") \/ At(d, "suspending"))'
    BY <1>15, <2>5 DEF StartConfirm, At, Goto, Proceed, Return
  <2> QED
    BY <2>1, <2>2, <2>3, <2>4, <2>5, WarnedKept
<1>16. ASSUME NEW c \in Caller, NEW p \in Penalty, CreatePenalty(c, p) PROVE Warned'
  BY <1>16 DEF CreatePenalty, NoneCreated
<1>17. ASSUME NEW c \in Caller, Confirm(c) PROVE Warned'
  <2>1. OwedSet' \subseteq OwedSet
    BY <1>17 DEF Confirm, MarkPaid, OwedSet, Owed
  <2>2. account' = account
    BY <1>17 DEF Confirm
  <2>3. \A d \in Caller : ~At(d, "created")'
    BY <1>17 DEF Confirm, Warned, At, Goto, Proceed, Return
  <2>4. ASSUME NEW d \in Caller, At(d, "reactivating")' PROVE OwedSet' = {}
    BY <1>17, <2>1, <2>4 DEF Confirm, Warned, At, Goto, Proceed, Return
  <2>5. ASSUME NEW d \in Caller, At(d, "penalised") \/ At(d, "suspending")
        PROVE  (At(d, "penalised") \/ At(d, "suspending"))'
    BY <1>17, <2>5 DEF Confirm, At, Goto, Proceed, Return
  <2> QED
    BY <2>1, <2>2, <2>3, <2>4, <2>5, WarnedKept
<1>18. ASSUME NEW c \in Caller, CountForResync(c) PROVE Warned'
  <2>1. OwedSet' = OwedSet
    BY <1>18 DEF CountForResync, OwedSet, Owed
  <2>2. account' = account
    BY <1>18 DEF CountForResync
  <2>3. \A d \in Caller : ~At(d, "created")'
    BY <1>18 DEF CountForResync, Warned, At, Goto, Proceed, Return
  <2>4. ASSUME NEW d \in Caller, At(d, "reactivating")' PROVE OwedSet' = {}
    BY <1>18, <2>1, <2>4 DEF CountForResync, Warned, At, Goto, Proceed, Return
  <2>5. ASSUME NEW d \in Caller, At(d, "penalised") \/ At(d, "suspending")
        PROVE  (At(d, "penalised") \/ At(d, "suspending"))'
    BY <1>18, <2>5 DEF CountForResync, At, Goto, Proceed, Return
  <2> QED
    BY <2>1, <2>2, <2>3, <2>4, <2>5, WarnedKept
<1>19. ASSUME NEW c \in Caller, WriteResync(c) PROVE Warned'
  <2>1. OwedSet' = OwedSet
    BY <1>19 DEF WriteResync, OwedSet, Owed
  <2>2. account' = account
    BY <1>19 DEF WriteResync
  <2>3. \A d \in Caller : ~At(d, "created")'
    BY <1>19 DEF WriteResync, Warned, At, Goto, Proceed, Return
  <2>4. ASSUME NEW d \in Caller, At(d, "reactivating")' PROVE OwedSet' = {}
    BY <1>19, <2>1, <2>4 DEF WriteResync, Warned, At, Goto, Proceed, Return
  <2>5. ASSUME NEW d \in Caller, At(d, "penalised") \/ At(d, "suspending")
        PROVE  (At(d, "penalised") \/ At(d, "suspending"))'
    BY <1>19, <2>5 DEF WriteResync, At, Goto, Proceed, Return
  <2> QED
    BY <2>1, <2>2, <2>3, <2>4, <2>5, WarnedKept
<1>20. ASSUME NEW c \in Caller, FlagCreated(c) PROVE Warned'
  BY <1>20 DEF FlagCreated, Warned
<1>21. ASSUME NEW c \in Caller, StartArchive(c) PROVE Warned'
  <2>1. OwedSet' = OwedSet
    BY <1>21 DEF StartArchive, OwedSet, Owed
  <2>2. account' = account
    BY <1>21 DEF StartArchive
  <2>3. \A d \in Caller : ~At(d, "created")'
    BY <1>21 DEF StartArchive, Warned, At, Goto, Proceed, Return
  <2>4. ASSUME NEW d \in Caller, At(d, "reactivating")' PROVE OwedSet' = {}
    BY <1>21, <2>1, <2>4 DEF StartArchive, Warned, At, Goto, Proceed, Return
  <2>5. ASSUME NEW d \in Caller, At(d, "penalised") \/ At(d, "suspending")
        PROVE  (At(d, "penalised") \/ At(d, "suspending"))'
    BY <1>21, <2>5 DEF StartArchive, At, Goto, Proceed, Return
  <2> QED
    BY <2>1, <2>2, <2>3, <2>4, <2>5, WarnedKept
<1>22. ASSUME NEW c \in Caller, Archive(c) PROVE Warned'
  <2>1. OwedSet' \subseteq OwedSet
    BY <1>22 DEF Archive, OwedSet, Owed
  <2>2. account' = account
    BY <1>22 DEF Archive
  <2>3. \A d \in Caller : ~At(d, "created")'
    BY <1>22 DEF Archive, Warned, At, Goto, Proceed, Return
  <2>4. ASSUME NEW d \in Caller, At(d, "reactivating")' PROVE OwedSet' = {}
    BY <1>22, <2>1, <2>4 DEF Archive, Warned, At, Goto, Proceed, Return
  <2>5. ASSUME NEW d \in Caller, At(d, "penalised") \/ At(d, "suspending")
        PROVE  (At(d, "penalised") \/ At(d, "suspending"))'
    BY <1>22, <2>5 DEF Archive, At, Goto, Proceed, Return
  <2> QED
    BY <2>1, <2>2, <2>3, <2>4, <2>5, WarnedKept
<1>23. ASSUME NEW c \in Caller, Restore(c) PROVE Warned'
  BY <1>23 DEF Restore, NoneCreated
<1>24. ASSUME NEW c \in Caller, NEW p \in Penalty, Penalise(c, p) PROVE Warned'
  <2>1. OwedSet' = OwedSet
    BY <1>24 DEF Penalise, OwedSet, Owed
  <2>2. account' = account
    BY <1>24 DEF Penalise
  <2>3. \A d \in Caller : ~At(d, "created")'
    BY <1>24 DEF Penalise, Warned, At, Goto, Proceed, Return
  <2>4. ASSUME NEW d \in Caller, At(d, "reactivating")' PROVE OwedSet' = {}
    BY <1>24, <2>1, <2>4 DEF Penalise, Warned, At, Goto, Proceed, Return
  <2>5. ASSUME NEW d \in Caller, At(d, "penalised") \/ At(d, "suspending")
        PROVE  (At(d, "penalised") \/ At(d, "suspending"))'
    BY <1>24, <2>5 DEF Penalise, At, Goto, Proceed, Return
  <2> QED
    BY <2>1, <2>2, <2>3, <2>4, <2>5, WarnedKept
<1>25. ASSUME NEW c \in Caller, CommitPenalise(c) PROVE Warned'
  <2>1. call' = [call EXCEPT ![c] =
                 [pc |-> "penalised", penalties |-> {}, unpaid |-> 0, beyond |-> {}]]
    BY <1>25 DEF CommitPenalise, Goto, Proceed
  <2>2. At(c, "penalised")'
    BY <2>1 DEF At
  <2>3. \A d \in Caller : d # c => At(d, "idle")'
    BY <2>1 DEF InTurn, At
  <2> QED
    BY <2>2, <2>3 DEF Warned, At
<1>26. ASSUME NEW c \in Caller, CountForSuspension(c) PROVE Warned'
  <2>1. OwedSet' = OwedSet /\ account' = account
    BY <1>26 DEF CountForSuspension, OwedSet, Owed
  <2>2. Cardinality(OwedSet) \in Nat /\ SuspensionThreshold \in Nat
    BY CountIsNat, OwedIsSubset, PenaltyAssumption
  <2>3. \A d \in Caller : At(d, "reactivating")' => OwedSet' = {}
    BY <1>26, <2>1 DEF CountForSuspension, Warned, At, Goto, Proceed, Return
  <2>4. \A d \in Caller : ~At(d, "created")'
    BY <1>26 DEF CountForSuspension, Warned, At, Goto, Proceed, Return
  <2>5. Cardinality(OwedSet) < SuspensionThreshold \/ At(c, "suspending")'
    BY <1>26, <2>2 DEF CountForSuspension, Goto, Proceed, At
  <2> QED
    BY <2>1, <2>2, <2>3, <2>4, <2>5 DEF Warned
<1>27. ASSUME NEW c \in Caller, Suspend(c) PROVE Warned'
  <2>1. OwedSet' = OwedSet /\ account' = "SUSPENDED"
    BY <1>27 DEF Suspend, OwedSet, Owed
  <2> QED
    BY <1>27, <2>1 DEF Suspend, Warned, At, Return
<1>28. ASSUME NEW c \in Caller, Interrupt(c) PROVE Warned'
  BY <1>28 DEF Interrupt, InTurn
<1>30. ASSUME NEW c \in Caller, PriceWithoutIds(c) PROVE Warned'
  <2>1. OwedSet' = OwedSet
    BY <1>30 DEF PriceWithoutIds, OwedSet, Owed
  <2>2. account' = account
    BY <1>30 DEF PriceWithoutIds
  <2>3. \A d \in Caller : ~At(d, "created")'
    BY <1>30 DEF PriceWithoutIds, Warned, At, Goto, Proceed, Return
  <2>4. ASSUME NEW d \in Caller, At(d, "reactivating")' PROVE OwedSet' = {}
    BY <1>30, <2>1, <2>4 DEF PriceWithoutIds, Warned, At, Goto, Proceed, Return
  <2>5. ASSUME NEW d \in Caller, At(d, "penalised") \/ At(d, "suspending")
        PROVE  (At(d, "penalised") \/ At(d, "suspending"))'
    BY <1>30, <2>5 DEF PriceWithoutIds, At, Goto, Proceed, Return
  <2> QED
    BY <2>1, <2>2, <2>3, <2>4, <2>5, WarnedKept
<1>31. ASSUME NEW c \in Caller, PayOutside(c) PROVE Warned'
  <2>1. OwedSet' = OwedSet
    BY <1>31 DEF PayOutside, OwedSet, Owed
  <2>2. account' = account
    BY <1>31 DEF PayOutside
  <2>3. \A d \in Caller : ~At(d, "created")'
    BY <1>31 DEF PayOutside, Warned, At, Goto, Proceed, Return
  <2>4. ASSUME NEW d \in Caller, At(d, "reactivating")' PROVE OwedSet' = {}
    BY <1>31, <2>1, <2>4 DEF PayOutside, Warned, At, Goto, Proceed, Return
  <2>5. ASSUME NEW d \in Caller, At(d, "penalised") \/ At(d, "suspending")
        PROVE  (At(d, "penalised") \/ At(d, "suspending"))'
    BY <1>31, <2>5 DEF PayOutside, At, Goto, Proceed, Return
  <2> QED
    BY <2>1, <2>2, <2>3, <2>4, <2>5, WarnedKept
<1>29. ASSUME UNCHANGED vars PROVE Warned'
  BY <1>29 DEF vars, Warned, At, OwedSet, Owed
<1> QED
  BY <1>1, <1>2, <1>3, <1>4, <1>5, <1>6, <1>7, <1>8, <1>9, <1>10, <1>11,
     <1>12, <1>13, <1>14, <1>15, <1>16, <1>17, <1>18, <1>19, <1>20, <1>21,
     <1>22, <1>23, <1>24, <1>25, <1>26, <1>27, <1>28, <1>29, <1>30, <1>31
     DEF Next, WalletStep, GatewayStep, AdminStep, CancelStep

\* Whenever calls run one after another and only late cancellations add penalties,
\* a worker at the suspension threshold is suspended.
THEOREM ThresholdHasSuspended ==
  ASSUME NoneCreated
  PROVE  Spec /\ []InTurn => []ThresholdSuspends
<1> DEFINE I == Rows /\ Warned
<1>1. Init => I
  <2> SUFFICES ASSUME Init PROVE I
    OBVIOUS
  <2>1. OwedSet = {}
    BY DEF Init, OwedSet, Owed
  <2>2. Cardinality(OwedSet) = 0 /\ SuspensionThreshold \in Nat \ {0}
    BY <2>1, FS_EmptySet, PenaltyAssumption
  <2> QED
    BY <2>2 DEF Init, Rows, Warned, At, CallState, Label, Idle
<1>2. I /\ InTurn /\ InTurn' /\ [Next]_vars => I'
  BY RowsStep, WarnedStep
<1>3. I => ThresholdSuspends
  BY DEF Warned, ThresholdSuspends, Quiescent, At
<1> QED
  BY <1>1, <1>2, <1>3, PTL DEF Spec
=========================================================================
