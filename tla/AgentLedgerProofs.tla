------------------------ MODULE AgentLedgerProofs ------------------------
(* Proofs about AgentLedger, for any placements, withdrawals, sweeps,       *)
(* calls, fees, sizes and failures.                                         *)
EXTENDS AgentLedger, FiniteSetTheorems, WellFoundedInduction, TLAPS

\* The part of the type invariant the proofs below need.
Rows ==
  /\ commission \in [Placement -> CommissionStatus]
  /\ amount \in [Placement -> Nat]
  /\ withdrawal \in [Withdrawal -> WithdrawalStatus]
  /\ asked \in [Withdrawal -> Nat]
  /\ entries \in SUBSET ((Placement \cup Withdrawal) \X Step)
  /\ balance \in [Bucket -> Int]
  /\ lock \in Caller \cup {None}
  /\ call \in [Call -> CallState]

\* What a call carries fits what it is about to do, and the lock of the agent's
\* row is held exactly by the call that decides on the balance.
CarriedBy(c) ==
  /\ (At(c, "taking") \/ At(c, "requesting")) <=> lock = c
  /\ At(c, "requesting") => call[c].row \in Withdrawal
  /\ ~(At(c, "idle") \/ At(c, "requesting")) => call[c].row \in Placement
  /\ At(c, "cancelling") => call[c].from = "PENDING"
  /\ At(c, "locking") \/ At(c, "taking") => commission[call[c].row] # "NONE"
Carried == \A c \in Call : CarriedBy(c)

\* A withdrawal's keys follow its status: none is written before its step.
KeysOf(w) ==
  /\ <<w, "requested">> \in entries => withdrawal[w] # "NONE"
  /\ \A step \in {"paid", "rejected", "cancelled"} :
       <<w, step>> \in entries => withdrawal[w] \notin {"NONE", "REQUESTED"}
KeysFollow == \A w \in Withdrawal : KeysOf(w)

\* At most one request is open, and what is locked is what it asked for.
OneOpen ==
  \A v, w \in Withdrawal :
    withdrawal[v] = "REQUESTED" /\ withdrawal[w] = "REQUESTED" => v = w
LockedIsAsked ==
  /\ \A w \in Withdrawal : withdrawal[w] = "REQUESTED" => balance["LOCKED"] = asked[w]
  /\ (\A w \in Withdrawal : withdrawal[w] # "REQUESTED") => balance["LOCKED"] = 0

\* What a call decided under the agent's lock still holds.
Covered ==
  /\ balance["AVAILABLE"] >= 0
  /\ \A c \in Call :
       /\ At(c, "taking") => amount[call[c].row] <= balance["AVAILABLE"]
       /\ At(c, "requesting") =>
            /\ call[c].size <= balance["AVAILABLE"]
            /\ \A w \in Withdrawal : withdrawal[w] # "REQUESTED"

LedgerInv == Rows /\ Carried /\ KeysFollow /\ OneOpen /\ LockedIsAsked /\ Covered

\* The record of a call that does nothing.
LEMMA IdleIsCall == Idle \in CallState
  BY DEF Idle, CallState

\* Replacing one call's record by another keeps the calls in their type.
LEMMA CallsKeepShape ==
  ASSUME call \in [Call -> CallState], NEW c \in Call, NEW r \in CallState,
         call' = [call EXCEPT ![c] = r]
  PROVE  call' \in [Call -> CallState]
  OBVIOUS

\* A call that ends.
LEMMA LeaveKeepsShape ==
  ASSUME call \in [Call -> CallState], NEW c \in Call, Leave(c)
  PROVE  call' \in [Call -> CallState]
  BY IdleIsCall DEF Leave

\* A call that goes to a label with a row.
LEMMA GotoKeepsShape ==
  ASSUME call \in [Call -> CallState], NEW c \in Call, NEW p \in Placement,
         NEW l \in {"starting", "releasing", "cancelling"}, Goto(c, l, p)
  PROVE  call' \in [Call -> CallState]
<1>1. [Idle EXCEPT !.pc = l, !.row = p] \in CallState
  BY IdleIsCall DEF CallState
<1> QED
  BY <1>1, CallsKeepShape DEF Goto

\* writeLedger keeps entries and balances in their types; it moves the amount
\* from one bucket to another, unless the key is there already.
LEMMA LedgerMoves ==
  ASSUME entries \in SUBSET ((Placement \cup Withdrawal) \X Step),
         balance \in [Bucket -> Int],
         NEW row \in Placement \cup Withdrawal, NEW step \in Step,
         NEW from, NEW to, NEW n \in Nat, WriteLedger(row, step, from, to, n)
  PROVE  /\ entries' \in SUBSET ((Placement \cup Withdrawal) \X Step)
         /\ balance' \in [Bucket -> Int]
         /\ entries' = entries \cup {<<row, step>>}
         /\ <<row, step>> \in entries => balance' = balance
         /\ <<row, step>> \notin entries =>
              \A b \in Bucket :
                balance'[b] = balance[b] + (IF b = to THEN n ELSE 0)
                                         - (IF b = from THEN n ELSE 0)
  BY DEF WriteLedger, ledger

\* Where nothing is written, the ledger stays.
LEMMA LedgerStays ==
  ASSUME UNCHANGED ledger PROVE entries' = entries /\ balance' = balance
  BY DEF ledger

\* Every step keeps rows, ledger and calls in their types.
LEMMA RowsStep ==
  ASSUME Rows, Carried, [Next]_vars
  PROVE  Rows'
<1>1. ASSUME NEW c \in Call, CreateCommission(c) PROVE Rows'
  <2>1. call[c] \in CallState /\ call[c].row \in Placement
    BY <1>1 DEF Rows, Carried, CarriedBy, CreateCommission, At, Call
  <2>2. CASE UNCHANGED ledger
    BY <2>1, <1>1, <2>2, LedgerStays, LeaveKeepsShape DEF Rows, CommissionStatus,
       WithdrawalStatus, CallState, Call, commissions, withdrawals, CreateCommission
  <2>3. CASE WriteLedger(call[c].row, "earned", "outside", "PENDING", call[c].size)
    <3>1. call[c].size \in Nat
      BY <2>1 DEF Rows, CallState
    <3>2. /\ entries' \in SUBSET ((Placement \cup Withdrawal) \X Step)
          /\ balance' \in [Bucket -> Int]
      BY <2>3, <3>1, <2>1, LedgerMoves DEF Rows, Step
    <3> QED
      BY <2>1, <1>1, <2>3, <3>1, <3>2, LeaveKeepsShape DEF Rows, CommissionStatus,
         WithdrawalStatus, CallState, Call, commissions, withdrawals, CreateCommission
  <2> QED
    BY <1>1, <2>2, <2>3 DEF CreateCommission
<1>2. ASSUME NEW c \in Call, StartWindow(c) PROVE Rows'
  <2>1. call[c] \in CallState /\ call[c].row \in Placement
    BY <1>2 DEF Rows, Carried, CarriedBy, StartWindow, At, Call
  <2> QED
    BY <1>2, LeaveKeepsShape DEF Rows, StartWindow, Unlock, ledger, commissions,
       withdrawals
<1>3. ASSUME NEW c \in Call, Release(c) PROVE Rows'
  <2>1. call[c] \in CallState /\ call[c].row \in Placement
    BY <1>3 DEF Rows, Carried, CarriedBy, Release, At, Call
  <2>2. CASE UNCHANGED ledger
    BY <2>1, <1>3, <2>2, LedgerStays, LeaveKeepsShape DEF Rows, CommissionStatus,
       WithdrawalStatus, CallState, Call, commissions, withdrawals, Release
  <2>3. CASE WriteLedger(call[c].row, "released", "PENDING", "AVAILABLE", amount[call[c].row])
    <3>1. amount[call[c].row] \in Nat
      BY <2>1 DEF Rows, CallState
    <3>2. /\ entries' \in SUBSET ((Placement \cup Withdrawal) \X Step)
          /\ balance' \in [Bucket -> Int]
      BY <2>3, <3>1, <2>1, LedgerMoves DEF Rows, Step
    <3> QED
      BY <2>1, <1>3, <2>3, <3>1, <3>2, LeaveKeepsShape DEF Rows, CommissionStatus,
         WithdrawalStatus, CallState, Call, commissions, withdrawals, Release
  <2> QED
    BY <1>3, <2>2, <2>3 DEF Release
<1>4. ASSUME NEW c \in Call, CancelCommission(c) PROVE Rows'
  <2>1. call[c] \in CallState /\ call[c].row \in Placement
    BY <1>4 DEF Rows, Carried, CarriedBy, CancelCommission, At, Call
  <2>2. CASE UNCHANGED ledger
    BY <2>1, <1>4, <2>2, LedgerStays, LeaveKeepsShape DEF Rows, CommissionStatus,
       WithdrawalStatus, CallState, Call, commissions, withdrawals, CancelCommission,
       Unlock
  <2>3. CASE WriteLedger(call[c].row, "cancelled", call[c].from, "outside", amount[call[c].row])
    <3>1. amount[call[c].row] \in Nat
      BY <2>1 DEF Rows, CallState
    <3>2. /\ entries' \in SUBSET ((Placement \cup Withdrawal) \X Step)
          /\ balance' \in [Bucket -> Int]
      BY <2>3, <3>1, <2>1, LedgerMoves DEF Rows, Step
    <3> QED
      BY <2>1, <1>4, <2>3, <3>1, <3>2, LeaveKeepsShape DEF Rows, CommissionStatus,
         WithdrawalStatus, CallState, Call, commissions, withdrawals,
         CancelCommission, Unlock
  <2> QED
    BY <1>4, <2>2, <2>3 DEF CancelCommission
<1>5. ASSUME NEW c \in Call, NEW p \in Placement, NEW fee \in Fees, NEW eligible \in
   BOOLEAN, NEW atUnlock \in BOOLEAN, LoadUndecided(c, p, fee, eligible, atUnlock)
   PROVE Rows'
  <2>1. TRUE
    OBVIOUS
  <2>2. [Idle EXCEPT !.pc = IF eligible THEN "deciding" ELSE "refusing",
           !.row = p, !.size = fee, !.atUnlock = atUnlock] \in CallState
    BY <1>5, IdleIsCall, LedgerAssumption DEF CallState, LoadUndecided
  <2> QED
    BY <1>5, <2>1, <2>2, CallsKeepShape DEF Rows, LoadUndecided, ledger, commissions,
       withdrawals
<1>6. ASSUME NEW c \in Call, NEW p \in Placement, LoadWaiting(c, p) PROVE Rows'
  BY <1>6, GotoKeepsShape DEF Rows, LoadWaiting, ledger, commissions, withdrawals
<1>7. ASSUME NEW c \in Call, NEW p \in Placement, LoadPending(c, p) PROVE Rows'
  BY <1>7, GotoKeepsShape DEF Rows, LoadPending, ledger, commissions, withdrawals
<1>8. ASSUME NEW c \in Call, NEW p \in Placement, AdminCancel(c, p) PROVE Rows'
  <2>1. TRUE
    OBVIOUS
  <2>2. [Idle EXCEPT !.row = p, !.from = commission[p],
           !.pc = IF commission[p] = "AVAILABLE" THEN "locking" ELSE "cancelling"] \in CallState
    BY <1>8, IdleIsCall DEF CallState, AdminCancel
  <2> QED
    BY <1>8, <2>1, <2>2, CallsKeepShape DEF Rows, AdminCancel, ledger, commissions,
       withdrawals
<1>9. ASSUME NEW c \in Caller, LockForCancel(c) PROVE Rows'
  <2>1. c \in Call
    BY DEF Call
  <2>2. call[c] \in CallState
    BY <2>1 DEF Rows
  <2>3. [call[c] EXCEPT !.pc = "taking"] \in CallState
    BY <2>2 DEF CallState
  <2>4. CASE call' = [call EXCEPT ![c].pc = "taking"]
    BY <1>9, <2>1, <2>3, <2>4 DEF Rows, LockForCancel, ledger, commissions, withdrawals
  <2> QED
    BY <1>9, <2>1, <2>4, LeaveKeepsShape DEF Rows, LockForCancel, ledger, commissions,
       withdrawals
<1>10. ASSUME NEW c \in Caller, NEW w \in Withdrawal, NEW n \in Sizes, Request(c, w,
   n) PROVE Rows'
  <2>1. c \in Call
    BY DEF Call
  <2>2. [Idle EXCEPT !.pc = "requesting", !.row = w, !.size = n] \in CallState
    BY <1>10, IdleIsCall, LedgerAssumption DEF CallState, Request
  <2> QED
    BY <1>10, <2>1, <2>2, CallsKeepShape DEF Rows, Request, ledger, commissions,
       withdrawals
<1>11. ASSUME NEW c \in Caller, CreateWithdrawal(c) PROVE Rows'
  <2>1. call[c] \in CallState /\ call[c].row \in Withdrawal
    BY <1>11 DEF Rows, Carried, CarriedBy, CreateWithdrawal, At, Call
  <2>2. CASE UNCHANGED ledger
    BY <2>1, <1>11, <2>2, LedgerStays, LeaveKeepsShape DEF Rows, CommissionStatus,
       WithdrawalStatus, CallState, Call, commissions, withdrawals, CreateWithdrawal,
       Unlock
  <2>3. CASE WriteLedger(call[c].row, "requested", "AVAILABLE", "LOCKED", call[c].size)
    <3>1. call[c].size \in Nat
      BY <2>1 DEF Rows, CallState
    <3>2. /\ entries' \in SUBSET ((Placement \cup Withdrawal) \X Step)
          /\ balance' \in [Bucket -> Int]
      BY <2>3, <3>1, <2>1, LedgerMoves DEF Rows, Step
    <3> QED
      BY <2>1, <1>11, <2>3, <3>1, <3>2, LeaveKeepsShape DEF Rows, CommissionStatus,
         WithdrawalStatus, CallState, Call, commissions, withdrawals,
         CreateWithdrawal, Unlock
  <2> QED
    BY <1>11, <2>2, <2>3 DEF CreateWithdrawal
<1>12. ASSUME NEW c \in Call, Interrupt(c) PROVE Rows'
  <2> QED
    BY <1>12, LeaveKeepsShape DEF Rows, Interrupt, Unlock, ledger, commissions,
       withdrawals
<1>13. ASSUME NEW w \in Withdrawal, Pay(w) PROVE Rows'
  <2>1. asked[w] \in Nat
    BY DEF Rows
  <2>2. /\ entries' \in SUBSET ((Placement \cup Withdrawal) \X Step)
        /\ balance' \in [Bucket -> Int]
    BY <1>13, <2>1, LedgerMoves DEF Rows, Step, Pay
  <2> QED
    BY <1>13, <2>2 DEF Rows, WithdrawalStatus, commissions, withdrawals, Pay
<1>14. ASSUME NEW w \in Withdrawal, Reject(w) PROVE Rows'
  <2>1. asked[w] \in Nat
    BY DEF Rows
  <2>2. /\ entries' \in SUBSET ((Placement \cup Withdrawal) \X Step)
        /\ balance' \in [Bucket -> Int]
    BY <1>14, <2>1, LedgerMoves DEF Rows, Step, Reject
  <2> QED
    BY <1>14, <2>2 DEF Rows, WithdrawalStatus, commissions, withdrawals, Reject
<1>15. ASSUME NEW w \in Withdrawal, CancelWithdrawal(w) PROVE Rows'
  <2>1. asked[w] \in Nat
    BY DEF Rows
  <2>2. /\ entries' \in SUBSET ((Placement \cup Withdrawal) \X Step)
        /\ balance' \in [Bucket -> Int]
    BY <1>15, <2>1, LedgerMoves DEF Rows, Step, CancelWithdrawal
  <2> QED
    BY <1>15, <2>2 DEF Rows, WithdrawalStatus, commissions, withdrawals,
       CancelWithdrawal
<1>16. ASSUME NEW p \in Placement, WindowPasses(p) PROVE Rows'
  BY <1>16 DEF Rows, WindowPasses, ledger, commissions, withdrawals
<1>17. ASSUME NEW p \in Placement, UnlockContacts(p) PROVE Rows'
  BY <1>17 DEF Rows, UnlockContacts, ledger, commissions, withdrawals
<1>18. ASSUME NEW p \in Placement, NEW end \in {"COMPLETED","CANCELLED"},
   EndMission(p, end) PROVE Rows'
  BY <1>18 DEF Rows, EndMission, ledger, commissions, withdrawals
<1>19. ASSUME SetActive PROVE Rows'
  BY <1>19 DEF Rows, SetActive, ledger, commissions, withdrawals
<1>20. ASSUME UNCHANGED vars PROVE Rows'
  BY <1>20 DEF vars, Rows, ledger, commissions, withdrawals
<1> QED
  BY <1>1, <1>2, <1>3, <1>4, <1>5, <1>6, <1>7, <1>8, <1>9, <1>10, <1>11,
     <1>12, <1>13, <1>14, <1>15, <1>16, <1>17, <1>18, <1>19, <1>20
     DEF Next, SweepStep, Load, CallerStep, Call

\* What calls carry keeps fitting, and the lock follows its holder.
LEMMA CarriedStep ==
  ASSUME LedgerInv, Rows', [Next]_vars
  PROVE  Carried'
<1>1. ASSUME NEW c \in Call, CreateCommission(c) PROVE Carried'
  <2> SUFFICES ASSUME NEW d \in Call PROVE CarriedBy(d)'
    BY DEF Carried
  <2>1. c \in Call /\ CarriedBy(c) /\ CarriedBy(d)
    BY DEF LedgerInv, Carried, Call
  <2>2. None # d
    BY LedgerAssumption DEF Call
  <2>3. CASE d = c
    BY <1>1, <2>1, <2>3, LedgerAssumption DEF LedgerInv, CreateCommission, At, Goto,
       Leave, Idle, Call, CarriedBy, Rows, CallState, commissions, withdrawals,
       CommissionStatus
  <2>4. CASE d # c
    <3>1. call'[d] = call[d]
      BY <1>1, <2>1, <2>4 DEF LedgerInv, Rows, CreateCommission, At, Goto, Leave,
         commissions, withdrawals, ledger
    <3>2. (lock' = d) <=> (lock = d)
      BY <1>1, <2>1, <2>2, <2>4 DEF LedgerInv, Rows, CarriedBy, At, CreateCommission,
         Goto, Leave
    <3>3. \A x \in Placement : commission[x] # "NONE" => commission'[x] # "NONE"
      BY <1>1 DEF LedgerInv, Rows, CreateCommission, commissions
    <3> QED
      BY <2>1, <3>1, <3>2, <3>3 DEF CarriedBy, At
  <2> QED
    BY <2>3, <2>4
<1>2. ASSUME NEW c \in Call, StartWindow(c) PROVE Carried'
  <2> SUFFICES ASSUME NEW d \in Call PROVE CarriedBy(d)'
    BY DEF Carried
  <2>1. c \in Call /\ CarriedBy(c) /\ CarriedBy(d)
    BY DEF LedgerInv, Carried, Call
  <2>2. None # d
    BY LedgerAssumption DEF Call
  <2>3. CASE d = c
    BY <1>2, <2>1, <2>3, LedgerAssumption DEF LedgerInv, StartWindow, At, Goto, Leave,
       Idle, Call, CarriedBy, Rows, CallState, commissions, withdrawals,
       CommissionStatus
  <2>4. CASE d # c
    <3>1. call'[d] = call[d]
      BY <1>2, <2>1, <2>4 DEF LedgerInv, Rows, StartWindow, At, Goto, Leave,
         commissions, withdrawals, ledger
    <3>2. (lock' = d) <=> (lock = d)
      BY <1>2, <2>1, <2>2, <2>4 DEF LedgerInv, Rows, CarriedBy, At, StartWindow, Goto,
         Leave
    <3>3. \A x \in Placement : commission[x] # "NONE" => commission'[x] # "NONE"
      BY <1>2 DEF LedgerInv, Rows, StartWindow, commissions
    <3> QED
      BY <2>1, <3>1, <3>2, <3>3 DEF CarriedBy, At
  <2> QED
    BY <2>3, <2>4
<1>3. ASSUME NEW c \in Call, Release(c) PROVE Carried'
  <2> SUFFICES ASSUME NEW d \in Call PROVE CarriedBy(d)'
    BY DEF Carried
  <2>1. c \in Call /\ CarriedBy(c) /\ CarriedBy(d)
    BY DEF LedgerInv, Carried, Call
  <2>2. None # d
    BY LedgerAssumption DEF Call
  <2>3. CASE d = c
    BY <1>3, <2>1, <2>3, LedgerAssumption DEF LedgerInv, Release, At, Goto, Leave,
       Idle, Call, CarriedBy, Rows, CallState, commissions, withdrawals,
       CommissionStatus
  <2>4. CASE d # c
    <3>1. call'[d] = call[d]
      BY <1>3, <2>1, <2>4 DEF LedgerInv, Rows, Release, At, Goto, Leave, commissions,
         withdrawals, ledger
    <3>2. (lock' = d) <=> (lock = d)
      BY <1>3, <2>1, <2>2, <2>4 DEF LedgerInv, Rows, CarriedBy, At, Release, Goto, Leave
    <3>3. \A x \in Placement : commission[x] # "NONE" => commission'[x] # "NONE"
      BY <1>3 DEF LedgerInv, Rows, Release, commissions
    <3> QED
      BY <2>1, <3>1, <3>2, <3>3 DEF CarriedBy, At
  <2> QED
    BY <2>3, <2>4
<1>4. ASSUME NEW c \in Call, CancelCommission(c) PROVE Carried'
  <2> SUFFICES ASSUME NEW d \in Call PROVE CarriedBy(d)'
    BY DEF Carried
  <2>1. c \in Call /\ CarriedBy(c) /\ CarriedBy(d)
    BY DEF LedgerInv, Carried, Call
  <2>2. None # d
    BY LedgerAssumption DEF Call
  <2>3. CASE d = c
    <3>1. call'[c] = Idle
      BY <1>4, <2>1 DEF LedgerInv, Rows, CancelCommission, Leave
    <3>2. lock' # c
      BY <1>4, <2>1, <2>2, <2>3 DEF CancelCommission, Unlock
    <3> QED
      BY <2>1, <2>3, <3>1, <3>2 DEF CarriedBy, At, Idle
  <2>4. CASE d # c
    <3>1. call'[d] = call[d]
      BY <1>4, <2>1, <2>4 DEF LedgerInv, Rows, CancelCommission, At, Goto, Leave,
         Unlock, commissions, withdrawals, ledger
    <3>2. (lock' = d) <=> (lock = d)
      BY <1>4, <2>1, <2>2, <2>4 DEF LedgerInv, Rows, CarriedBy, At, CancelCommission,
         Goto, Leave, Unlock
    <3>3. \A x \in Placement : commission[x] # "NONE" => commission'[x] # "NONE"
      BY <1>4 DEF LedgerInv, Rows, CancelCommission, commissions
    <3> QED
      BY <2>1, <3>1, <3>2, <3>3 DEF CarriedBy, At
  <2> QED
    BY <2>3, <2>4
<1>5. ASSUME NEW c \in Call, NEW p \in Placement, NEW fee \in Fees, NEW eligible \in
   BOOLEAN, NEW atUnlock \in BOOLEAN, LoadUndecided(c, p, fee, eligible, atUnlock)
   PROVE Carried'
  <2> SUFFICES ASSUME NEW d \in Call PROVE CarriedBy(d)'
    BY DEF Carried
  <2>1. c \in Call /\ CarriedBy(c) /\ CarriedBy(d)
    BY DEF LedgerInv, Carried, Call
  <2>2. None # d
    BY LedgerAssumption DEF Call
  <2>3. CASE d = c
    BY <1>5, <2>1, <2>3, LedgerAssumption DEF LedgerInv, LoadUndecided, At, Goto,
       Leave, Idle, Call, CarriedBy, Rows, CallState, commissions, withdrawals,
       CommissionStatus
  <2>4. CASE d # c
    <3>1. call'[d] = call[d]
      BY <1>5, <2>1, <2>4 DEF LedgerInv, Rows, LoadUndecided, At, Goto, Leave,
         commissions, withdrawals, ledger
    <3>2. (lock' = d) <=> (lock = d)
      BY <1>5, <2>1, <2>2, <2>4 DEF LedgerInv, Rows, CarriedBy, At, LoadUndecided,
         Goto, Leave
    <3>3. \A x \in Placement : commission[x] # "NONE" => commission'[x] # "NONE"
      BY <1>5 DEF LedgerInv, Rows, LoadUndecided, commissions
    <3> QED
      BY <2>1, <3>1, <3>2, <3>3 DEF CarriedBy, At
  <2> QED
    BY <2>3, <2>4
<1>6. ASSUME NEW c \in Call, NEW p \in Placement, LoadWaiting(c, p) PROVE Carried'
  <2> SUFFICES ASSUME NEW d \in Call PROVE CarriedBy(d)'
    BY DEF Carried
  <2>1. c \in Call /\ CarriedBy(c) /\ CarriedBy(d)
    BY DEF LedgerInv, Carried, Call
  <2>2. None # d
    BY LedgerAssumption DEF Call
  <2>3. CASE d = c
    BY <1>6, <2>1, <2>3, LedgerAssumption DEF LedgerInv, LoadWaiting, At, Goto, Leave,
       Idle, Call, CarriedBy, Rows, CallState, commissions, withdrawals,
       CommissionStatus
  <2>4. CASE d # c
    <3>1. call'[d] = call[d]
      BY <1>6, <2>1, <2>4 DEF LedgerInv, Rows, LoadWaiting, At, Goto, Leave,
         commissions, withdrawals, ledger
    <3>2. (lock' = d) <=> (lock = d)
      BY <1>6, <2>1, <2>2, <2>4 DEF LedgerInv, Rows, CarriedBy, At, LoadWaiting, Goto,
         Leave
    <3>3. \A x \in Placement : commission[x] # "NONE" => commission'[x] # "NONE"
      BY <1>6 DEF LedgerInv, Rows, LoadWaiting, commissions
    <3> QED
      BY <2>1, <3>1, <3>2, <3>3 DEF CarriedBy, At
  <2> QED
    BY <2>3, <2>4
<1>7. ASSUME NEW c \in Call, NEW p \in Placement, LoadPending(c, p) PROVE Carried'
  <2> SUFFICES ASSUME NEW d \in Call PROVE CarriedBy(d)'
    BY DEF Carried
  <2>1. c \in Call /\ CarriedBy(c) /\ CarriedBy(d)
    BY DEF LedgerInv, Carried, Call
  <2>2. None # d
    BY LedgerAssumption DEF Call
  <2>3. CASE d = c
    <3>1. call'[c] = [Idle EXCEPT !.pc = "cancelling", !.row = p] \/ call'[c] = [Idle EXCEPT !.pc = "releasing", !.row = p]
      BY <1>7, <2>1 DEF LedgerInv, Rows, LoadPending, Goto
    <3>2. lock' # c
      BY <1>7, <2>1, <2>3 DEF LedgerInv, LoadPending, CarriedBy, At
    <3> QED
      BY <2>1, <2>3, <3>1, <3>2 DEF CarriedBy, At, Idle
  <2>4. CASE d # c
    <3>1. call'[d] = call[d]
      BY <1>7, <2>1, <2>4 DEF LedgerInv, Rows, LoadPending, At, Goto, Leave,
         commissions, withdrawals, ledger
    <3>2. (lock' = d) <=> (lock = d)
      BY <1>7, <2>1, <2>2, <2>4 DEF LedgerInv, Rows, CarriedBy, At, LoadPending, Goto,
         Leave
    <3>3. \A x \in Placement : commission[x] # "NONE" => commission'[x] # "NONE"
      BY <1>7 DEF LedgerInv, Rows, LoadPending, commissions
    <3> QED
      BY <2>1, <3>1, <3>2, <3>3 DEF CarriedBy, At
  <2> QED
    BY <2>3, <2>4
<1>8. ASSUME NEW c \in Call, NEW p \in Placement, AdminCancel(c, p) PROVE Carried'
  <2> SUFFICES ASSUME NEW d \in Call PROVE CarriedBy(d)'
    BY DEF Carried
  <2>1. c \in Call /\ CarriedBy(c) /\ CarriedBy(d)
    BY DEF LedgerInv, Carried, Call
  <2>2. None # d
    BY LedgerAssumption DEF Call
  <2>3. CASE d = c
    BY <1>8, <2>1, <2>3, LedgerAssumption DEF LedgerInv, AdminCancel, At, Goto, Leave,
       Idle, Call, CarriedBy, Rows, CallState, commissions, withdrawals,
       CommissionStatus
  <2>4. CASE d # c
    <3>1. call'[d] = call[d]
      BY <1>8, <2>1, <2>4 DEF LedgerInv, Rows, AdminCancel, At, Goto, Leave,
         commissions, withdrawals, ledger
    <3>2. (lock' = d) <=> (lock = d)
      BY <1>8, <2>1, <2>2, <2>4 DEF LedgerInv, Rows, CarriedBy, At, AdminCancel, Goto,
         Leave
    <3>3. \A x \in Placement : commission[x] # "NONE" => commission'[x] # "NONE"
      BY <1>8 DEF LedgerInv, Rows, AdminCancel, commissions
    <3> QED
      BY <2>1, <3>1, <3>2, <3>3 DEF CarriedBy, At
  <2> QED
    BY <2>3, <2>4
<1>9. ASSUME NEW c \in Caller, LockForCancel(c) PROVE Carried'
  <2> SUFFICES ASSUME NEW d \in Call PROVE CarriedBy(d)'
    BY DEF Carried
  <2>1. c \in Call /\ CarriedBy(c) /\ CarriedBy(d)
    BY DEF LedgerInv, Carried, Call
  <2>2. None # d
    BY LedgerAssumption DEF Call
  <2>3. CASE d = c
    BY <1>9, <2>1, <2>3, LedgerAssumption DEF LedgerInv, LockForCancel, At, Goto,
       Leave, Unlocked, Idle, Call, CarriedBy, Rows, CallState, commissions,
       withdrawals, CommissionStatus
  <2>4. CASE d # c
    <3>1. call'[d] = call[d]
      BY <1>9, <2>1, <2>4 DEF LedgerInv, Rows, LockForCancel, At, Goto, Leave,
         Unlocked, commissions, withdrawals, ledger
    <3>2. (lock' = d) <=> (lock = d)
      BY <1>9, <2>1, <2>2, <2>4 DEF LedgerInv, Rows, CarriedBy, At, LockForCancel,
         Goto, Leave, Unlocked
    <3>3. \A x \in Placement : commission[x] # "NONE" => commission'[x] # "NONE"
      BY <1>9 DEF LedgerInv, Rows, LockForCancel, commissions
    <3> QED
      BY <2>1, <3>1, <3>2, <3>3 DEF CarriedBy, At
  <2> QED
    BY <2>3, <2>4
<1>10. ASSUME NEW c \in Caller, NEW w \in Withdrawal, NEW n \in Sizes, Request(c, w,
   n) PROVE Carried'
  <2> SUFFICES ASSUME NEW d \in Call PROVE CarriedBy(d)'
    BY DEF Carried
  <2>1. c \in Call /\ CarriedBy(c) /\ CarriedBy(d)
    BY DEF LedgerInv, Carried, Call
  <2>2. None # d
    BY LedgerAssumption DEF Call
  <2>3. CASE d = c
    BY <1>10, <2>1, <2>3, LedgerAssumption DEF LedgerInv, Request, At, Goto, Leave,
       Unlocked, Idle, Call, CarriedBy, Rows, CallState, commissions, withdrawals,
       CommissionStatus
  <2>4. CASE d # c
    <3>1. call'[d] = call[d]
      BY <1>10, <2>1, <2>4 DEF LedgerInv, Rows, Request, At, Goto, Leave, Unlocked,
         commissions, withdrawals, ledger
    <3>2. (lock' = d) <=> (lock = d)
      BY <1>10, <2>1, <2>2, <2>4 DEF LedgerInv, Rows, CarriedBy, At, Request, Goto,
         Leave, Unlocked
    <3>3. \A x \in Placement : commission[x] # "NONE" => commission'[x] # "NONE"
      BY <1>10 DEF LedgerInv, Rows, Request, commissions
    <3> QED
      BY <2>1, <3>1, <3>2, <3>3 DEF CarriedBy, At
  <2> QED
    BY <2>3, <2>4
<1>11. ASSUME NEW c \in Caller, CreateWithdrawal(c) PROVE Carried'
  <2> SUFFICES ASSUME NEW d \in Call PROVE CarriedBy(d)'
    BY DEF Carried
  <2>1. c \in Call /\ CarriedBy(c) /\ CarriedBy(d)
    BY DEF LedgerInv, Carried, Call
  <2>2. None # d
    BY LedgerAssumption DEF Call
  <2>3. CASE d = c
    <3>1. call'[c] = Idle
      BY <1>11, <2>1 DEF LedgerInv, Rows, CreateWithdrawal, Leave
    <3>2. lock' # c
      BY <1>11, <2>1, <2>2, <2>3 DEF CreateWithdrawal, Unlock
    <3> QED
      BY <2>1, <2>3, <3>1, <3>2 DEF CarriedBy, At, Idle
  <2>4. CASE d # c
    <3>1. call'[d] = call[d]
      BY <1>11, <2>1, <2>4 DEF LedgerInv, Rows, CreateWithdrawal, At, Goto, Leave,
         Unlock, commissions, withdrawals, ledger
    <3>2. (lock' = d) <=> (lock = d)
      BY <1>11, <2>1, <2>2, <2>4 DEF LedgerInv, Rows, CarriedBy, At, CreateWithdrawal,
         Goto, Leave, Unlock
    <3>3. \A x \in Placement : commission[x] # "NONE" => commission'[x] # "NONE"
      BY <1>11 DEF LedgerInv, Rows, CreateWithdrawal, commissions
    <3> QED
      BY <2>1, <3>1, <3>2, <3>3 DEF CarriedBy, At
  <2> QED
    BY <2>3, <2>4
<1>12. ASSUME NEW c \in Call, Interrupt(c) PROVE Carried'
  <2> SUFFICES ASSUME NEW d \in Call PROVE CarriedBy(d)'
    BY DEF Carried
  <2>1. c \in Call /\ CarriedBy(c) /\ CarriedBy(d)
    BY DEF LedgerInv, Carried, Call
  <2>2. None # d
    BY LedgerAssumption DEF Call
  <2>3. CASE d = c
    <3>1. call'[c] = Idle
      BY <1>12, <2>1 DEF LedgerInv, Rows, Interrupt, Leave
    <3>2. lock' # c
      BY <1>12, <2>1, <2>2, <2>3 DEF Interrupt, Unlock
    <3> QED
      BY <2>1, <2>3, <3>1, <3>2 DEF CarriedBy, At, Idle
  <2>4. CASE d # c
    <3>1. call'[d] = call[d]
      BY <1>12, <2>1, <2>4 DEF LedgerInv, Rows, Interrupt, At, Goto, Leave, Unlock,
         commissions, withdrawals, ledger
    <3>2. (lock' = d) <=> (lock = d)
      BY <1>12, <2>1, <2>2, <2>4 DEF LedgerInv, Rows, CarriedBy, At, Interrupt, Goto,
         Leave, Unlock
    <3>3. \A x \in Placement : commission[x] # "NONE" => commission'[x] # "NONE"
      BY <1>12 DEF LedgerInv, Rows, Interrupt, commissions
    <3> QED
      BY <2>1, <3>1, <3>2, <3>3 DEF CarriedBy, At
  <2> QED
    BY <2>3, <2>4
<1>13. ASSUME NEW w \in Withdrawal, Pay(w) PROVE Carried'
  BY <1>13 DEF Pay, LedgerInv, Carried, CarriedBy, At, commissions, withdrawals
<1>14. ASSUME NEW w \in Withdrawal, Reject(w) PROVE Carried'
  BY <1>14 DEF Reject, LedgerInv, Carried, CarriedBy, At, commissions, withdrawals
<1>15. ASSUME NEW w \in Withdrawal, CancelWithdrawal(w) PROVE Carried'
  BY <1>15 DEF CancelWithdrawal, LedgerInv, Carried, CarriedBy, At, commissions,
     withdrawals
<1>16. ASSUME NEW p \in Placement, WindowPasses(p) PROVE Carried'
  BY <1>16 DEF WindowPasses, LedgerInv, Carried, CarriedBy, At, commissions, withdrawals
<1>17. ASSUME NEW p \in Placement, UnlockContacts(p) PROVE Carried'
  BY <1>17 DEF UnlockContacts, LedgerInv, Carried, CarriedBy, At, commissions,
     withdrawals
<1>18. ASSUME NEW p \in Placement, NEW end \in {"COMPLETED","CANCELLED"},
   EndMission(p, end) PROVE Carried'
  BY <1>18 DEF EndMission, LedgerInv, Carried, CarriedBy, At, commissions, withdrawals
<1>19. ASSUME SetActive PROVE Carried'
  BY <1>19 DEF SetActive, LedgerInv, Carried, CarriedBy, At, commissions, withdrawals
<1>20. ASSUME UNCHANGED vars PROVE Carried'
  BY <1>20 DEF vars, LedgerInv, Carried, CarriedBy, Rows, At, ledger, commissions,
     withdrawals
<1> QED
  BY <1>1, <1>2, <1>3, <1>4, <1>5, <1>6, <1>7, <1>8, <1>9, <1>10, <1>11,
     <1>12, <1>13, <1>14, <1>15, <1>16, <1>17, <1>18, <1>19, <1>20
     DEF Next, SweepStep, Load, CallerStep, Call

\* Every step writes the key of the status it sets.
LEMMA KeysStep ==
  ASSUME LedgerInv, [Next]_vars
  PROVE  KeysFollow'
<1>1. ASSUME NEW c \in Call, CreateCommission(c) PROVE KeysFollow'
  <2>1. call[c].row \in Placement
    BY <1>1 DEF LedgerInv, Carried, CarriedBy, CreateCommission, At, Call
  <2>2. entries' = entries \/ entries' = entries \cup {<<call[c].row, "earned">>}
    BY <1>1 DEF CreateCommission, WriteLedger, ledger
  <2> SUFFICES ASSUME NEW v \in Withdrawal PROVE KeysOf(v)'
    BY DEF KeysFollow
  <2>3. KeysOf(v)
    BY DEF LedgerInv, KeysFollow
  <2> QED
    BY <1>1, <2>1, <2>2, <2>3, LedgerAssumption DEF LedgerInv, CreateCommission,
       KeysOf, Rows, commissions, withdrawals, WithdrawalStatus
<1>2. ASSUME NEW c \in Call, StartWindow(c) PROVE KeysFollow'
  BY <1>2 DEF StartWindow, LedgerInv, KeysFollow, KeysOf, ledger, withdrawals
<1>3. ASSUME NEW c \in Call, Release(c) PROVE KeysFollow'
  <2>1. call[c].row \in Placement
    BY <1>3 DEF LedgerInv, Carried, CarriedBy, Release, At, Call
  <2>2. entries' = entries \/ entries' = entries \cup {<<call[c].row, "released">>}
    BY <1>3 DEF Release, WriteLedger, ledger
  <2> SUFFICES ASSUME NEW v \in Withdrawal PROVE KeysOf(v)'
    BY DEF KeysFollow
  <2>3. KeysOf(v)
    BY DEF LedgerInv, KeysFollow
  <2> QED
    BY <1>3, <2>1, <2>2, <2>3, LedgerAssumption DEF LedgerInv, Release, KeysOf, Rows,
       commissions, withdrawals, WithdrawalStatus
<1>4. ASSUME NEW c \in Call, CancelCommission(c) PROVE KeysFollow'
  <2>1. call[c].row \in Placement
    BY <1>4 DEF LedgerInv, Carried, CarriedBy, CancelCommission, At, Call
  <2>2. entries' = entries \/ entries' = entries \cup {<<call[c].row, "cancelled">>}
    BY <1>4 DEF CancelCommission, WriteLedger, ledger
  <2> SUFFICES ASSUME NEW v \in Withdrawal PROVE KeysOf(v)'
    BY DEF KeysFollow
  <2>3. KeysOf(v)
    BY DEF LedgerInv, KeysFollow
  <2> QED
    BY <1>4, <2>1, <2>2, <2>3, LedgerAssumption DEF LedgerInv, CancelCommission,
       KeysOf, Rows, commissions, withdrawals, WithdrawalStatus
<1>5. ASSUME NEW c \in Call, NEW p \in Placement, NEW fee \in Fees, NEW eligible \in
   BOOLEAN, NEW atUnlock \in BOOLEAN, LoadUndecided(c, p, fee, eligible, atUnlock)
   PROVE KeysFollow'
  BY <1>5 DEF LoadUndecided, LedgerInv, KeysFollow, KeysOf, ledger, withdrawals
<1>6. ASSUME NEW c \in Call, NEW p \in Placement, LoadWaiting(c, p) PROVE KeysFollow'
  BY <1>6 DEF LoadWaiting, LedgerInv, KeysFollow, KeysOf, ledger, withdrawals
<1>7. ASSUME NEW c \in Call, NEW p \in Placement, LoadPending(c, p) PROVE KeysFollow'
  BY <1>7 DEF LoadPending, LedgerInv, KeysFollow, KeysOf, ledger, withdrawals
<1>8. ASSUME NEW c \in Call, NEW p \in Placement, AdminCancel(c, p) PROVE KeysFollow'
  BY <1>8 DEF AdminCancel, LedgerInv, KeysFollow, KeysOf, ledger, withdrawals
<1>9. ASSUME NEW c \in Caller, LockForCancel(c) PROVE KeysFollow'
  BY <1>9 DEF LockForCancel, LedgerInv, KeysFollow, KeysOf, ledger, withdrawals
<1>10. ASSUME NEW c \in Caller, NEW w \in Withdrawal, NEW n \in Sizes, Request(c, w,
   n) PROVE KeysFollow'
  BY <1>10 DEF Request, LedgerInv, KeysFollow, KeysOf, ledger, withdrawals
<1>11. ASSUME NEW c \in Caller, CreateWithdrawal(c) PROVE KeysFollow'
  <2>1. call[c].row \in Withdrawal
    BY <1>11 DEF LedgerInv, Carried, CarriedBy, CreateWithdrawal, At, Call
  <2>2. entries' = entries \/ entries' = entries \cup {<<call[c].row, "requested">>}
    BY <1>11 DEF CreateWithdrawal, WriteLedger, ledger
  <2> SUFFICES ASSUME NEW v \in Withdrawal PROVE KeysOf(v)'
    BY DEF KeysFollow
  <2>3. KeysOf(v)
    BY DEF LedgerInv, KeysFollow
  <2>4. entries' = entries \/ /\ withdrawal' = [withdrawal EXCEPT ![call[c].row] = "REQUESTED"]
                              /\ withdrawal[call[c].row] = "NONE"
    BY <1>11 DEF CreateWithdrawal, ledger
  <2>5. entries' = entries => withdrawal' = withdrawal \/ withdrawal' = [withdrawal EXCEPT ![call[c].row] = "REQUESTED"]
    BY <1>11 DEF CreateWithdrawal, withdrawals
  <2> QED
    BY <2>4, <2>5, <1>11, <2>1, <2>2, <2>3, LedgerAssumption DEF LedgerInv,
       CreateWithdrawal, KeysOf, Rows, commissions, withdrawals, WithdrawalStatus
<1>12. ASSUME NEW c \in Call, Interrupt(c) PROVE KeysFollow'
  BY <1>12 DEF Interrupt, LedgerInv, KeysFollow, KeysOf, ledger, withdrawals
<1>13. ASSUME NEW w \in Withdrawal, Pay(w) PROVE KeysFollow'
  <2>1. w \in Withdrawal
    OBVIOUS
  <2>2. entries' = entries \/ entries' = entries \cup {<<w, "paid">>}
    BY <1>13 DEF Pay, WriteLedger, ledger
  <2> SUFFICES ASSUME NEW v \in Withdrawal PROVE KeysOf(v)'
    BY DEF KeysFollow
  <2>3. KeysOf(v)
    BY DEF LedgerInv, KeysFollow
  <2> QED
    BY <1>13, <2>1, <2>2, <2>3, LedgerAssumption DEF LedgerInv, Pay, KeysOf, Rows,
       commissions, withdrawals, WithdrawalStatus
<1>14. ASSUME NEW w \in Withdrawal, Reject(w) PROVE KeysFollow'
  <2>1. w \in Withdrawal
    OBVIOUS
  <2>2. entries' = entries \/ entries' = entries \cup {<<w, "rejected">>}
    BY <1>14 DEF Reject, WriteLedger, ledger
  <2> SUFFICES ASSUME NEW v \in Withdrawal PROVE KeysOf(v)'
    BY DEF KeysFollow
  <2>3. KeysOf(v)
    BY DEF LedgerInv, KeysFollow
  <2> QED
    BY <1>14, <2>1, <2>2, <2>3, LedgerAssumption DEF LedgerInv, Reject, KeysOf, Rows,
       commissions, withdrawals, WithdrawalStatus
<1>15. ASSUME NEW w \in Withdrawal, CancelWithdrawal(w) PROVE KeysFollow'
  <2>1. w \in Withdrawal
    OBVIOUS
  <2>2. entries' = entries \/ entries' = entries \cup {<<w, "cancelled">>}
    BY <1>15 DEF CancelWithdrawal, WriteLedger, ledger
  <2> SUFFICES ASSUME NEW v \in Withdrawal PROVE KeysOf(v)'
    BY DEF KeysFollow
  <2>3. KeysOf(v)
    BY DEF LedgerInv, KeysFollow
  <2> QED
    BY <1>15, <2>1, <2>2, <2>3, LedgerAssumption DEF LedgerInv, CancelWithdrawal,
       KeysOf, Rows, commissions, withdrawals, WithdrawalStatus
<1>16. ASSUME NEW p \in Placement, WindowPasses(p) PROVE KeysFollow'
  BY <1>16 DEF WindowPasses, LedgerInv, KeysFollow, KeysOf, ledger, withdrawals
<1>17. ASSUME NEW p \in Placement, UnlockContacts(p) PROVE KeysFollow'
  BY <1>17 DEF UnlockContacts, LedgerInv, KeysFollow, KeysOf, ledger, withdrawals
<1>18. ASSUME NEW p \in Placement, NEW end \in {"COMPLETED","CANCELLED"},
   EndMission(p, end) PROVE KeysFollow'
  BY <1>18 DEF EndMission, LedgerInv, KeysFollow, KeysOf, ledger, withdrawals
<1>19. ASSUME SetActive PROVE KeysFollow'
  BY <1>19 DEF SetActive, LedgerInv, KeysFollow, KeysOf, ledger, withdrawals
<1>20. ASSUME UNCHANGED vars PROVE KeysFollow'
  BY <1>20 DEF vars, LedgerInv, KeysFollow, KeysOf, Rows, At, ledger, commissions,
     withdrawals
<1> QED
  BY <1>1, <1>2, <1>3, <1>4, <1>5, <1>6, <1>7, <1>8, <1>9, <1>10, <1>11,
     <1>12, <1>13, <1>14, <1>15, <1>16, <1>17, <1>18, <1>19, <1>20
     DEF Next, SweepStep, Load, CallerStep, Call

\* A request is opened only when no other is open.
LEMMA OpenStep ==
  ASSUME LedgerInv, [Next]_vars
  PROVE  OneOpen'
<1> USE LedgerAssumption DEF LedgerInv, Carried, CarriedBy, Rows, At, Call, OneOpen,
   environment, commissions, withdrawals, ledger
<1>1. ASSUME NEW c \in Call, CreateCommission(c) PROVE OneOpen'
  BY <1>1 DEF CreateCommission, At, Goto, Leave, ledger, WriteLedger
<1>2. ASSUME NEW c \in Call, StartWindow(c) PROVE OneOpen'
  BY <1>2 DEF StartWindow, At, Goto, Leave
<1>3. ASSUME NEW c \in Call, Release(c) PROVE OneOpen'
  BY <1>3 DEF Release, At, Goto, Leave, ledger, WriteLedger
<1>4. ASSUME NEW c \in Call, CancelCommission(c) PROVE OneOpen'
  BY <1>4 DEF CancelCommission, At, Goto, Leave, Unlock, ledger, WriteLedger
<1>5. ASSUME NEW c \in Call, NEW p \in Placement, NEW fee \in Fees, NEW eligible \in
   BOOLEAN, NEW atUnlock \in BOOLEAN, LoadUndecided(c, p, fee, eligible, atUnlock)
   PROVE OneOpen'
  BY <1>5 DEF LoadUndecided, At, Goto, Leave
<1>6. ASSUME NEW c \in Call, NEW p \in Placement, LoadWaiting(c, p) PROVE OneOpen'
  BY <1>6 DEF LoadWaiting, At, Goto, Leave
<1>7. ASSUME NEW c \in Call, NEW p \in Placement, LoadPending(c, p) PROVE OneOpen'
  BY <1>7 DEF LoadPending, At, Goto, Leave
<1>8. ASSUME NEW c \in Call, NEW p \in Placement, AdminCancel(c, p) PROVE OneOpen'
  BY <1>8 DEF AdminCancel, At, Goto, Leave
<1>9. ASSUME NEW c \in Caller, LockForCancel(c) PROVE OneOpen'
  BY <1>9 DEF LockForCancel, At, Goto, Leave, Unlocked
<1>10. ASSUME NEW c \in Caller, NEW w \in Withdrawal, NEW n \in Sizes, Request(c, w,
   n) PROVE OneOpen'
  BY <1>10 DEF Request, At, Goto, Leave, Unlocked
<1>11. ASSUME NEW c \in Caller, CreateWithdrawal(c) PROVE OneOpen'
  BY <1>11 DEF CreateWithdrawal, At, Goto, Leave, Unlock, ledger, WriteLedger
<1>12. ASSUME NEW c \in Call, Interrupt(c) PROVE OneOpen'
  BY <1>12 DEF Interrupt, At, Goto, Leave, Unlock
<1>13. ASSUME NEW w \in Withdrawal, Pay(w) PROVE OneOpen'
  BY <1>13 DEF Pay, At, Goto, Leave, ledger, WriteLedger
<1>14. ASSUME NEW w \in Withdrawal, Reject(w) PROVE OneOpen'
  BY <1>14 DEF Reject, At, Goto, Leave, ledger, WriteLedger
<1>15. ASSUME NEW w \in Withdrawal, CancelWithdrawal(w) PROVE OneOpen'
  BY <1>15 DEF CancelWithdrawal, At, Goto, Leave, Unlocked, ledger, WriteLedger
<1>16. ASSUME NEW p \in Placement, WindowPasses(p) PROVE OneOpen'
  BY <1>16 DEF WindowPasses, At, Goto, Leave
<1>17. ASSUME NEW p \in Placement, UnlockContacts(p) PROVE OneOpen'
  BY <1>17 DEF UnlockContacts, At, Goto, Leave
<1>18. ASSUME NEW p \in Placement, NEW end \in {"COMPLETED","CANCELLED"},
   EndMission(p, end) PROVE OneOpen'
  BY <1>18 DEF EndMission, At, Goto, Leave
<1>19. ASSUME SetActive PROVE OneOpen'
  BY <1>19 DEF SetActive, At, Goto, Leave
<1>20. ASSUME UNCHANGED vars PROVE OneOpen'
  BY <1>20 DEF vars
<1> QED
  BY <1>1, <1>2, <1>3, <1>4, <1>5, <1>6, <1>7, <1>8, <1>9, <1>10, <1>11,
     <1>12, <1>13, <1>14, <1>15, <1>16, <1>17, <1>18, <1>19, <1>20
     DEF Next, SweepStep, Load, CallerStep, Call

\* Money is locked with a request and leaves with it.
LEMMA LockedStep ==
  ASSUME LedgerInv, [Next]_vars
  PROVE  LockedIsAsked'
<1> USE LedgerAssumption DEF LedgerInv, Carried, CarriedBy, Rows, At, Call,
   KeysFollow, KeysOf, OneOpen, LockedIsAsked, Step, Bucket, CallState, environment,
   commissions, withdrawals, ledger
<1>1. ASSUME NEW c \in Call, CreateCommission(c) PROVE LockedIsAsked'
  BY <1>1 DEF CreateCommission, At, Goto, Leave, ledger, WriteLedger
<1>2. ASSUME NEW c \in Call, StartWindow(c) PROVE LockedIsAsked'
  BY <1>2 DEF StartWindow, At, Goto, Leave
<1>3. ASSUME NEW c \in Call, Release(c) PROVE LockedIsAsked'
  BY <1>3 DEF Release, At, Goto, Leave, ledger, WriteLedger
<1>4. ASSUME NEW c \in Call, CancelCommission(c) PROVE LockedIsAsked'
  BY <1>4 DEF CancelCommission, At, Goto, Leave, Unlock, ledger, WriteLedger
<1>5. ASSUME NEW c \in Call, NEW p \in Placement, NEW fee \in Fees, NEW eligible \in
   BOOLEAN, NEW atUnlock \in BOOLEAN, LoadUndecided(c, p, fee, eligible, atUnlock)
   PROVE LockedIsAsked'
  BY <1>5 DEF LoadUndecided, At, Goto, Leave
<1>6. ASSUME NEW c \in Call, NEW p \in Placement, LoadWaiting(c, p) PROVE LockedIsAsked'
  BY <1>6 DEF LoadWaiting, At, Goto, Leave
<1>7. ASSUME NEW c \in Call, NEW p \in Placement, LoadPending(c, p) PROVE LockedIsAsked'
  BY <1>7 DEF LoadPending, At, Goto, Leave
<1>8. ASSUME NEW c \in Call, NEW p \in Placement, AdminCancel(c, p) PROVE LockedIsAsked'
  BY <1>8 DEF AdminCancel, At, Goto, Leave
<1>9. ASSUME NEW c \in Caller, LockForCancel(c) PROVE LockedIsAsked'
  BY <1>9 DEF LockForCancel, At, Goto, Leave, Unlocked
<1>10. ASSUME NEW c \in Caller, NEW w \in Withdrawal, NEW n \in Sizes, Request(c, w,
   n) PROVE LockedIsAsked'
  BY <1>10 DEF Request, At, Goto, Leave, Unlocked
<1>11. ASSUME NEW c \in Caller, CreateWithdrawal(c) PROVE LockedIsAsked'
  <2> DEFINE w == call[c].row
  <2>1. w \in Withdrawal /\ call[c].size \in Nat
    BY <1>11 DEF CreateWithdrawal
  <2>2. CASE withdrawal[w] = "NONE" /\ \A v \in Withdrawal : withdrawal[v] # "REQUESTED"
    <3>1. /\ withdrawal' = [withdrawal EXCEPT ![w] = "REQUESTED"]
          /\ asked' = [asked EXCEPT ![w] = call[c].size]
          /\ WriteLedger(w, "requested", "AVAILABLE", "LOCKED", call[c].size)
      BY <1>11, <2>2 DEF CreateWithdrawal
    <3>2. <<w, "requested">> \notin entries /\ balance["LOCKED"] = 0
      BY <2>1, <2>2
    <3>3. "requested" \in Step /\ "LOCKED" \in Bucket
      OBVIOUS
    <3>4. balance'["LOCKED"] = balance["LOCKED"] + call[c].size - 0
      BY <2>1, <3>1, <3>2, <3>3 DEF WriteLedger
    <3>5. balance'["LOCKED"] = call[c].size /\ asked'[w] = call[c].size
      BY <2>1, <3>1, <3>2, <3>4
    <3>6. \A v \in Withdrawal : withdrawal'[v] = "REQUESTED" <=> v = w
      BY <2>1, <2>2, <3>1
    <3> QED
      BY <2>1, <3>5, <3>6
  <2>3. CASE ~(withdrawal[w] = "NONE" /\ \A v \in Withdrawal : withdrawal[v] # "REQUESTED")
    BY <1>11, <2>3 DEF CreateWithdrawal, ledger
  <2> QED
    BY <2>2, <2>3
<1>12. ASSUME NEW c \in Call, Interrupt(c) PROVE LockedIsAsked'
  BY <1>12 DEF Interrupt, At, Goto, Leave, Unlock
<1>13. ASSUME NEW w \in Withdrawal, Pay(w) PROVE LockedIsAsked'
  <2>1. /\ withdrawal[w] = "REQUESTED" /\ asked' = asked
        /\ withdrawal' = [withdrawal EXCEPT ![w] = "PAID"]
    BY <1>13 DEF Pay
  <2>2. asked[w] \in Nat /\ balance["LOCKED"] = asked[w]
    BY <2>1
  <2>3. <<w, "paid">> \notin entries
    BY <2>1
  <2>4. balance'["LOCKED"] = balance["LOCKED"] - asked[w]
    <3>1. WriteLedger(w, "paid", "LOCKED", "PAID_OUT", asked[w])
      BY <1>13 DEF Pay
    <3>2. "paid" \in Step /\ "LOCKED" \in Bucket /\ balance["LOCKED"] \in Int
      BY <2>2
    <3>3. balance'["LOCKED"] = balance["LOCKED"] + 0 - asked[w]
      BY <2>2, <2>3, <3>1, <3>2 DEF WriteLedger
    <3> QED
      BY <2>2, <3>2, <3>3
  <2>5. \A v \in Withdrawal : withdrawal'[v] # "REQUESTED"
    BY <2>1
  <2> QED
    BY <2>2, <2>4, <2>5
<1>14. ASSUME NEW w \in Withdrawal, Reject(w) PROVE LockedIsAsked'
  <2>1. /\ withdrawal[w] = "REQUESTED" /\ asked' = asked
        /\ withdrawal' = [withdrawal EXCEPT ![w] = "REJECTED"]
    BY <1>14 DEF Reject
  <2>2. asked[w] \in Nat /\ balance["LOCKED"] = asked[w]
    BY <2>1
  <2>3. <<w, "rejected">> \notin entries
    BY <2>1
  <2>4. balance'["LOCKED"] = balance["LOCKED"] - asked[w]
    <3>1. WriteLedger(w, "rejected", "LOCKED", "AVAILABLE", asked[w])
      BY <1>14 DEF Reject
    <3>2. "rejected" \in Step /\ "LOCKED" \in Bucket /\ balance["LOCKED"] \in Int
      BY <2>2
    <3>3. balance'["LOCKED"] = balance["LOCKED"] + 0 - asked[w]
      BY <2>2, <2>3, <3>1, <3>2 DEF WriteLedger
    <3> QED
      BY <2>2, <3>2, <3>3
  <2>5. \A v \in Withdrawal : withdrawal'[v] # "REQUESTED"
    BY <2>1
  <2> QED
    BY <2>2, <2>4, <2>5
<1>15. ASSUME NEW w \in Withdrawal, CancelWithdrawal(w) PROVE LockedIsAsked'
  <2>1. /\ withdrawal[w] = "REQUESTED" /\ asked' = asked
        /\ withdrawal' = [withdrawal EXCEPT ![w] = "CANCELLED"]
    BY <1>15 DEF CancelWithdrawal
  <2>2. asked[w] \in Nat /\ balance["LOCKED"] = asked[w]
    BY <2>1
  <2>3. <<w, "cancelled">> \notin entries
    BY <2>1
  <2>4. balance'["LOCKED"] = balance["LOCKED"] - asked[w]
    <3>1. WriteLedger(w, "cancelled", "LOCKED", "AVAILABLE", asked[w])
      BY <1>15 DEF CancelWithdrawal
    <3>2. "cancelled" \in Step /\ "LOCKED" \in Bucket /\ balance["LOCKED"] \in Int
      BY <2>2
    <3>3. balance'["LOCKED"] = balance["LOCKED"] + 0 - asked[w]
      BY <2>2, <2>3, <3>1, <3>2 DEF WriteLedger
    <3> QED
      BY <2>2, <3>2, <3>3
  <2>5. \A v \in Withdrawal : withdrawal'[v] # "REQUESTED"
    BY <2>1
  <2> QED
    BY <2>2, <2>4, <2>5
<1>16. ASSUME NEW p \in Placement, WindowPasses(p) PROVE LockedIsAsked'
  BY <1>16 DEF WindowPasses, At, Goto, Leave
<1>17. ASSUME NEW p \in Placement, UnlockContacts(p) PROVE LockedIsAsked'
  BY <1>17 DEF UnlockContacts, At, Goto, Leave
<1>18. ASSUME NEW p \in Placement, NEW end \in {"COMPLETED","CANCELLED"},
   EndMission(p, end) PROVE LockedIsAsked'
  BY <1>18 DEF EndMission, At, Goto, Leave
<1>19. ASSUME SetActive PROVE LockedIsAsked'
  BY <1>19 DEF SetActive, At, Goto, Leave
<1>20. ASSUME UNCHANGED vars PROVE LockedIsAsked'
  BY <1>20 DEF vars
<1> QED
  BY <1>1, <1>2, <1>3, <1>4, <1>5, <1>6, <1>7, <1>8, <1>9, <1>10, <1>11,
     <1>12, <1>13, <1>14, <1>15, <1>16, <1>17, <1>18, <1>19, <1>20
     DEF Next, SweepStep, Load, CallerStep, Call

\* Only the holder of the agent's lock takes from the available balance.
LEMMA CoveredStep ==
  ASSUME LedgerInv, [Next]_vars
  PROVE  Covered'
<1> USE LedgerAssumption DEF LedgerInv, Carried, CarriedBy, Rows, At, Call,
   KeysFollow, KeysOf, LockedIsAsked, OneOpen, Covered, Step, Bucket, CallState, Idle,
   environment, commissions, withdrawals, ledger
<1>1. ASSUME NEW c \in Call, CreateCommission(c) PROVE Covered'
  BY SMTT(20), <1>1 DEF CreateCommission, At, Goto, Leave, ledger, WriteLedger
<1>2. ASSUME NEW c \in Call, StartWindow(c) PROVE Covered'
  BY <1>2 DEF StartWindow, At, Goto, Leave
<1>3. ASSUME NEW c \in Call, Release(c) PROVE Covered'
  BY SMTT(20), <1>3 DEF Release, At, Goto, Leave, ledger, WriteLedger
<1>4. ASSUME NEW c \in Call, CancelCommission(c) PROVE Covered'
  BY SMTT(20), <1>4 DEF CancelCommission, At, Goto, Leave, Unlock, ledger, WriteLedger
<1>5. ASSUME NEW c \in Call, NEW p \in Placement, NEW fee \in Fees, NEW eligible \in
   BOOLEAN, NEW atUnlock \in BOOLEAN, LoadUndecided(c, p, fee, eligible, atUnlock)
   PROVE Covered'
  BY <1>5 DEF LoadUndecided, At, Goto, Leave
<1>6. ASSUME NEW c \in Call, NEW p \in Placement, LoadWaiting(c, p) PROVE Covered'
  BY <1>6 DEF LoadWaiting, At, Goto, Leave
<1>7. ASSUME NEW c \in Call, NEW p \in Placement, LoadPending(c, p) PROVE Covered'
  <2>1. \/ call'[c] = [Idle EXCEPT !.pc = "cancelling", !.row = p]
        \/ call'[c] = [Idle EXCEPT !.pc = "releasing", !.row = p]
    BY <1>7 DEF LoadPending, Goto
  <2>2. call'[c].pc \in {"cancelling", "releasing"}
    BY ZenonT(60), <2>1
  <2>3. \A d \in Call : d # c => call'[d] = call[d]
    BY <1>7 DEF LoadPending, Goto
  <2> QED
    BY <1>7, <2>2, <2>3 DEF LoadPending
<1>8. ASSUME NEW c \in Call, NEW p \in Placement, AdminCancel(c, p) PROVE Covered'
  BY <1>8 DEF AdminCancel, At, Goto, Leave
<1>9. ASSUME NEW c \in Caller, LockForCancel(c) PROVE Covered'
  BY SMTT(20), <1>9 DEF LockForCancel, At, Goto, Leave, Unlocked
<1>10. ASSUME NEW c \in Caller, NEW w \in Withdrawal, NEW n \in Sizes, Request(c, w,
   n) PROVE Covered'
  BY <1>10 DEF Request, At, Goto, Leave, Unlocked
<1>11. ASSUME NEW c \in Caller, CreateWithdrawal(c) PROVE Covered'
  BY <1>11 DEF CreateWithdrawal, At, Goto, Leave, Unlock, ledger, WriteLedger
<1>12. ASSUME NEW c \in Call, Interrupt(c) PROVE Covered'
  BY <1>12 DEF Interrupt, At, Goto, Leave, Unlock
<1>13. ASSUME NEW w \in Withdrawal, Pay(w) PROVE Covered'
  BY <1>13 DEF Pay, At, Goto, Leave, ledger, WriteLedger
<1>14. ASSUME NEW w \in Withdrawal, Reject(w) PROVE Covered'
  BY <1>14 DEF Reject, At, Goto, Leave, ledger, WriteLedger
<1>15. ASSUME NEW w \in Withdrawal, CancelWithdrawal(w) PROVE Covered'
  BY <1>15 DEF CancelWithdrawal, At, Goto, Leave, Unlocked, ledger, WriteLedger
<1>16. ASSUME NEW p \in Placement, WindowPasses(p) PROVE Covered'
  BY <1>16 DEF WindowPasses, At, Goto, Leave
<1>17. ASSUME NEW p \in Placement, UnlockContacts(p) PROVE Covered'
  BY <1>17 DEF UnlockContacts, At, Goto, Leave
<1>18. ASSUME NEW p \in Placement, NEW end \in {"COMPLETED","CANCELLED"},
   EndMission(p, end) PROVE Covered'
  BY <1>18 DEF EndMission, At, Goto, Leave
<1>19. ASSUME SetActive PROVE Covered'
  BY <1>19 DEF SetActive, At, Goto, Leave
<1>20. ASSUME UNCHANGED vars PROVE Covered'
  BY <1>20 DEF vars
<1> QED
  BY <1>1, <1>2, <1>3, <1>4, <1>5, <1>6, <1>7, <1>8, <1>9, <1>10, <1>11,
     <1>12, <1>13, <1>14, <1>15, <1>16, <1>17, <1>18, <1>19, <1>20
     DEF Next, SweepStep, Load, CallerStep, Call

\* The inductive invariant holds initially.
LEMMA LedgerInit == Init => LedgerInv
<1> SUFFICES ASSUME Init PROVE LedgerInv
  OBVIOUS
<1>1. Rows
  BY IdleIsCall DEF Init, Rows, CommissionStatus, WithdrawalStatus
<1>2. Carried
  BY LedgerAssumption DEF Init, Carried, CarriedBy, At, Idle, Call
<1>3. KeysFollow /\ OneOpen /\ LockedIsAsked
  BY DEF Init, KeysFollow, KeysOf, OneOpen, LockedIsAsked, Bucket
<1>4. Covered
  BY DEF Init, Covered, At, Idle, Bucket
<1> QED
  BY <1>1, <1>2, <1>3, <1>4 DEF LedgerInv

\* It is preserved by every step.
LEMMA LedgerStep == LedgerInv /\ [Next]_vars => LedgerInv'
<1> SUFFICES ASSUME LedgerInv, [Next]_vars PROVE LedgerInv'
  OBVIOUS
<1>1. Rows'
  BY RowsStep DEF LedgerInv
<1> QED
  BY <1>1, CarriedStep, KeysStep, OpenStep, LockedStep, CoveredStep DEF LedgerInv

\* It rules out a negative balance: what is locked is what was asked for.
LEMMA LedgerSafe == LedgerInv => NeverOverdrawn
<1> SUFFICES ASSUME LedgerInv PROVE NeverOverdrawn
  OBVIOUS
<1>1. balance["LOCKED"] >= 0
  <2>1. CASE \E w \in Withdrawal : withdrawal[w] = "REQUESTED"
    BY <2>1 DEF LedgerInv, Rows, LockedIsAsked
  <2>2. CASE \A w \in Withdrawal : withdrawal[w] # "REQUESTED"
    BY <2>2 DEF LedgerInv, LockedIsAsked
  <2> QED
    BY <2>1, <2>2
<1> QED
  BY <1>1 DEF LedgerInv, Covered, NeverOverdrawn

\* The agent's available balance and the money locked for a withdrawal never go
\* below zero, whatever sweeps, withdrawals and decisions overlap: request and
\* adminCancel decide under the lock of the agent's row, and pay, reject and
\* cancel move only what their request locked.
THEOREM AgentNeverOverdraws == Spec => []NeverOverdrawn
<1> QED
  BY LedgerInit, LedgerStep, LedgerSafe, PTL DEF Spec

\* A settled row is left as it is by every step.
LEMMA SettledStep ==
  LedgerInv /\ [Next]_vars =>
    /\ \A w \in Withdrawal :
         withdrawal[w] \in {"PAID", "REJECTED", "CANCELLED"} =>
           withdrawal'[w] = withdrawal[w]
    /\ \A p \in Placement :
         commission[p] \in {"INELIGIBLE", "CANCELLED"} =>
           commission'[p] = commission[p]
<1> DEFINE Kept ==
      /\ \A w \in Withdrawal :
           withdrawal[w] \in {"PAID", "REJECTED", "CANCELLED"} =>
             withdrawal'[w] = withdrawal[w]
      /\ \A p \in Placement :
           commission[p] \in {"INELIGIBLE", "CANCELLED"} =>
             commission'[p] = commission[p]
<1> SUFFICES ASSUME LedgerInv, [Next]_vars PROVE Kept
  OBVIOUS
<1> USE DEF LedgerInv, Rows, CallState, commissions, withdrawals
<1>1. ASSUME NEW c \in Call, CreateCommission(c) PROVE Kept
  BY <1>1 DEF CreateCommission
<1>2. ASSUME NEW c \in Call, StartWindow(c) PROVE Kept
  BY <1>2 DEF StartWindow
<1>3. ASSUME NEW c \in Call, Release(c) PROVE Kept
  BY <1>3 DEF Release
<1>4. ASSUME NEW c \in Call, CancelCommission(c) PROVE Kept
  BY <1>4 DEF CancelCommission
<1>5. ASSUME NEW c \in Call, NEW p \in Placement, NEW fee \in Fees, NEW eligible \in
   BOOLEAN, NEW atUnlock \in BOOLEAN, LoadUndecided(c, p, fee, eligible, atUnlock)
   PROVE Kept
  BY <1>5 DEF LoadUndecided
<1>6. ASSUME NEW c \in Call, NEW p \in Placement, LoadWaiting(c, p) PROVE Kept
  BY <1>6 DEF LoadWaiting
<1>7. ASSUME NEW c \in Call, NEW p \in Placement, LoadPending(c, p) PROVE Kept
  BY <1>7 DEF LoadPending
<1>8. ASSUME NEW c \in Call, NEW p \in Placement, AdminCancel(c, p) PROVE Kept
  BY <1>8 DEF AdminCancel
<1>9. ASSUME NEW c \in Caller, LockForCancel(c) PROVE Kept
  BY <1>9 DEF LockForCancel
<1>10. ASSUME NEW c \in Caller, NEW w \in Withdrawal, NEW n \in Sizes, Request(c, w,
   n) PROVE Kept
  BY <1>10 DEF Request
<1>11. ASSUME NEW c \in Caller, CreateWithdrawal(c) PROVE Kept
  BY <1>11 DEF CreateWithdrawal
<1>12. ASSUME NEW c \in Call, Interrupt(c) PROVE Kept
  BY <1>12 DEF Interrupt
<1>13. ASSUME NEW w \in Withdrawal, Pay(w) PROVE Kept
  BY <1>13 DEF Pay
<1>14. ASSUME NEW w \in Withdrawal, Reject(w) PROVE Kept
  BY <1>14 DEF Reject
<1>15. ASSUME NEW w \in Withdrawal, CancelWithdrawal(w) PROVE Kept
  BY <1>15 DEF CancelWithdrawal
<1>16. ASSUME NEW p \in Placement, WindowPasses(p) PROVE Kept
  BY <1>16 DEF WindowPasses
<1>17. ASSUME NEW p \in Placement, UnlockContacts(p) PROVE Kept
  BY <1>17 DEF UnlockContacts
<1>18. ASSUME NEW p \in Placement, NEW end \in {"COMPLETED","CANCELLED"},
   EndMission(p, end) PROVE Kept
  BY <1>18 DEF EndMission
<1>19. ASSUME SetActive PROVE Kept
  BY <1>19 DEF SetActive
<1>20. ASSUME UNCHANGED vars PROVE Kept
  BY <1>20 DEF vars
<1> QED
  BY <1>1, <1>2, <1>3, <1>4, <1>5, <1>6, <1>7, <1>8, <1>9, <1>10, <1>11, <1>12, <1>13,
     <1>14, <1>15, <1>16, <1>17, <1>18, <1>19, <1>20
     DEF Next, SweepStep, Load, CallerStep, Call

\* What was settled stays settled: no stale read reopens, pays or cancels a
\* withdrawal or a commission, because every write is conditional on the status
\* it starts from.
THEOREM SettledStaysSettled == Spec => SettledIsFinal
<1> QED
  BY LedgerInit, LedgerStep, SettledStep, PTL DEF Spec, SettledIsFinal

\* What decides about the placements and the clock stays in its types.
Surroundings ==
  /\ active \in BOOLEAN /\ unlocked \in SUBSET Placement
  /\ mission \in [Placement -> {"OPEN", "COMPLETED", "CANCELLED"}]
  /\ window \in [Placement -> {"none", "running", "over"}]
  /\ failures \in 0 .. MaxFailures

\* Every step keeps them there.
LEMMA SurroundingsStep ==
  ASSUME Rows, Carried, Surroundings, [Next]_vars
  PROVE  Surroundings'
<1> USE LedgerAssumption DEF Surroundings, environment, commissions
<1>1. ASSUME NEW c \in Call, CreateCommission(c) PROVE Surroundings'
  BY <1>1 DEF CreateCommission
<1>2. ASSUME NEW c \in Call, StartWindow(c) PROVE Surroundings'
  BY <1>2 DEF StartWindow
<1>3. ASSUME NEW c \in Call, Release(c) PROVE Surroundings'
  BY <1>3 DEF Release
<1>4. ASSUME NEW c \in Call, CancelCommission(c) PROVE Surroundings'
  BY <1>4 DEF CancelCommission
<1>5. ASSUME NEW c \in Call, NEW p \in Placement, NEW fee \in Fees, NEW eligible \in BOOLEAN,
             NEW atUnlock \in BOOLEAN, LoadUndecided(c, p, fee, eligible, atUnlock)
      PROVE  Surroundings'
  BY <1>5 DEF LoadUndecided
<1>6. ASSUME NEW c \in Call, NEW p \in Placement, LoadWaiting(c, p) PROVE Surroundings'
  BY <1>6 DEF LoadWaiting
<1>7. ASSUME NEW c \in Call, NEW p \in Placement, LoadPending(c, p) PROVE Surroundings'
  BY <1>7 DEF LoadPending
<1>8. ASSUME NEW c \in Call, NEW p \in Placement, AdminCancel(c, p) PROVE Surroundings'
  BY <1>8 DEF AdminCancel
<1>9. ASSUME NEW c \in Caller, LockForCancel(c) PROVE Surroundings'
  BY <1>9 DEF LockForCancel
<1>10. ASSUME NEW c \in Caller, NEW w \in Withdrawal, NEW n \in Sizes, Request(c, w, n) PROVE Surroundings'
  BY <1>10 DEF Request
<1>11. ASSUME NEW c \in Caller, CreateWithdrawal(c) PROVE Surroundings'
  BY <1>11 DEF CreateWithdrawal
<1>12. ASSUME NEW c \in Call, Interrupt(c) PROVE Surroundings'
  BY <1>12 DEF Interrupt
<1>13. ASSUME NEW w \in Withdrawal, Pay(w) PROVE Surroundings'
  BY <1>13 DEF Pay
<1>14. ASSUME NEW w \in Withdrawal, Reject(w) PROVE Surroundings'
  BY <1>14 DEF Reject
<1>15. ASSUME NEW w \in Withdrawal, CancelWithdrawal(w) PROVE Surroundings'
  BY <1>15 DEF CancelWithdrawal
<1>16. ASSUME NEW p \in Placement, WindowPasses(p) PROVE Surroundings'
  BY <1>16 DEF WindowPasses
<1>17. ASSUME NEW p \in Placement, UnlockContacts(p) PROVE Surroundings'
  BY <1>17 DEF UnlockContacts
<1>18. ASSUME NEW p \in Placement, NEW end \in {"COMPLETED","CANCELLED"}, EndMission(p, end) PROVE Surroundings'
  BY <1>18 DEF EndMission
<1>19. ASSUME SetActive PROVE Surroundings'
  BY <1>19 DEF SetActive
<1>20. ASSUME UNCHANGED vars PROVE Surroundings'
  BY <1>20 DEF vars
<1> QED
  BY <1>1, <1>2, <1>3, <1>4, <1>5, <1>6, <1>7, <1>8, <1>9, <1>10, <1>11,
     <1>12, <1>13, <1>14, <1>15, <1>16, <1>17, <1>18, <1>19, <1>20
     DEF Next, SweepStep, Load, CallerStep, Call

\* Rows, buckets and calls keep their types, whatever overlaps and fails.
THEOREM AgentTypes == Spec => []TypeOK
<1>1. Init => LedgerInv /\ Surroundings
  BY LedgerInit, LedgerAssumption DEF Init, Surroundings
<1>2. LedgerInv /\ Surroundings /\ [Next]_vars => (LedgerInv /\ Surroundings)'
  BY LedgerStep, SurroundingsStep DEF LedgerInv
<1>3. LedgerInv /\ Surroundings => TypeOK
  BY DEF LedgerInv, Rows, Surroundings, TypeOK
<1> QED
  BY <1>1, <1>2, <1>3, PTL DEF Spec

----------------------------------------------------------------------------
(* Sums: what a fold of the library computes, by induction over the set. *)

\* Induction over a finite set: of its subsets with a property, one is smallest.
LEMMA Smallest ==
  ASSUME NEW S, IsFiniteSet(S), NEW B \in SUBSET SUBSET S, B # {}
  PROVE  \E T \in B : \A U \in B : U \subseteq T => U = T
<1> DEFINE R == StrictSubsetOrdering(S)
<1>1. IsWellFoundedOn(R, SUBSET S)
  BY FS_StrictSubsetOrderingWellFounded, FS_FiniteSubsetsOfFinite
<1>2. \E T \in B : \A U \in B : <<U, T>> \notin R
  <2> HIDE DEF R
  <2> QED BY <1>1, WFMin
<1> QED
  BY <1>2 DEF StrictSubsetOrdering

\* The francs of the rows S when a row x is worth f[x], one by one.
Francs(f, S) == {k \in S \X Nat : k[2] \in 1 .. f[k[1]]}

\* Taking a row out of a set takes out its francs.
LEMMA FrancsOfOne ==
  ASSUME NEW S, NEW f, \A y \in S : f[y] \in Nat, NEW x \in S,
         IsFiniteSet(Francs(f, S \ {x}))
  PROVE  /\ IsFiniteSet(Francs(f, S))
         /\ Cardinality(Francs(f, S)) = f[x] + Cardinality(Francs(f, S \ {x}))
<1> DEFINE One == {x} \X (1 .. f[x])
           Rest == Francs(f, S \ {x})
<1>1. f[x] \in Nat
  OBVIOUS
<1>2. Francs(f, S) = Rest \cup One /\ Rest \cap One = {}
  BY <1>1 DEF Francs
<1>3. IsFiniteSet(1 .. f[x]) /\ Cardinality(1 .. f[x]) = f[x]
  <2> DEFINE n == f[x]
  <2>1. n \in Nat
    BY <1>1
  <2> HIDE DEF n
  <2>2. IsFiniteSet(1 .. n) /\ Cardinality(1 .. n) = n
    BY <2>1, FS_Interval
  <2> QED
    BY <2>2 DEF n
<1>4. IsFiniteSet({x}) /\ Cardinality({x}) = 1
  BY FS_Singleton
<1>5. IsFiniteSet(One) /\ Cardinality(One) = f[x]
  <2>1. IsFiniteSet(One) /\ Cardinality(One) = Cardinality({x}) * Cardinality(1 .. f[x])
    BY <1>3, <1>4, FS_Product
  <2> QED
    BY <2>1, <1>1, <1>3, <1>4
<1> HIDE DEF One, Rest
<1>6. /\ IsFiniteSet(Rest \cup One)
      /\ Cardinality(Rest \cup One) =
           Cardinality(Rest) + Cardinality(One) - Cardinality(Rest \cap One)
  BY <1>5, FS_Union DEF Rest
<1>7. Cardinality(Rest \cap One) = 0 /\ Cardinality(Rest) \in Nat
  BY <1>2, FS_EmptySet, FS_CardinalityType DEF Rest
<1> QED
  BY <1>1, <1>2, <1>5, <1>6, <1>7 DEF Rest

\* Finitely many rows are worth finitely many francs.
LEMMA FrancsAreFinite ==
  ASSUME NEW S, IsFiniteSet(S), NEW f, \A y \in S : f[y] \in Nat
  PROVE  IsFiniteSet(Francs(f, S)) /\ Cardinality(Francs(f, S)) \in Nat
<1> DEFINE B == {T \in SUBSET S : ~IsFiniteSet(Francs(f, T))}
<1>1. IsFiniteSet(Francs(f, S))
  <2> SUFFICES ASSUME B # {} PROVE FALSE
    OBVIOUS
  <2>1. PICK T \in B : \A U \in B : U \subseteq T => U = T
    <3> HIDE DEF B
    <3>1. B \in SUBSET SUBSET S
      BY DEF B
    <3> QED BY <3>1, Smallest
  <2>2. CASE T = {}
    BY <2>1, <2>2, FS_EmptySet DEF Francs
  <2>3. CASE T # {}
    <3>1. PICK x \in T : TRUE
      BY <2>3
    <3>2. IsFiniteSet(Francs(f, T \ {x}))
      BY <2>1, <3>1
    <3> QED
      BY <2>1, <3>1, <3>2, FrancsOfOne
  <2> QED
    BY <2>2, <2>3
<1> QED
  BY <1>1, FS_CardinalityType

\* What the library computes: a function defined by recursion over the subsets of S.
Pick(s) == CHOOSE x \in s : TRUE
SumStep(f, S, g) ==
  [s \in SUBSET S |-> IF s = {} THEN 0 ELSE f[Pick(s)] + g[s \ {Pick(s)}]]
SumFcn(f, S) == CHOOSE g : g = SumStep(f, S, g)

\* That is how the module's sums unfold.
LEMMA SumIsFold == ASSUME NEW f, NEW S PROVE Sum(f, S) = SumFcn(f, S)[S]
  BY SMT DEF Sum, MapThenSumSet, MapThenFoldSet, SumFcn, SumStep, Pick

\* A sum is a number of francs.
LEMMA SumCountsFrancs ==
  ASSUME NEW S, IsFiniteSet(S), NEW f, \A y \in S : f[y] \in Nat
  PROVE  Sum(f, S) = Cardinality(Francs(f, S)) /\ Sum(f, S) \in Nat
<1> DEFINE h == [s \in SUBSET S |-> Cardinality(Francs(f, s))]
           g == SumFcn(f, S)
           B == {s \in SUBSET S : g[s] # Cardinality(Francs(f, s))}
<1>1. ASSUME NEW s \in SUBSET S, s # {}
      PROVE  Pick(s) \in s
  BY <1>1 DEF Pick
<1>2. Cardinality(Francs(f, {})) = 0
  <2>1. Francs(f, {}) = {}
    BY DEF Francs
  <2> QED BY <2>1, FS_EmptySet
<1>3. ASSUME NEW s \in SUBSET S, s # {}
      PROVE  Cardinality(Francs(f, s)) = f[Pick(s)] + Cardinality(Francs(f, s \ {Pick(s)}))
  <2>1. Pick(s) \in s /\ IsFiniteSet(s \ {Pick(s)})
    BY <1>1, <1>3, FS_Subset
  <2>2. IsFiniteSet(Francs(f, s \ {Pick(s)}))
    BY <2>1, FrancsAreFinite
  <2> QED
    BY <2>1, <2>2, FrancsOfOne
<1>4. h = SumStep(f, S, h)
  <2>1. ASSUME NEW s \in SUBSET S
        PROVE  h[s] = IF s = {} THEN 0 ELSE f[Pick(s)] + h[s \ {Pick(s)}]
    BY <1>1, <1>2, <1>3
  <2> QED
    BY <2>1 DEF SumStep
<1>5. g = SumStep(f, S, g)
  BY <1>4 DEF SumFcn
<1>6. B = {}
  <2> SUFFICES ASSUME B # {} PROVE FALSE
    OBVIOUS
  <2>1. PICK s \in B : \A u \in B : u \subseteq s => u = s
    <3> HIDE DEF B
    <3>1. B \in SUBSET SUBSET S
      BY DEF B
    <3> QED BY <3>1, Smallest
  <2> HIDE DEF g
  <2>2. g[s] = IF s = {} THEN 0 ELSE f[Pick(s)] + g[s \ {Pick(s)}]
    BY <1>5, <2>1 DEF SumStep
  <2>3. CASE s = {}
    BY <1>2, <2>1, <2>2, <2>3
  <2>4. CASE s # {}
    <3>1. Pick(s) \in s
      BY <1>1, <2>1, <2>4
    <3>2. g[s \ {Pick(s)}] = Cardinality(Francs(f, s \ {Pick(s)}))
      BY <2>1, <3>1
    <3> QED BY <1>3, <2>1, <2>2, <2>4, <3>2
  <2> QED
    BY <2>3, <2>4
<1>7. g[S] = Cardinality(Francs(f, S))
  BY <1>6
<1> QED
  BY <1>7, SumIsFold, FrancsAreFinite

\* A sum over rows of which x may be one.
LEMMA SumSplits ==
  ASSUME NEW S, IsFiniteSet(S), NEW f, \A y \in S : f[y] \in Nat, NEW x
  PROVE  Sum(f, S) = Sum(f, S \ {x}) + (IF x \in S THEN f[x] ELSE 0)
<1>1. IsFiniteSet(S \ {x})
  BY FS_Subset
<1>2. IsFiniteSet(Francs(f, S \ {x})) /\ Cardinality(Francs(f, S \ {x})) \in Nat
  BY <1>1, FrancsAreFinite
<1>3. CASE x \in S
  BY <1>1, <1>2, <1>3, SumCountsFrancs, FrancsOfOne
<1>4. CASE x \notin S
  <2>1. S \ {x} = S
    BY <1>4
  <2>2. Sum(f, S) \in Nat
    BY SumCountsFrancs
  <2> QED
    BY <1>4, <2>1, <2>2
<1> QED
  BY <1>3, <1>4

\* A sum depends on what its own rows are worth.
LEMMA SumDepends ==
  ASSUME NEW S, IsFiniteSet(S), NEW f, NEW g, \A y \in S : f[y] \in Nat /\ g[y] = f[y]
  PROVE  Sum(f, S) = Sum(g, S)
<1>1. Francs(f, S) = Francs(g, S)
  BY DEF Francs
<1> QED
  BY <1>1, SumCountsFrancs

\* The rows of D whose status s is u.
Having(D, s, u) == {y \in D : s[y] = u}

\* Rows D, worth f, with statuses s: only x is worth g or has a status t of its own.
OnlyMoves(x, D, f, g, s, t) ==
  /\ IsFiniteSet(D) /\ x \in D
  /\ f \in [D -> Nat] /\ g \in [D -> Nat]
  /\ \A y \in D \ {x} : g[y] = f[y] /\ t[y] = s[y]

\* One row moves from a status to another, the other rows stay.
LEMMA SumMoves ==
  ASSUME NEW D, NEW f, NEW g, NEW s, NEW t, NEW x, OnlyMoves(x, D, f, g, s, t), NEW u
  PROVE  /\ Sum(f, Having(D, s, u)) \in Nat
         /\ Sum(g, Having(D, t, u)) =
              Sum(f, Having(D, s, u)) + (IF t[x] = u THEN g[x] ELSE 0)
                                           - (IF s[x] = u THEN f[x] ELSE 0)
<1> USE DEF OnlyMoves
<1> DEFINE A == Having(D, s, u)
           B == Having(D, t, u)
<1>1. IsFiniteSet(A) /\ IsFiniteSet(B) /\ IsFiniteSet(A \ {x})
  BY FS_Subset DEF Having
<1>2. A \ {x} = B \ {x}
  BY DEF Having
<1>3. x \in A <=> s[x] = u
  BY DEF Having
<1>4. x \in B <=> t[x] = u
  BY DEF Having
<1>5. (\A y \in A : f[y] \in Nat) /\ (\A y \in B : g[y] \in Nat)
  BY DEF Having
<1>6. \A y \in A \ {x} : f[y] \in Nat /\ g[y] = f[y]
  BY DEF Having
<1> HIDE DEF A, B
<1>7. Sum(f, A) = Sum(f, A \ {x}) + (IF s[x] = u THEN f[x] ELSE 0)
  BY <1>1, <1>3, <1>5, SumSplits
<1>8. Sum(g, B) = Sum(g, B \ {x}) + (IF t[x] = u THEN g[x] ELSE 0)
  BY <1>1, <1>4, <1>5, SumSplits
<1>9. Sum(f, A \ {x}) = Sum(g, A \ {x}) /\ Sum(f, A \ {x}) \in Nat
  BY <1>1, <1>6, SumDepends, SumCountsFrancs
<1>10. f[x] \in Nat /\ g[x] \in Nat
  OBVIOUS
<1>11. Sum(f, A) \in Nat
  BY <1>1, <1>5, SumCountsFrancs
<1> QED
  BY <1>2, <1>7, <1>8, <1>9, <1>10, <1>11 DEF A, B

----------------------------------------------------------------------------
(* The ledger and the rows. *)

\* A commission's keys follow its status: none is written before its step.
CommissionKeys ==
  \A p \in Placement :
    /\ <<p, "earned">> \in entries => commission[p] # "NONE"
    /\ <<p, "released">> \in entries => commission[p] \notin {"NONE", "PENDING"}
    /\ <<p, "cancelled">> \in entries => commission[p] = "CANCELLED"

\* A step that touches no row and no entry.
LEMMA AgreementStays ==
  ASSUME CommissionKeys, LedgerAgreesWithRows,
         UNCHANGED <<commission, amount, withdrawal, asked, entries, balance>>
  PROVE  CommissionKeys' /\ LedgerAgreesWithRows'
<1>1. CommissionKeys'
  BY DEF CommissionKeys
<1>2. LedgerAgreesWithRows'
  BY DEF LedgerAgreesWithRows, Commissions, Withdrawals
<1> QED
  BY <1>1, <1>2

\* What a status adds up to is an amount.
LEMMA SumsAreAmounts ==
  ASSUME Rows, NEW u PROVE Commissions(u) \in Nat /\ Withdrawals(u) \in Nat
<1>1. /\ IsFiniteSet({p \in Placement : commission[p] = u})
      /\ IsFiniteSet({w \in Withdrawal : withdrawal[w] = u})
  BY LedgerAssumption, FS_Subset
<1>2. /\ \A p \in {q \in Placement : commission[q] = u} : amount[p] \in Nat
      /\ \A w \in {x \in Withdrawal : withdrawal[x] = u} : asked[w] \in Nat
  BY DEF Rows
<1> QED
  BY <1>1, <1>2, SumCountsFrancs DEF Commissions, Withdrawals

\* One commission changes its status, and at most its own amount.
LEMMA CommissionMoves ==
  ASSUME Rows, Rows', NEW p \in Placement, NEW v \in CommissionStatus,
         commission' = [commission EXCEPT ![p] = v],
         \A q \in Placement \ {p} : amount'[q] = amount[q], NEW u \in CommissionStatus
  PROVE  /\ Commissions(u) \in Nat
         /\ Commissions(u)' = Commissions(u) + (IF v = u THEN amount'[p] ELSE 0)
                                            - (IF commission[p] = u THEN amount[p] ELSE 0)
<1>1. /\ amount \in [Placement -> Nat] /\ amount' \in [Placement -> Nat]
      /\ commission'[p] = v
      /\ \A q \in Placement \ {p} : amount'[q] = amount[q] /\ commission'[q] = commission[q]
  BY DEF Rows
<1>2. /\ Sum(amount, Having(Placement, commission, u)) \in Nat
      /\ Sum(amount', Having(Placement, commission', u)) =
           Sum(amount, Having(Placement, commission, u))
             + (IF commission'[p] = u THEN amount'[p] ELSE 0)
             - (IF commission[p] = u THEN amount[p] ELSE 0)
  <2> DEFINE f == amount
             g == amount'
             s == commission
             t == commission'
  <2>1. OnlyMoves(p, Placement, f, g, s, t)
    BY <1>1, LedgerAssumption DEF OnlyMoves
  <2> HIDE DEF f, g, s, t
  <2>2. /\ Sum(f, Having(Placement, s, u)) \in Nat
        /\ Sum(g, Having(Placement, t, u)) =
             Sum(f, Having(Placement, s, u)) + (IF t[p] = u THEN g[p] ELSE 0)
                                      - (IF s[p] = u THEN f[p] ELSE 0)
    BY <2>1, SumMoves
  <2> QED
    BY <2>2 DEF f, g, s, t
<1> QED
  BY <1>1, <1>2 DEF Commissions, Having

\* The same for a withdrawal.
LEMMA WithdrawalMoves ==
  ASSUME Rows, Rows', NEW w \in Withdrawal, NEW v \in WithdrawalStatus,
         withdrawal' = [withdrawal EXCEPT ![w] = v],
         \A x \in Withdrawal \ {w} : asked'[x] = asked[x], NEW u \in WithdrawalStatus
  PROVE  /\ Withdrawals(u) \in Nat
         /\ Withdrawals(u)' = Withdrawals(u) + (IF v = u THEN asked'[w] ELSE 0)
                                            - (IF withdrawal[w] = u THEN asked[w] ELSE 0)
<1>1. /\ asked \in [Withdrawal -> Nat] /\ asked' \in [Withdrawal -> Nat]
      /\ withdrawal'[w] = v
      /\ \A x \in Withdrawal \ {w} : asked'[x] = asked[x] /\ withdrawal'[x] = withdrawal[x]
  BY DEF Rows
<1>2. /\ Sum(asked, Having(Withdrawal, withdrawal, u)) \in Nat
      /\ Sum(asked', Having(Withdrawal, withdrawal', u)) =
           Sum(asked, Having(Withdrawal, withdrawal, u))
             + (IF withdrawal'[w] = u THEN asked'[w] ELSE 0)
             - (IF withdrawal[w] = u THEN asked[w] ELSE 0)
  <2> DEFINE f == asked
             g == asked'
             s == withdrawal
             t == withdrawal'
  <2>1. OnlyMoves(w, Withdrawal, f, g, s, t)
    BY <1>1, LedgerAssumption DEF OnlyMoves
  <2> HIDE DEF f, g, s, t
  <2>2. /\ Sum(f, Having(Withdrawal, s, u)) \in Nat
        /\ Sum(g, Having(Withdrawal, t, u)) =
             Sum(f, Having(Withdrawal, s, u)) + (IF t[w] = u THEN g[w] ELSE 0)
                                      - (IF s[w] = u THEN f[w] ELSE 0)
    BY <2>1, SumMoves
  <2> QED
    BY <2>2 DEF f, g, s, t
<1> QED
  BY <1>1, <1>2 DEF Withdrawals, Having

\* What every step may rely on.
LEMMA RowsGoOn == ASSUME LedgerInv, [Next]_vars PROVE Rows'
  BY LedgerStep DEF LedgerInv

\* A commission's status changes together with the one entry that says so.
LEMMA CommissionBooked ==
  ASSUME Rows, Rows', CommissionKeys, LedgerAgreesWithRows,
         NEW p \in Placement, NEW v \in {"PENDING", "AVAILABLE", "CANCELLED"},
         NEW from, NEW to, NEW step \in Step,
         commission' = [commission EXCEPT ![p] = v],
         \A q \in Placement \ {p} : amount'[q] = amount[q],
         UNCHANGED <<withdrawal, asked>>,
         WriteLedger(p, step, from, to, amount'[p]),
         \/ /\ commission[p] = "NONE" /\ v = "PENDING" /\ step = "earned"
            /\ from = "outside" /\ to = "PENDING"
         \/ /\ commission[p] = "PENDING" /\ v = "AVAILABLE" /\ step = "released"
            /\ from = "PENDING" /\ to = "AVAILABLE" /\ amount' = amount
         \/ /\ commission[p] = from /\ from \in {"PENDING", "AVAILABLE"}
            /\ v = "CANCELLED" /\ step = "cancelled" /\ to = "outside" /\ amount' = amount
  PROVE  CommissionKeys' /\ LedgerAgreesWithRows'
<1>1. <<p, step>> \notin entries
  BY DEF CommissionKeys
<1>2. amount'[p] \in Nat /\ amount[p] \in Nat /\ v \in CommissionStatus
  BY DEF Rows, CommissionStatus
<1>3. /\ entries' = entries \cup {<<p, step>>}
      /\ \A b \in Bucket :
           balance'[b] = balance[b] + (IF b = to THEN amount'[p] ELSE 0)
                                    - (IF b = from THEN amount'[p] ELSE 0)
  BY <1>1, <1>2, LedgerMoves DEF Rows
<1>4. CommissionKeys'
  BY <1>3 DEF CommissionKeys, Rows
<1>5. LedgerAgreesWithRows'
  <2>1. \A u : Withdrawals(u)' = Withdrawals(u)
    BY DEF Withdrawals
  <2>2. /\ Withdrawals("REQUESTED")' = Withdrawals("REQUESTED")
        /\ Withdrawals("PAID")' = Withdrawals("PAID")
    BY <2>1
  <2>3. /\ Commissions("PENDING") \in Nat
        /\ Commissions("PENDING")' =
             Commissions("PENDING") + (IF v = "PENDING" THEN amount'[p] ELSE 0)
               - (IF commission[p] = "PENDING" THEN amount[p] ELSE 0)
    BY <1>2, CommissionMoves DEF CommissionStatus
  <2>4. /\ Commissions("AVAILABLE") \in Nat
        /\ Commissions("AVAILABLE")' =
             Commissions("AVAILABLE") + (IF v = "AVAILABLE" THEN amount'[p] ELSE 0)
               - (IF commission[p] = "AVAILABLE" THEN amount[p] ELSE 0)
    BY <1>2, CommissionMoves DEF CommissionStatus
  <2>5. \A b \in Bucket : balance[b] \in Int
    BY DEF Rows
  <2> QED
    BY <1>2, <1>3, <2>2, <2>3, <2>4, <2>5 DEF LedgerAgreesWithRows, Bucket
<1> QED
  BY <1>4, <1>5

\* A withdrawal's status changes together with the one entry that says so.
LEMMA WithdrawalBooked ==
  ASSUME Rows, Rows', KeysFollow, CommissionKeys, LedgerAgreesWithRows,
         NEW w \in Withdrawal, NEW v \in WithdrawalStatus,
         NEW from, NEW to, NEW step \in Step,
         withdrawal' = [withdrawal EXCEPT ![w] = v],
         \A x \in Withdrawal \ {w} : asked'[x] = asked[x],
         UNCHANGED <<commission, amount>>,
         WriteLedger(w, step, from, to, asked'[w]),
         \/ /\ withdrawal[w] = "NONE" /\ v = "REQUESTED" /\ step = "requested"
            /\ from = "AVAILABLE" /\ to = "LOCKED"
         \/ /\ withdrawal[w] = "REQUESTED" /\ v = "PAID" /\ step = "paid"
            /\ from = "LOCKED" /\ to = "PAID_OUT" /\ asked' = asked
         \/ /\ withdrawal[w] = "REQUESTED" /\ v \in {"REJECTED", "CANCELLED"}
            /\ step \in {"rejected", "cancelled"}
            /\ from = "LOCKED" /\ to = "AVAILABLE" /\ asked' = asked
  PROVE  CommissionKeys' /\ LedgerAgreesWithRows'
<1>1. <<w, step>> \notin entries
  BY DEF KeysFollow, KeysOf
<1>2. asked'[w] \in Nat /\ asked[w] \in Nat
  BY DEF Rows
<1>3. /\ entries' = entries \cup {<<w, step>>}
      /\ \A b \in Bucket :
           balance'[b] = balance[b] + (IF b = to THEN asked'[w] ELSE 0)
                                    - (IF b = from THEN asked'[w] ELSE 0)
  BY <1>1, <1>2, LedgerMoves DEF Rows
<1>4. CommissionKeys'
  BY <1>3, LedgerAssumption DEF CommissionKeys
<1>5. LedgerAgreesWithRows'
  <2>1. \A u : Commissions(u)' = Commissions(u)
    BY DEF Commissions
  <2>2. /\ Commissions("PENDING")' = Commissions("PENDING")
        /\ Commissions("AVAILABLE")' = Commissions("AVAILABLE")
    BY <2>1
  <2>3. /\ Withdrawals("REQUESTED") \in Nat
        /\ Withdrawals("REQUESTED")' =
             Withdrawals("REQUESTED") + (IF v = "REQUESTED" THEN asked'[w] ELSE 0)
               - (IF withdrawal[w] = "REQUESTED" THEN asked[w] ELSE 0)
    BY <1>2, WithdrawalMoves DEF WithdrawalStatus
  <2>4. /\ Withdrawals("PAID") \in Nat
        /\ Withdrawals("PAID")' =
             Withdrawals("PAID") + (IF v = "PAID" THEN asked'[w] ELSE 0)
               - (IF withdrawal[w] = "PAID" THEN asked[w] ELSE 0)
    BY <1>2, WithdrawalMoves DEF WithdrawalStatus
  <2>5. \A b \in Bucket : balance[b] \in Int
    BY DEF Rows
  <2>6. /\ balance["PENDING"] = Commissions("PENDING")
        /\ balance["LOCKED"] = Withdrawals("REQUESTED")
        /\ balance["PAID_OUT"] = Withdrawals("PAID")
        /\ balance["AVAILABLE"] =
             Commissions("AVAILABLE") - Withdrawals("REQUESTED") - Withdrawals("PAID")
    BY DEF LedgerAgreesWithRows
  <2>sums. Commissions("PENDING") \in Nat /\ Commissions("AVAILABLE") \in Nat
    BY SumsAreAmounts
  <2>7. CASE withdrawal[w] = "NONE"
    <3>1. v = "REQUESTED" /\ from = "AVAILABLE" /\ to = "LOCKED"
      BY <2>7
    <3>2. /\ balance'["PENDING"] = balance["PENDING"]
          /\ balance'["PAID_OUT"] = balance["PAID_OUT"]
          /\ balance'["LOCKED"] = balance["LOCKED"] + asked'[w]
          /\ balance'["AVAILABLE"] = balance["AVAILABLE"] - asked'[w]
      BY <1>2, <1>3, <2>5, <3>1 DEF Bucket
    <3>3. /\ Withdrawals("REQUESTED")' = Withdrawals("REQUESTED") + asked'[w]
          /\ Withdrawals("PAID")' = Withdrawals("PAID")
      BY <1>2, <2>3, <2>4, <2>7, <3>1
    <3> QED
      BY <1>2, <2>2, <2>3, <2>4, <2>6, <3>2, <3>3, <2>sums, <2>5 DEF LedgerAgreesWithRows, Bucket
  <2>8. CASE withdrawal[w] = "REQUESTED"
    <3>1. from = "LOCKED" /\ asked'[w] = asked[w]
          /\ \/ v = "PAID" /\ to = "PAID_OUT"
             \/ v \in {"REJECTED", "CANCELLED"} /\ to = "AVAILABLE"
      BY <2>8
    <3>2. CASE v = "PAID" /\ to = "PAID_OUT"
      <4>1. /\ balance'["PENDING"] = balance["PENDING"]
            /\ balance'["PAID_OUT"] = balance["PAID_OUT"] + asked[w]
            /\ balance'["LOCKED"] = balance["LOCKED"] - asked[w]
            /\ balance'["AVAILABLE"] = balance["AVAILABLE"]
        BY <1>2, <1>3, <2>5, <3>1, <3>2 DEF Bucket
      <4>2. /\ Withdrawals("REQUESTED")' = Withdrawals("REQUESTED") - asked[w]
            /\ Withdrawals("PAID")' = Withdrawals("PAID") + asked[w]
        BY <1>2, <2>3, <2>4, <2>8, <3>1, <3>2
      <4> QED
        BY <1>2, <2>2, <2>3, <2>4, <2>5, <2>6, <4>1, <4>2, <2>sums DEF LedgerAgreesWithRows, Bucket
    <3>3. CASE v \in {"REJECTED", "CANCELLED"} /\ to = "AVAILABLE"
      <4>1. /\ balance'["PENDING"] = balance["PENDING"]
            /\ balance'["PAID_OUT"] = balance["PAID_OUT"]
            /\ balance'["LOCKED"] = balance["LOCKED"] - asked[w]
            /\ balance'["AVAILABLE"] = balance["AVAILABLE"] + asked[w]
        BY <1>2, <1>3, <2>5, <3>1, <3>3 DEF Bucket
      <4>2. /\ Withdrawals("REQUESTED")' = Withdrawals("REQUESTED") - asked[w]
            /\ Withdrawals("PAID")' = Withdrawals("PAID")
        BY <1>2, <2>3, <2>4, <2>8, <3>1, <3>3
      <4> QED
        BY <1>2, <2>2, <2>3, <2>4, <2>5, <2>6, <4>1, <4>2, <2>sums DEF LedgerAgreesWithRows, Bucket
    <3> QED
      BY <3>1, <3>2, <3>3
  <2> QED
    BY <2>7, <2>8
<1> QED
  BY <1>4, <1>5

\* Every step moves a row and its money together, or neither.
LEMMA AgreementStep ==
  ASSUME LedgerInv, CommissionKeys, LedgerAgreesWithRows, [Next]_vars
  PROVE  CommissionKeys' /\ LedgerAgreesWithRows'
<1>1. ASSUME NEW c \in Call, CreateCommission(c) PROVE CommissionKeys' /\ LedgerAgreesWithRows'
  <2> DEFINE p == call[c].row
  <2>1. p \in Placement /\ call[c].size \in Nat
    BY <1>1 DEF LedgerInv, Rows, Carried, CarriedBy, CreateCommission, At, Call, CallState
  <2>2. CASE UNCHANGED <<commissions, ledger>>
    BY <1>1, <2>2, AgreementStays DEF CreateCommission, commissions, withdrawals, ledger
  <2>3. CASE commission[p] = "NONE" /\ At(c, "refusing")
    <3>1. /\ commission' = [commission EXCEPT ![p] = "INELIGIBLE"]
          /\ UNCHANGED <<amount, withdrawal, asked, entries, balance>>
      BY <1>1, <2>3 DEF CreateCommission, At, ledger, withdrawals
    <3>2. CommissionKeys'
      BY <2>1, <2>3, <3>1 DEF CommissionKeys, LedgerInv, Rows
    <3>3. \A u : Withdrawals(u)' = Withdrawals(u)
      BY <3>1 DEF Withdrawals
    <3>4. /\ Withdrawals("REQUESTED")' = Withdrawals("REQUESTED")
          /\ Withdrawals("PAID")' = Withdrawals("PAID")
      BY <3>3
    <3>5. "INELIGIBLE" \in CommissionStatus /\ \A x \in Placement \ {p} : amount'[x] = amount[x]
      BY <3>1 DEF CommissionStatus
    <3>6. /\ Commissions("PENDING") \in Nat
          /\ Commissions("PENDING")' = Commissions("PENDING") + 0 - 0
      BY <2>1, <2>3, <3>1, <3>5, CommissionMoves, RowsGoOn DEF LedgerInv, CommissionStatus
    <3>7. /\ Commissions("AVAILABLE") \in Nat
          /\ Commissions("AVAILABLE")' = Commissions("AVAILABLE") + 0 - 0
      BY <2>1, <2>3, <3>1, <3>5, CommissionMoves, RowsGoOn DEF LedgerInv, CommissionStatus
    <3> QED
      BY <3>1, <3>2, <3>4, <3>6, <3>7 DEF LedgerAgreesWithRows
  <2>4. CASE commission[p] = "NONE" /\ At(c, "deciding")
    <3>1. /\ commission' = [commission EXCEPT ![p] = "PENDING"]
          /\ amount' = [amount EXCEPT ![p] = call[c].size]
          /\ WriteLedger(p, "earned", "outside", "PENDING", call[c].size)
          /\ UNCHANGED <<withdrawal, asked>>
      BY <1>1, <2>4 DEF CreateCommission, At, withdrawals
    <3>2. amount'[p] = call[c].size /\ \A x \in Placement \ {p} : amount'[x] = amount[x]
      BY <2>1, <3>1 DEF LedgerInv, Rows
    <3> HIDE DEF p
    <3>3. WriteLedger(p, "earned", "outside", "PENDING", amount'[p])
      BY <3>1, <3>2
    <3> QED
      BY <2>1, <2>4, <3>1, <3>2, <3>3, CommissionBooked, RowsGoOn DEF LedgerInv, Step
  <2> QED
    BY <1>1, <2>2, <2>3, <2>4 DEF CreateCommission
<1>2. ASSUME NEW c \in Call, StartWindow(c) PROVE CommissionKeys' /\ LedgerAgreesWithRows'
  BY <1>2, AgreementStays DEF StartWindow, commissions, withdrawals, ledger
<1>3. ASSUME NEW c \in Call, Release(c) PROVE CommissionKeys' /\ LedgerAgreesWithRows'
  <2> DEFINE p == call[c].row
  <2>1. p \in Placement
    BY <1>3 DEF LedgerInv, Carried, CarriedBy, Release, At, Call
  <2>2. CASE commission[p] # "PENDING"
    BY <1>3, <2>2, AgreementStays DEF Release, withdrawals, ledger
  <2>3. CASE commission[p] = "PENDING"
    <3>1. /\ commission' = [commission EXCEPT ![p] = "AVAILABLE"]
          /\ WriteLedger(p, "released", "PENDING", "AVAILABLE", amount'[p])
          /\ UNCHANGED <<amount, withdrawal, asked>>
      BY <1>3, <2>3 DEF Release, withdrawals
    <3> HIDE DEF p
    <3> QED
      BY <2>1, <2>3, <3>1, CommissionBooked, RowsGoOn DEF LedgerInv, Step
  <2> QED
    BY <2>2, <2>3
<1>4. ASSUME NEW c \in Call, CancelCommission(c) PROVE CommissionKeys' /\ LedgerAgreesWithRows'
  <2> DEFINE p == call[c].row
             from == call[c].from
  <2>1. p \in Placement /\ from \in {"PENDING", "AVAILABLE"}
    BY <1>4 DEF LedgerInv, Rows, Carried, CarriedBy, CancelCommission, At, Call, CallState
  <2>2. CASE commission[p] # from
    BY <1>4, <2>2, AgreementStays DEF CancelCommission, withdrawals, ledger
  <2>3. CASE commission[p] = from
    <3>1. /\ commission' = [commission EXCEPT ![p] = "CANCELLED"]
          /\ WriteLedger(p, "cancelled", from, "outside", amount'[p])
          /\ UNCHANGED <<amount, withdrawal, asked>>
      BY <1>4, <2>3 DEF CancelCommission, withdrawals
    <3> HIDE DEF p, from
    <3> QED
      BY <2>1, <2>3, <3>1, CommissionBooked, RowsGoOn DEF LedgerInv, Step
  <2> QED
    BY <2>2, <2>3
<1>5. ASSUME NEW c \in Call, NEW p \in Placement, NEW fee \in Fees, NEW eligible \in BOOLEAN, NEW atUnlock \in BOOLEAN, LoadUndecided(c, p, fee, eligible, atUnlock) PROVE CommissionKeys' /\ LedgerAgreesWithRows'
  BY <1>5, AgreementStays DEF LoadUndecided, commissions, withdrawals, ledger
<1>6. ASSUME NEW c \in Call, NEW p \in Placement, LoadWaiting(c, p) PROVE CommissionKeys' /\ LedgerAgreesWithRows'
  BY <1>6, AgreementStays DEF LoadWaiting, commissions, withdrawals, ledger
<1>7. ASSUME NEW c \in Call, NEW p \in Placement, LoadPending(c, p) PROVE CommissionKeys' /\ LedgerAgreesWithRows'
  BY <1>7, AgreementStays DEF LoadPending, commissions, withdrawals, ledger
<1>8. ASSUME NEW c \in Call, NEW p \in Placement, AdminCancel(c, p) PROVE CommissionKeys' /\ LedgerAgreesWithRows'
  BY <1>8, AgreementStays DEF AdminCancel, commissions, withdrawals, ledger
<1>9. ASSUME NEW c \in Caller, LockForCancel(c) PROVE CommissionKeys' /\ LedgerAgreesWithRows'
  BY <1>9, AgreementStays DEF LockForCancel, commissions, withdrawals, ledger
<1>10. ASSUME NEW c \in Caller, NEW w \in Withdrawal, NEW n \in Sizes, Request(c, w, n) PROVE CommissionKeys' /\ LedgerAgreesWithRows'
  BY <1>10, AgreementStays DEF Request, commissions, withdrawals, ledger
<1>11. ASSUME NEW c \in Caller, CreateWithdrawal(c) PROVE CommissionKeys' /\ LedgerAgreesWithRows'
  <2> DEFINE w == call[c].row
  <2>1. w \in Withdrawal /\ call[c].size \in Nat
    BY <1>11 DEF LedgerInv, Rows, Carried, CarriedBy, CreateWithdrawal, At, Call, CallState
  <2>2. CASE UNCHANGED <<withdrawals, ledger>>
    BY <1>11, <2>2, AgreementStays DEF CreateWithdrawal, commissions, withdrawals, ledger
  <2>3. CASE ~UNCHANGED <<withdrawals, ledger>>
    <3>1. /\ withdrawal[w] = "NONE"
          /\ withdrawal' = [withdrawal EXCEPT ![w] = "REQUESTED"]
          /\ asked' = [asked EXCEPT ![w] = call[c].size]
          /\ WriteLedger(w, "requested", "AVAILABLE", "LOCKED", call[c].size)
          /\ UNCHANGED <<commission, amount>>
      BY <1>11, <2>3 DEF CreateWithdrawal, commissions
    <3>2. asked'[w] = call[c].size /\ \A x \in Withdrawal \ {w} : asked'[x] = asked[x]
      BY <2>1, <3>1 DEF LedgerInv, Rows
    <3> HIDE DEF w
    <3>3. WriteLedger(w, "requested", "AVAILABLE", "LOCKED", asked'[w])
      BY <3>1, <3>2
    <3> QED
      BY <2>1, <3>1, <3>2, <3>3, WithdrawalBooked, RowsGoOn
         DEF LedgerInv, Step, WithdrawalStatus
  <2> QED
    BY <2>2, <2>3
<1>12. ASSUME NEW c \in Call, Interrupt(c) PROVE CommissionKeys' /\ LedgerAgreesWithRows'
  BY <1>12, AgreementStays DEF Interrupt, commissions, withdrawals, ledger
<1>13. ASSUME NEW w \in Withdrawal, Pay(w) PROVE CommissionKeys' /\ LedgerAgreesWithRows'
  <2>1. /\ withdrawal[w] = "REQUESTED"
        /\ withdrawal' = [withdrawal EXCEPT ![w] = "PAID"]
        /\ WriteLedger(w, "paid", "LOCKED", "PAID_OUT", asked'[w])
        /\ UNCHANGED <<commission, amount, asked>>
    BY <1>13 DEF Pay, commissions
  <2> QED
    BY <2>1, WithdrawalBooked, RowsGoOn DEF LedgerInv, Step, WithdrawalStatus
<1>14. ASSUME NEW w \in Withdrawal, Reject(w) PROVE CommissionKeys' /\ LedgerAgreesWithRows'
  <2>1. /\ withdrawal[w] = "REQUESTED"
        /\ withdrawal' = [withdrawal EXCEPT ![w] = "REJECTED"]
        /\ WriteLedger(w, "rejected", "LOCKED", "AVAILABLE", asked'[w])
        /\ UNCHANGED <<commission, amount, asked>>
    BY <1>14 DEF Reject, commissions
  <2> QED
    BY <2>1, WithdrawalBooked, RowsGoOn DEF LedgerInv, Step, WithdrawalStatus
<1>15. ASSUME NEW w \in Withdrawal, CancelWithdrawal(w) PROVE CommissionKeys' /\ LedgerAgreesWithRows'
  <2>1. /\ withdrawal[w] = "REQUESTED"
        /\ withdrawal' = [withdrawal EXCEPT ![w] = "CANCELLED"]
        /\ WriteLedger(w, "cancelled", "LOCKED", "AVAILABLE", asked'[w])
        /\ UNCHANGED <<commission, amount, asked>>
    BY <1>15 DEF CancelWithdrawal, commissions
  <2> QED
    BY <2>1, WithdrawalBooked, RowsGoOn DEF LedgerInv, Step, WithdrawalStatus
<1>16. ASSUME NEW p \in Placement, WindowPasses(p) PROVE CommissionKeys' /\ LedgerAgreesWithRows'
  BY <1>16, AgreementStays DEF WindowPasses, commissions, withdrawals, ledger
<1>17. ASSUME NEW p \in Placement, UnlockContacts(p) PROVE CommissionKeys' /\ LedgerAgreesWithRows'
  BY <1>17, AgreementStays DEF UnlockContacts, commissions, withdrawals, ledger
<1>18. ASSUME NEW p \in Placement, NEW end \in {"COMPLETED","CANCELLED"}, EndMission(p, end) PROVE CommissionKeys' /\ LedgerAgreesWithRows'
  BY <1>18, AgreementStays DEF EndMission, commissions, withdrawals, ledger
<1>19. ASSUME SetActive PROVE CommissionKeys' /\ LedgerAgreesWithRows'
  BY <1>19, AgreementStays DEF SetActive, commissions, withdrawals, ledger
<1>20. ASSUME UNCHANGED vars PROVE CommissionKeys' /\ LedgerAgreesWithRows'
  BY <1>20, AgreementStays DEF vars, commissions, withdrawals, ledger
<1> QED
  BY <1>1, <1>2, <1>3, <1>4, <1>5, <1>6, <1>7, <1>8, <1>9, <1>10, <1>11,
     <1>12, <1>13, <1>14, <1>15, <1>16, <1>17, <1>18, <1>19, <1>20
     DEF Next, SweepStep, Load, CallerStep, Call

\* Sums over nothing.
LEMMA SumOfNone == ASSUME NEW f PROVE Sum(f, {}) = 0
<1>1. Francs(f, {}) = {} /\ IsFiniteSet({})
  BY FS_EmptySet DEF Francs
<1>2. Sum(f, {}) = Cardinality(Francs(f, {}))
  BY <1>1, SumCountsFrancs
<1> QED
  BY <1>1, <1>2, FS_EmptySet

\* The ledger agrees with the rows, for any placements and withdrawals, fees, sweeps
\* and calls: no money is moved twice, lost or put in the wrong bucket.
THEOREM AgentLedgerAgrees == Spec => []LedgerAgreesWithRows
<1> DEFINE I == LedgerInv /\ CommissionKeys /\ LedgerAgreesWithRows
<1>1. Init => I
  <2> SUFFICES ASSUME Init PROVE I
    OBVIOUS
  <2>1. CommissionKeys
    BY DEF Init, CommissionKeys
  <2>2. /\ {p \in Placement : commission[p] = "PENDING"} = {}
        /\ {p \in Placement : commission[p] = "AVAILABLE"} = {}
        /\ {w \in Withdrawal : withdrawal[w] = "REQUESTED"} = {}
        /\ {w \in Withdrawal : withdrawal[w] = "PAID"} = {}
    BY DEF Init
  <2>3. /\ Commissions("PENDING") = 0 /\ Commissions("AVAILABLE") = 0
        /\ Withdrawals("REQUESTED") = 0 /\ Withdrawals("PAID") = 0
    BY <2>2, SumOfNone DEF Commissions, Withdrawals
  <2>4. LedgerAgreesWithRows
    BY <2>3 DEF Init, LedgerAgreesWithRows, Bucket
  <2> QED
    BY <2>1, <2>4, LedgerInit
<1>2. I /\ [Next]_vars => I'
  BY LedgerStep, AgreementStep
<1>3. I => LedgerAgreesWithRows
  OBVIOUS
<1> QED
  BY <1>1, <1>2, <1>3, PTL DEF Spec
==========================================================================
