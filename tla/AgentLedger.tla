--------------------------- MODULE AgentLedger ---------------------------
(***************************************************************************)
(* What one field agent earns and withdraws.  A sweep decides a commission  *)
(* for every placement of the agent whose contacts were unlocked, releases  *)
(* it once its window has passed or cancels it with the mission; an         *)
(* administrator may take it back; the agent asks for withdrawals, which an *)
(* administrator pays or rejects.  Every change of a row is conditional on  *)
(* the status it starts from and writes its ledger rows, each under an      *)
(* idempotency key, in the same transaction.  What a transaction decides on *)
(* is read earlier: by a sweep or a check before it, or by its own first    *)
(* statements under the lock of the agent's row.                            *)
(***************************************************************************)
EXTENDS Integers, FiniteSets, FiniteSetsExt

CONSTANTS
  Placement,    \* applications made from the agent's invitations
  Withdrawal,   \* withdrawal requests the agent may make
  Sweeper,      \* sweeps that may overlap
  Caller,       \* concurrent calls of the agent and of administrators
  Fees,         \* agent.commission_per_placement_fcfa, as it changes
  Sizes,        \* amounts the agent asks for, from the minimum up
  MaxFailures,  \* bound: calls that fail or die before they commit
  None

ASSUME LedgerAssumption ==
  /\ IsFiniteSet(Placement) /\ IsFiniteSet(Withdrawal)
  /\ Fees \subseteq Nat /\ Sizes \subseteq Nat \ {0}
  /\ MaxFailures \in Nat
  /\ None \notin Placement \cup Withdrawal \cup Sweeper \cup Caller
  /\ Placement \cap Withdrawal = {}
  /\ Sweeper \cap Caller = {}

VARIABLES
  active,       \* agents.status = ACTIVE
  unlocked,     \* placements whose contact unlock is UNLOCKED
  mission,      \* assignments.status; CANCELLED stands for a no-show too
  commission,   \* agent_commissions.status ("NONE": no row)
  amount,       \* agent_commissions.amount
  window,       \* available_at: null, in the future, or past
  withdrawal,   \* agent_withdrawals.status ("NONE": no row)
  asked,        \* agent_withdrawals.amount
  entries,      \* idempotency keys of agent_ledger_entries
  balance,      \* the sum of the entries of each bucket
  lock,         \* who holds the lock of the agent's row
  call, failures

environment == <<active, unlocked, mission>>
commissions == <<commission, amount, window>>
withdrawals == <<withdrawal, asked>>
ledger == <<entries, balance>>
vars == <<environment, commissions, withdrawals, ledger, lock, call, failures>>

Bucket == {"PENDING", "AVAILABLE", "LOCKED", "PAID_OUT"}
Step == {"earned", "released", "cancelled", "requested", "paid", "rejected"}
CommissionStatus == {"NONE", "INELIGIBLE", "PENDING", "AVAILABLE", "CANCELLED"}
WithdrawalStatus == {"NONE", "REQUESTED", "PAID", "REJECTED", "CANCELLED"}
Call == Sweeper \cup Caller

\* A call's placement or withdrawal, the fee or size it carries, whether the
\* window of a commission starts with the unlock, and the status it cancels from.
CallState ==
  [pc : {"idle", "deciding", "refusing", "starting", "releasing", "cancelling",
         "locking", "taking", "requesting"},
   row : Placement \cup Withdrawal \cup {None}, size : Nat, atUnlock : BOOLEAN,
   from : {"PENDING", "AVAILABLE"}]
Idle ==
  [pc |-> "idle", row |-> None, size |-> 0, atUnlock |-> FALSE, from |-> "PENDING"]

TypeOK ==
  /\ active \in BOOLEAN
  /\ unlocked \in SUBSET Placement
  /\ mission \in [Placement -> {"OPEN", "COMPLETED", "CANCELLED"}]
  /\ commission \in [Placement -> CommissionStatus]
  /\ amount \in [Placement -> Nat]
  /\ window \in [Placement -> {"none", "running", "over"}]
  /\ withdrawal \in [Withdrawal -> WithdrawalStatus]
  /\ asked \in [Withdrawal -> Nat]
  /\ entries \in SUBSET ((Placement \cup Withdrawal) \X Step)
  /\ balance \in [Bucket -> Int]
  /\ lock \in Caller \cup {None}
  /\ call \in [Call -> CallState]
  /\ failures \in 0 .. MaxFailures

Init ==
  /\ active = TRUE
  /\ unlocked = {}
  /\ mission = [p \in Placement |-> "OPEN"]
  /\ commission = [p \in Placement |-> "NONE"]
  /\ amount = [p \in Placement |-> 0]
  /\ window = [p \in Placement |-> "none"]
  /\ withdrawal = [w \in Withdrawal |-> "NONE"]
  /\ asked = [w \in Withdrawal |-> 0]
  /\ entries = {}
  /\ balance = [b \in Bucket |-> 0]
  /\ lock = None
  /\ call = [c \in Call |-> Idle]
  /\ failures = 0

----------------------------------------------------------------------------
At(c, label) == call[c].pc = label
Goto(c, label, row) ==
  call' = [call EXCEPT ![c] = [Idle EXCEPT !.pc = label, !.row = row]]
Leave(c) == call' = [call EXCEPT ![c] = Idle]

Unlocked == lock = None
Unlock(c) == lock' = IF lock = c THEN None ELSE lock

\* writeLedger: a pair of entries, or one whose other side is outside the ledger;
\* a key that is there already is skipped.
WriteLedger(row, step, from, to, n) ==
  IF <<row, step>> \in entries THEN UNCHANGED ledger
  ELSE /\ entries' = entries \cup {<<row, step>>}
       /\ balance' = [b \in Bucket |->
            balance[b] + (IF b = to THEN n ELSE 0) - (IF b = from THEN n ELSE 0)]

----------------------------------------------------------------------------
(* The sweep.  A batch is one call per placement of it. *)

\* decideOne reads the facts and decides; phones and payments decide what the
\* fee and the agent's status leave open.
LoadUndecided(s, p, fee, eligible, atUnlock) ==
  /\ At(s, "idle")
  /\ p \in unlocked /\ commission[p] = "NONE"
  /\ eligible => active /\ fee > 0
  /\ atUnlock => eligible
  /\ call' = [call EXCEPT ![s] =
       [Idle EXCEPT !.pc = IF eligible THEN "deciding" ELSE "refusing",
                    !.row = p, !.size = fee, !.atUnlock = atUnlock]]
  /\ UNCHANGED <<environment, commissions, withdrawals, ledger, lock, failures>>

\* application_id is unique: another sweep may have decided first.
CreateCommission(s) ==
  /\ At(s, "deciding") \/ At(s, "refusing")
  /\ LET p == call[s].row IN
       \/ /\ commission[p] # "NONE"
          /\ UNCHANGED <<commissions, ledger>>
       \/ /\ commission[p] = "NONE" /\ At(s, "refusing")
          /\ commission' = [commission EXCEPT ![p] = "INELIGIBLE"]
          /\ UNCHANGED <<amount, window, ledger>>
       \/ /\ commission[p] = "NONE" /\ At(s, "deciding")
          /\ commission' = [commission EXCEPT ![p] = "PENDING"]
          /\ amount' = [amount EXCEPT ![p] = call[s].size]
          /\ window' = [window EXCEPT ![p] =
               IF call[s].atUnlock THEN "running" ELSE "none"]
          /\ WriteLedger(p, "earned", "outside", "PENDING", call[s].size)
  /\ Leave(s)
  /\ UNCHANGED <<environment, withdrawals, lock, failures>>

\* startCompletionWindows.
LoadWaiting(s, p) ==
  /\ At(s, "idle")
  /\ commission[p] = "PENDING" /\ window[p] = "none" /\ mission[p] = "COMPLETED"
  /\ Goto(s, "starting", p)
  /\ UNCHANGED <<environment, commissions, withdrawals, ledger, lock, failures>>

StartWindow(s) ==
  /\ At(s, "starting")
  /\ LET p == call[s].row IN
       window' = IF commission[p] = "PENDING" /\ window[p] = "none"
                 THEN [window EXCEPT ![p] = "running"] ELSE window
  /\ Leave(s)
  /\ UNCHANGED <<environment, commission, amount, withdrawals, ledger, lock, failures>>

\* available_at passes.
WindowPasses(p) ==
  /\ window[p] = "running"
  /\ window' = [window EXCEPT ![p] = "over"]
  /\ UNCHANGED <<environment, commission, amount, withdrawals, ledger, lock, call, failures>>

\* Mutant: only completed missions are released.
LoadPendingOfCompleted(s, p) ==
  /\ At(s, "idle")
  /\ commission[p] = "PENDING"
  /\ \/ mission[p] = "CANCELLED" /\ Goto(s, "cancelling", p)
     \/ mission[p] = "COMPLETED" /\ window[p] = "over" /\ Goto(s, "releasing", p)
  /\ UNCHANGED <<environment, commissions, withdrawals, ledger, lock, failures>>

\* settlePending decides on the assignments and dates it loaded.
LoadPending(s, p) ==
  /\ At(s, "idle")
  /\ commission[p] = "PENDING"
  /\ \/ mission[p] = "CANCELLED" /\ Goto(s, "cancelling", p)
     \/ mission[p] # "CANCELLED" /\ window[p] = "over" /\ Goto(s, "releasing", p)
  /\ UNCHANGED <<environment, commissions, withdrawals, ledger, lock, failures>>

Release(s) ==
  /\ At(s, "releasing")
  /\ LET p == call[s].row IN
       IF commission[p] = "PENDING"
       THEN /\ commission' = [commission EXCEPT ![p] = "AVAILABLE"]
            /\ WriteLedger(p, "released", "PENDING", "AVAILABLE", amount[p])
       ELSE UNCHANGED <<commission, ledger>>
  /\ Leave(s)
  /\ UNCHANGED <<environment, amount, window, withdrawals, lock, failures>>

----------------------------------------------------------------------------
(* Taking commissions back. *)

\* Mutant: any commission may be cancelled.
AdminCancelUnchecked(c, p) ==
  /\ At(c, "idle")
  /\ commission[p] # "NONE"
  /\ call' = [call EXCEPT ![c] =
       [Idle EXCEPT !.row = p, !.from = commission[p],
          !.pc = IF commission[p] = "AVAILABLE" THEN "locking" ELSE "cancelling"]]
  /\ UNCHANGED <<environment, commissions, withdrawals, ledger, lock, failures>>

\* adminCancel takes the commission back from the status it read.
AdminCancel(c, p) ==
  /\ At(c, "idle")
  /\ commission[p] \in {"PENDING", "AVAILABLE"}
  /\ call' = [call EXCEPT ![c] =
       [Idle EXCEPT !.row = p, !.from = commission[p],
          !.pc = IF commission[p] = "AVAILABLE" THEN "locking" ELSE "cancelling"]]
  /\ UNCHANGED <<environment, commissions, withdrawals, ledger, lock, failures>>

\* Mutant: the balance is read without the agent's lock.
LockForCancelUnlocked(c) ==
  /\ At(c, "locking")
  /\ IF balance["AVAILABLE"] < amount[call[c].row]
     THEN Leave(c)
     ELSE call' = [call EXCEPT ![c].pc = "taking"]
  /\ UNCHANGED <<environment, commissions, withdrawals, ledger, lock, failures>>

\* Money locked in a withdrawal or paid out is not clawed back: the balance is
\* read under the agent's lock.
LockForCancel(c) ==
  /\ At(c, "locking") /\ Unlocked
  /\ IF balance["AVAILABLE"] < amount[call[c].row]
     THEN Leave(c) /\ UNCHANGED lock
     ELSE call' = [call EXCEPT ![c].pc = "taking"] /\ lock' = c
  /\ UNCHANGED <<environment, commissions, withdrawals, ledger, failures>>

\* cancel, on the status it was called for.
CancelCommission(c) ==
  /\ At(c, "cancelling") \/ At(c, "taking")
  /\ LET p == call[c].row IN
       IF commission[p] = call[c].from
       THEN /\ commission' = [commission EXCEPT ![p] = "CANCELLED"]
            /\ WriteLedger(p, "cancelled", call[c].from, "outside", amount[p])
       ELSE UNCHANGED <<commission, ledger>>
  /\ Leave(c) /\ Unlock(c)
  /\ UNCHANGED <<environment, amount, window, withdrawals, failures>>

----------------------------------------------------------------------------
(* Withdrawals. *)

\* request: what it checks, it checks under the agent's lock.
Request(c, w, n) ==
  /\ At(c, "idle") /\ Unlocked
  /\ withdrawal[w] = "NONE"
  /\ active
  /\ \A v \in Withdrawal : withdrawal[v] # "REQUESTED"
  /\ n <= balance["AVAILABLE"]
  /\ lock' = c
  /\ call' = [call EXCEPT ![c] = [Idle EXCEPT !.pc = "requesting", !.row = w, !.size = n]]
  /\ UNCHANGED <<environment, commissions, withdrawals, ledger, failures>>

\* The row is new and no other request is open (agent_withdrawals_one_open).
CreateWithdrawal(c) ==
  /\ At(c, "requesting")
  /\ LET w == call[c].row IN
       IF withdrawal[w] = "NONE" /\ \A v \in Withdrawal : withdrawal[v] # "REQUESTED"
       THEN /\ withdrawal' = [withdrawal EXCEPT ![w] = "REQUESTED"]
            /\ asked' = [asked EXCEPT ![w] = call[c].size]
            /\ WriteLedger(w, "requested", "AVAILABLE", "LOCKED", call[c].size)
       ELSE UNCHANGED <<withdrawals, ledger>>
  /\ Leave(c) /\ Unlock(c)
  /\ UNCHANGED <<environment, commissions, failures>>

\* Mutant: a withdrawal that was rejected or taken back can still be paid.
PayUnchecked(w) ==
  /\ withdrawal[w] \notin {"NONE", "PAID"}
  /\ withdrawal' = [withdrawal EXCEPT ![w] = "PAID"]
  /\ WriteLedger(w, "paid", "LOCKED", "PAID_OUT", asked[w])
  /\ UNCHANGED <<environment, commissions, asked, lock, call, failures>>

Pay(w) ==
  /\ withdrawal[w] = "REQUESTED"
  /\ withdrawal' = [withdrawal EXCEPT ![w] = "PAID"]
  /\ WriteLedger(w, "paid", "LOCKED", "PAID_OUT", asked[w])
  /\ UNCHANGED <<environment, commissions, asked, lock, call, failures>>

\* Mutant: the money of a rejected request stays locked.
RejectKeepsLocked(w) ==
  /\ withdrawal[w] = "REQUESTED"
  /\ withdrawal' = [withdrawal EXCEPT ![w] = "REJECTED"]
  /\ UNCHANGED <<environment, commissions, asked, ledger, lock, call, failures>>

Reject(w) ==
  /\ withdrawal[w] = "REQUESTED"
  /\ withdrawal' = [withdrawal EXCEPT ![w] = "REJECTED"]
  /\ WriteLedger(w, "rejected", "LOCKED", "AVAILABLE", asked[w])
  /\ UNCHANGED <<environment, commissions, asked, lock, call, failures>>

\* The agent takes the request back, under the agent's lock.
CancelWithdrawal(w) ==
  /\ withdrawal[w] = "REQUESTED" /\ Unlocked
  /\ withdrawal' = [withdrawal EXCEPT ![w] = "CANCELLED"]
  /\ WriteLedger(w, "cancelled", "LOCKED", "AVAILABLE", asked[w])
  /\ UNCHANGED <<environment, commissions, asked, lock, call, failures>>

----------------------------------------------------------------------------
\* A call fails or its process dies; an open transaction is rolled back.
Interrupt(c) ==
  /\ ~At(c, "idle")
  /\ failures < MaxFailures /\ failures' = failures + 1
  /\ Leave(c) /\ Unlock(c)
  /\ UNCHANGED <<environment, commissions, withdrawals, ledger>>

(* Other services: agents are suspended and reinstated, contacts unlocked, *)
(* missions completed or cancelled.                                        *)
SetActive ==
  /\ active' = ~active
  /\ UNCHANGED <<unlocked, mission, commissions, withdrawals, ledger, lock, call, failures>>

UnlockContacts(p) ==
  /\ p \notin unlocked
  /\ unlocked' = unlocked \cup {p}
  /\ UNCHANGED <<active, mission, commissions, withdrawals, ledger, lock, call, failures>>

EndMission(p, end) ==
  /\ mission[p] = "OPEN" /\ mission' = [mission EXCEPT ![p] = end]
  /\ UNCHANGED <<active, unlocked, commissions, withdrawals, ledger, lock, call, failures>>

SweepStep(s) == CreateCommission(s) \/ StartWindow(s) \/ Release(s) \/ CancelCommission(s)

Load(s, p) ==
  \/ \E fee \in Fees, eligible \in BOOLEAN, atUnlock \in BOOLEAN :
       LoadUndecided(s, p, fee, eligible, atUnlock)
  \/ LoadWaiting(s, p)
  \/ LoadPending(s, p)

CallerStep(c) ==
  \/ \E p \in Placement : AdminCancel(c, p)
  \/ LockForCancel(c)
  \/ CancelCommission(c)
  \/ \E w \in Withdrawal, n \in Sizes : Request(c, w, n)
  \/ CreateWithdrawal(c)

Next ==
  \/ \E s \in Sweeper : SweepStep(s) \/ \E p \in Placement : Load(s, p)
  \/ \E c \in Caller : CallerStep(c)
  \/ \E c \in Call : Interrupt(c)
  \/ \E w \in Withdrawal : Pay(w) \/ Reject(w) \/ CancelWithdrawal(w)
  \/ \E p \in Placement : WindowPasses(p) \/ UnlockContacts(p)
  \/ \E p \in Placement, end \in {"COMPLETED", "CANCELLED"} : EndMission(p, end)
  \/ SetActive

Spec == Init /\ [][Next]_vars

\* The sweep is a repeatable job: each of its items is loaded again until it is
\* dealt with, and what was loaded runs to its end.  Time passes.
FairSpec ==
  /\ Spec
  /\ \A s \in Sweeper : WF_vars(SweepStep(s))
  /\ \A p \in Placement : WF_vars(\E s \in Sweeper : Load(s, p))
  /\ \A p \in Placement : WF_vars(WindowPasses(p))

----------------------------------------------------------------------------
(* Properties. *)

\* "Two requests sent at once cannot both spend the same balance", and a
\* commission is taken back only while it is covered: whatever sweeps, requests,
\* decisions and cancellations overlap, no bucket the agent can spend from or an
\* administrator pays from goes below zero.
NeverOverdrawn == balance["AVAILABLE"] >= 0 /\ balance["LOCKED"] >= 0

Sum(f, S) == MapThenSumSet(LAMBDA x : f[x], S)
Commissions(st) == Sum(amount, {p \in Placement : commission[p] = st})
Withdrawals(st) == Sum(asked, {w \in Withdrawal : withdrawal[w] = st})

\* "A sweep that runs twice, or concurrently, moves no money twice": the ledger
\* agrees with the rows, so no move is lost, repeated or made between the wrong
\* buckets.
LedgerAgreesWithRows ==
  /\ balance["PENDING"] = Commissions("PENDING")
  /\ balance["LOCKED"] = Withdrawals("REQUESTED")
  /\ balance["PAID_OUT"] = Withdrawals("PAID")
  /\ balance["AVAILABLE"] =
       Commissions("AVAILABLE") - Withdrawals("REQUESTED") - Withdrawals("PAID")

\* What was decided stays decided: no stale read reopens, pays or cancels a
\* withdrawal or a commission that was settled meanwhile.
SettledIsFinal ==
  [][/\ \A w \in Withdrawal :
          withdrawal[w] \in {"PAID", "REJECTED", "CANCELLED"} =>
            withdrawal'[w] = withdrawal[w]
     /\ \A p \in Placement :
          commission[p] \in {"INELIGIBLE", "CANCELLED"} =>
            commission'[p] = commission[p]]_vars

\* "Nothing is lost: the next successful registration decides every placement
\* still undecided", whatever sweeps died before.
EveryPlacementIsDecided ==
  \A p \in Placement : p \in unlocked ~> commission[p] # "NONE"

\* A commission whose window started does not stay pending.
PendingIsSettled ==
  \A p \in Placement :
    commission[p] = "PENDING" /\ window[p] # "none" ~> commission[p] # "PENDING"

\* Both: the repeated sweeps take every placement to its end, in as many steps of as
\* many sweeps as it needs.
PlacementsComeToAnEnd == EveryPlacementIsDecided /\ PendingIsSettled
==========================================================================
