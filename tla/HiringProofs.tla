--------------------------- MODULE HiringProofs ---------------------------
(* Proofs about Hiring, for any applications, quantities, forced statuses,   *)
(* numbers of concurrent calls and overlaps.                                 *)
EXTENDS Hiring, FiniteSetTheorems, TLAPS

\* What a call holds agrees with the step it is at: r is its record, n the
\* largest quantity so far.
Held(r, n) ==
  /\ r.pc \in {"accept", "reject", "cancel", "reopen", "lapse", "finish", "finishKept",
              "finishWrite", "start", "notify"} => r.app \in Application
  /\ r.pc \in {"accept", "lapse"} => r.quantity \in Quantities /\ r.quantity <= n
  /\ r.pc \in {"edit", "editWrite"} => r.quantity \in Quantities
  /\ r.pc = "admin" => r.offer \in ForcedStatuses
  /\ r.pc = "reopen" => r.offer \in {"none", "ACTIVE", "PARTIALLY_FILLED"}
  /\ r.pc \in {"start", "notify"} => r.offer \in Movable \cup {"none"}

CallsHold == \A c \in Call : Held(call[c], maxQuantity)

\* The inductive type invariant; a quantity never exceeds the largest so far.
TypeInv == TypeOK /\ CallsHold /\ quantity <= maxQuantity

\* The record of a call that does nothing.
LEMMA IdleIsCall == Idle \in CallState
  BY DEF Idle, CallState, Label, ApplicationStatus

\* ... and what it holds.
LEMMA IdleIsHeld == ASSUME NEW n PROVE Held(Idle, n)
  BY DEF Held, Idle

\* One call's record is replaced while the largest quantity does not fall.
LEMMA ReplaceKeepsCalls ==
  ASSUME TypeInv, NEW c \in Call, NEW r \in CallState, Held(r, maxQuantity'),
         call' = [call EXCEPT ![c] = r],
         maxQuantity' \in Nat, maxQuantity <= maxQuantity'
  PROVE  (call \in [Call -> CallState] /\ CallsHold)'
<1>1. call \in [Call -> CallState] /\ maxQuantity \in Nat
  BY HiringAssumption DEF TypeInv, TypeOK
<1>2. ASSUME NEW d \in Call PROVE Held(call'[d], maxQuantity')
  <2>1. CASE d = c
    BY <1>1, <2>1
  <2>2. CASE d # c
    <3>1. call'[d] = call[d] /\ Held(call[d], maxQuantity)
      BY <1>1, <2>2 DEF TypeInv, CallsHold
    <3>2. call[d].quantity \in Quantities => call[d].quantity \in Nat
      BY HiringAssumption
    <3> QED
      BY <1>1, <3>1, <3>2 DEF Held
  <2> QED
    BY <2>1, <2>2
<1>3. call' \in [Call -> CallState]
  BY <1>1
<1> QED
  BY <1>2, <1>3 DEF CallsHold

\* Every step keeps what the calls hold.
LEMMA CallsStep ==
  ASSUME TypeInv, [Next]_vars
  PROVE  (call \in [Call -> CallState] /\ CallsHold)'
<1>1. ASSUME NEW a \in Application, Apply(a) PROVE (call \in [Call -> CallState] /\ CallsHold)'
  <2>1. call' = call /\ maxQuantity' = maxQuantity
    BY <1>1 DEF Apply, Begin, Goto, End, Load, Read, history
  <2> QED
    BY <2>1 DEF TypeInv, TypeOK, CallsHold
<1>2. ASSUME NEW c \in Call, NEW a \in Application, LoadAccept(c, a) PROVE (call \in [Call -> CallState] /\ CallsHold)'
  <2>2. maxQuantity' \in Nat /\ maxQuantity <= maxQuantity' /\ maxQuantity' = maxQuantity
    BY <1>2, HiringAssumption DEF LoadAccept, Begin, Goto, Load, Read, history, TypeInv, TypeOK
  <2>3. [Idle EXCEPT !.pc = "accept", !.app = a, !.quantity = quantity] \in CallState
    BY <1>2, HiringAssumption DEF LoadAccept, TypeInv, TypeOK, Idle, CallState, Label, ApplicationStatus, OfferStatus, Waiting, Movable, With
  <2>4. Held([Idle EXCEPT !.pc = "accept", !.app = a, !.quantity = quantity], maxQuantity')
    BY <1>2, <2>2 DEF LoadAccept, Held, TypeInv, TypeOK, Idle, CallState, Movable
  <2>5. call' = [call EXCEPT ![c] = [Idle EXCEPT !.pc = "accept", !.app = a, !.quantity = quantity]]
    BY <1>2 DEF LoadAccept, Begin, Goto, Load, Read
  <2> QED
    BY <2>2, <2>3, <2>4, <2>5, ReplaceKeepsCalls
<1>3. ASSUME NEW c \in Call, NEW a \in Application, LoadReject(c, a) PROVE (call \in [Call -> CallState] /\ CallsHold)'
  <2>2. maxQuantity' \in Nat /\ maxQuantity <= maxQuantity' /\ maxQuantity' = maxQuantity
    BY <1>3, HiringAssumption DEF LoadReject, Begin, Goto, Load, Read, history, TypeInv, TypeOK
  <2>3. [Idle EXCEPT !.pc = "reject", !.app = a] \in CallState
    BY <1>3, HiringAssumption DEF LoadReject, TypeInv, TypeOK, Idle, CallState, Label, ApplicationStatus, OfferStatus, Waiting, Movable, With
  <2>4. Held([Idle EXCEPT !.pc = "reject", !.app = a], maxQuantity')
    BY <1>3, <2>2 DEF LoadReject, Held, TypeInv, TypeOK, Idle, CallState, Movable
  <2>5. call' = [call EXCEPT ![c] = [Idle EXCEPT !.pc = "reject", !.app = a]]
    BY <1>3 DEF LoadReject, Begin, Goto, Load, Read
  <2> QED
    BY <2>2, <2>3, <2>4, <2>5, ReplaceKeepsCalls
<1>4. ASSUME NEW c \in Call, NEW a \in Application, LoadCancel(c, a) PROVE (call \in [Call -> CallState] /\ CallsHold)'
  <2>2. maxQuantity' \in Nat /\ maxQuantity <= maxQuantity' /\ maxQuantity' = maxQuantity
    BY <1>4, HiringAssumption DEF LoadCancel, Begin, Goto, Load, Read, history, TypeInv, TypeOK
  <2>3. [Idle EXCEPT !.pc = "cancel", !.app = a, !.status = app[a]] \in CallState
    BY <1>4, HiringAssumption DEF LoadCancel, TypeInv, TypeOK, Idle, CallState, Label, ApplicationStatus, OfferStatus, Waiting, Movable, With
  <2>4. Held([Idle EXCEPT !.pc = "cancel", !.app = a, !.status = app[a]], maxQuantity')
    BY <1>4, <2>2 DEF LoadCancel, Held, TypeInv, TypeOK, Idle, CallState, Movable
  <2>5. call' = [call EXCEPT ![c] = [Idle EXCEPT !.pc = "cancel", !.app = a, !.status = app[a]]]
    BY <1>4 DEF LoadCancel, Begin, Goto, Load, Read
  <2> QED
    BY <2>2, <2>3, <2>4, <2>5, ReplaceKeepsCalls
<1>5. ASSUME NEW c \in Call, NEW a \in Application, LoadLapse(c, a) PROVE (call \in [Call -> CallState] /\ CallsHold)'
  <2>0. PICK x \in OfferStatus \cup {"none"} :
          x = IF past \/ offer \in {"IN_PROGRESS", "COMPLETED"} THEN "none" ELSE offer
    BY DEF TypeInv, TypeOK
  <2>2. maxQuantity' \in Nat /\ maxQuantity <= maxQuantity' /\ maxQuantity' = maxQuantity
    BY <1>5, HiringAssumption DEF LoadLapse, Begin, Goto, Load, Read, history, TypeInv, TypeOK
  <2>3. [Idle EXCEPT !.pc = "lapse", !.app = a, !.quantity = quantity, !.offer = x] \in CallState
    BY <1>5, HiringAssumption DEF LoadLapse, TypeInv, TypeOK, Idle, CallState, Label, ApplicationStatus, OfferStatus, Waiting, Movable, With
  <2>4. Held([Idle EXCEPT !.pc = "lapse", !.app = a, !.quantity = quantity, !.offer = x], maxQuantity')
    BY <1>5, <2>2 DEF LoadLapse, Held, TypeInv, TypeOK, Idle, CallState, Movable
  <2>5. call' = [call EXCEPT ![c] = [Idle EXCEPT !.pc = "lapse", !.app = a, !.quantity = quantity, !.offer = x]]
    BY <1>5, <2>0 DEF LoadLapse, Begin, Goto, Load, Read
  <2> QED
    BY <2>2, <2>3, <2>4, <2>5, ReplaceKeepsCalls
<1>6. ASSUME NEW c \in Call, NEW a \in Application, LoadFinish(c, a) PROVE (call \in [Call -> CallState] /\ CallsHold)'
  <2>2. maxQuantity' \in Nat /\ maxQuantity <= maxQuantity' /\ maxQuantity' = maxQuantity
    BY <1>6, HiringAssumption DEF LoadFinish, Begin, Goto, Load, Read, history, TypeInv, TypeOK
  <2>3. [Idle EXCEPT !.pc = "finish", !.app = a, !.status = app[a]] \in CallState
    BY <1>6, HiringAssumption DEF LoadFinish, TypeInv, TypeOK, Idle, CallState, Label, ApplicationStatus, OfferStatus, Waiting, Movable, With
  <2>4. Held([Idle EXCEPT !.pc = "finish", !.app = a, !.status = app[a]], maxQuantity')
    BY <1>6, <2>2 DEF LoadFinish, Held, TypeInv, TypeOK, Idle, CallState, Movable
  <2>5. call' = [call EXCEPT ![c] = [Idle EXCEPT !.pc = "finish", !.app = a, !.status = app[a]]]
    BY <1>6 DEF LoadFinish, Begin, Goto, Load, Read
  <2> QED
    BY <2>2, <2>3, <2>4, <2>5, ReplaceKeepsCalls
<1>7. ASSUME NEW c \in Call, NEW a \in Application, LoadStart(c, a) PROVE (call \in [Call -> CallState] /\ CallsHold)'
  <2>0. PICK x \in Movable \cup {"none"} :
          x = IF offer \in Movable THEN offer ELSE "none"
    BY DEF TypeInv, TypeOK
  <2>2. maxQuantity' \in Nat /\ maxQuantity <= maxQuantity' /\ maxQuantity' = maxQuantity
    BY <1>7, HiringAssumption DEF LoadStart, Begin, Goto, Load, Read, history, TypeInv, TypeOK
  <2>3. [Idle EXCEPT !.pc = "start", !.app = a, !.offer = x] \in CallState
    BY <1>7, HiringAssumption DEF LoadStart, TypeInv, TypeOK, Idle, CallState, Label, ApplicationStatus, OfferStatus, Waiting, Movable, With
  <2>4. Held([Idle EXCEPT !.pc = "start", !.app = a, !.offer = x], maxQuantity')
    BY <1>7, <2>2 DEF LoadStart, Held, TypeInv, TypeOK, Idle, CallState, Movable
  <2>5. call' = [call EXCEPT ![c] = [Idle EXCEPT !.pc = "start", !.app = a, !.offer = x]]
    BY <1>7, <2>0 DEF LoadStart, Begin, Goto, Load, Read
  <2> QED
    BY <2>2, <2>3, <2>4, <2>5, ReplaceKeepsCalls
<1>8. ASSUME NEW c \in Call, NEW S \in SUBSET Application, Unlock(c, S) PROVE (call \in [Call -> CallState] /\ CallsHold)'
  <2>2. maxQuantity' \in Nat /\ maxQuantity <= maxQuantity' /\ maxQuantity' = maxQuantity
    BY <1>8, HiringAssumption DEF Unlock, Begin, Goto, Load, Read, history, TypeInv, TypeOK
  <2>3. [Idle EXCEPT !.pc = "leftovers"] \in CallState
    BY <1>8, HiringAssumption DEF Unlock, TypeInv, TypeOK, Idle, CallState, Label, ApplicationStatus, OfferStatus, Waiting, Movable, With
  <2>4. Held([Idle EXCEPT !.pc = "leftovers"], maxQuantity')
    BY <1>8, <2>2 DEF Unlock, Held, TypeInv, TypeOK, Idle, CallState, Movable
  <2>5. call' = [call EXCEPT ![c] = [Idle EXCEPT !.pc = "leftovers"]]
    BY <1>8 DEF Unlock, Begin, Goto, Load, Read
  <2> QED
    BY <2>2, <2>3, <2>4, <2>5, ReplaceKeepsCalls
<1>9. ASSUME NEW c \in Call, NEW s \in ForcedStatuses, LoadAdmin(c, s) PROVE (call \in [Call -> CallState] /\ CallsHold)'
  <2>2. maxQuantity' \in Nat /\ maxQuantity <= maxQuantity' /\ maxQuantity' = maxQuantity
    BY <1>9, HiringAssumption DEF LoadAdmin, Begin, Goto, Load, Read, history, TypeInv, TypeOK
  <2>3. [Idle EXCEPT !.pc = "admin", !.offer = s] \in CallState
    BY <1>9, HiringAssumption DEF LoadAdmin, TypeInv, TypeOK, Idle, CallState, Label, ApplicationStatus, OfferStatus, Waiting, Movable, With
  <2>4. Held([Idle EXCEPT !.pc = "admin", !.offer = s], maxQuantity')
    BY <1>9, <2>2 DEF LoadAdmin, Held, TypeInv, TypeOK, Idle, CallState, Movable
  <2>5. call' = [call EXCEPT ![c] = [Idle EXCEPT !.pc = "admin", !.offer = s]]
    BY <1>9 DEF LoadAdmin, Begin, Goto, Load, Read
  <2> QED
    BY <2>2, <2>3, <2>4, <2>5, ReplaceKeepsCalls
<1>10. ASSUME NEW c \in Call, NEW q \in Quantities, LoadEdit(c, q) PROVE (call \in [Call -> CallState] /\ CallsHold)'
  <2>2. maxQuantity' \in Nat /\ maxQuantity <= maxQuantity' /\ maxQuantity' = maxQuantity
    BY <1>10, HiringAssumption DEF LoadEdit, Begin, Goto, Load, Read, history, TypeInv, TypeOK
  <2>3. [Idle EXCEPT !.pc = "edit", !.quantity = q] \in CallState
    BY <1>10, HiringAssumption DEF LoadEdit, TypeInv, TypeOK, Idle, CallState, Label, ApplicationStatus, OfferStatus, Waiting, Movable, With
  <2>4. Held([Idle EXCEPT !.pc = "edit", !.quantity = q], maxQuantity')
    BY <1>10, <2>2 DEF LoadEdit, Held, TypeInv, TypeOK, Idle, CallState, Movable
  <2>5. call' = [call EXCEPT ![c] = [Idle EXCEPT !.pc = "edit", !.quantity = q]]
    BY <1>10 DEF LoadEdit, Begin, Goto, Load, Read
  <2> QED
    BY <2>2, <2>3, <2>4, <2>5, ReplaceKeepsCalls
<1>11. ASSUME NEW c \in Call, NEW q \in Quantities, LoadEditByAdmin(c, q) PROVE (call \in [Call -> CallState] /\ CallsHold)'
  <2>2. maxQuantity' \in Nat /\ maxQuantity <= maxQuantity' /\ maxQuantity' = maxQuantity
    BY <1>11, HiringAssumption DEF LoadEditByAdmin, Begin, Goto, Load, Read, history, TypeInv, TypeOK
  <2>3. [Idle EXCEPT !.pc = "editWrite", !.quantity = q] \in CallState
    BY <1>11, HiringAssumption DEF LoadEditByAdmin, TypeInv, TypeOK, Idle, CallState, Label, ApplicationStatus, OfferStatus, Waiting, Movable, With
  <2>4. Held([Idle EXCEPT !.pc = "editWrite", !.quantity = q], maxQuantity')
    BY <1>11, <2>2 DEF LoadEditByAdmin, Held, TypeInv, TypeOK, Idle, CallState, Movable
  <2>5. call' = [call EXCEPT ![c] = [Idle EXCEPT !.pc = "editWrite", !.quantity = q]]
    BY <1>11 DEF LoadEditByAdmin, Begin, Goto, Load, Read
  <2> QED
    BY <2>2, <2>3, <2>4, <2>5, ReplaceKeepsCalls
<1>12. ASSUME NEW c \in Call, LoadConfirm(c) PROVE (call \in [Call -> CallState] /\ CallsHold)'
  <2>2. maxQuantity' \in Nat /\ maxQuantity <= maxQuantity' /\ maxQuantity' = maxQuantity
    BY <1>12, HiringAssumption DEF LoadConfirm, Begin, Goto, Load, Read, history, TypeInv, TypeOK
  <2>3. [Idle EXCEPT !.pc = "confirm"] \in CallState
    BY <1>12, HiringAssumption DEF LoadConfirm, TypeInv, TypeOK, Idle, CallState, Label, ApplicationStatus, OfferStatus, Waiting, Movable, With
  <2>4. Held([Idle EXCEPT !.pc = "confirm"], maxQuantity')
    BY <1>12, <2>2 DEF LoadConfirm, Held, TypeInv, TypeOK, Idle, CallState, Movable
  <2>5. call' = [call EXCEPT ![c] = [Idle EXCEPT !.pc = "confirm"]]
    BY <1>12 DEF LoadConfirm, Begin, Goto, Load, Read
  <2> QED
    BY <2>2, <2>3, <2>4, <2>5, ReplaceKeepsCalls
<1>13. ASSUME NEW c \in Call, LoadClose(c) PROVE (call \in [Call -> CallState] /\ CallsHold)'
  <2>2. maxQuantity' \in Nat /\ maxQuantity <= maxQuantity' /\ maxQuantity' = maxQuantity
    BY <1>13, HiringAssumption DEF LoadClose, Begin, Goto, Load, Read, history, TypeInv, TypeOK
  <2>3. [Idle EXCEPT !.pc = "close", !.offer = offer] \in CallState
    BY <1>13, HiringAssumption DEF LoadClose, TypeInv, TypeOK, Idle, CallState, Label, ApplicationStatus, OfferStatus, Waiting, Movable, With
  <2>4. Held([Idle EXCEPT !.pc = "close", !.offer = offer], maxQuantity')
    BY <1>13, <2>2 DEF LoadClose, Held, TypeInv, TypeOK, Idle, CallState, Movable
  <2>5. call' = [call EXCEPT ![c] = [Idle EXCEPT !.pc = "close", !.offer = offer]]
    BY <1>13 DEF LoadClose, Begin, Goto, Load, Read
  <2> QED
    BY <2>2, <2>3, <2>4, <2>5, ReplaceKeepsCalls
<1>14. ASSUME NEW c \in Call, LoadDelete(c) PROVE (call \in [Call -> CallState] /\ CallsHold)'
  <2>2. maxQuantity' \in Nat /\ maxQuantity <= maxQuantity' /\ maxQuantity' = maxQuantity
    BY <1>14, HiringAssumption DEF LoadDelete, Begin, Goto, Load, Read, history, TypeInv, TypeOK
  <2>3. [Idle EXCEPT !.pc = "delete"] \in CallState
    BY <1>14, HiringAssumption DEF LoadDelete, TypeInv, TypeOK, Idle, CallState, Label, ApplicationStatus, OfferStatus, Waiting, Movable, With
  <2>4. Held([Idle EXCEPT !.pc = "delete"], maxQuantity')
    BY <1>14, <2>2 DEF LoadDelete, Held, TypeInv, TypeOK, Idle, CallState, Movable
  <2>5. call' = [call EXCEPT ![c] = [Idle EXCEPT !.pc = "delete"]]
    BY <1>14 DEF LoadDelete, Begin, Goto, Load, Read
  <2> QED
    BY <2>2, <2>3, <2>4, <2>5, ReplaceKeepsCalls
<1>15. ASSUME NEW c \in Call, LoadRepublish(c) PROVE (call \in [Call -> CallState] /\ CallsHold)'
  <2>2. maxQuantity' \in Nat /\ maxQuantity <= maxQuantity' /\ maxQuantity' = maxQuantity
    BY <1>15, HiringAssumption DEF LoadRepublish, Begin, Goto, Load, Read, history, TypeInv, TypeOK
  <2>3. [Idle EXCEPT !.pc = "republish"] \in CallState
    BY <1>15, HiringAssumption DEF LoadRepublish, TypeInv, TypeOK, Idle, CallState, Label, ApplicationStatus, OfferStatus, Waiting, Movable, With
  <2>4. Held([Idle EXCEPT !.pc = "republish"], maxQuantity')
    BY <1>15, <2>2 DEF LoadRepublish, Held, TypeInv, TypeOK, Idle, CallState, Movable
  <2>5. call' = [call EXCEPT ![c] = [Idle EXCEPT !.pc = "republish"]]
    BY <1>15 DEF LoadRepublish, Begin, Goto, Load, Read
  <2> QED
    BY <2>2, <2>3, <2>4, <2>5, ReplaceKeepsCalls
<1>16. ASSUME NEW c \in Call, Archive(c) PROVE (call \in [Call -> CallState] /\ CallsHold)'
  <2>2. maxQuantity' \in Nat /\ maxQuantity <= maxQuantity' /\ maxQuantity' = maxQuantity
    BY <1>16, HiringAssumption DEF Archive, Begin, Goto, Load, Read, history, TypeInv, TypeOK
  <2>3. [Idle EXCEPT !.pc = "rejectFind", !.which = {"PENDING"}] \in CallState
    BY <1>16, HiringAssumption DEF Archive, TypeInv, TypeOK, Idle, CallState, Label, ApplicationStatus, OfferStatus, Waiting, Movable, With
  <2>4. Held([Idle EXCEPT !.pc = "rejectFind", !.which = {"PENDING"}], maxQuantity')
    BY <1>16, <2>2 DEF Archive, Held, TypeInv, TypeOK, Idle, CallState, Movable
  <2>5. call' = [call EXCEPT ![c] = [Idle EXCEPT !.pc = "rejectFind", !.which = {"PENDING"}]]
    BY <1>16 DEF Archive, Begin, Goto, Load, Read
  <2> QED
    BY <2>2, <2>3, <2>4, <2>5, ReplaceKeepsCalls
<1>17. ASSUME NEW c \in Call, Accept(c) PROVE (call \in [Call -> CallState] /\ CallsHold)'
  <2>1. call' = [call EXCEPT ![c] = Idle]
    BY <1>17 DEF Accept, End, Goto
  <2>2. maxQuantity' \in Nat /\ maxQuantity \in Nat /\ maxQuantity <= maxQuantity'
    BY <1>17, HiringAssumption DEF Accept, history, TypeInv, TypeOK, CallsHold, Held
  <2> QED
    BY <2>1, <2>2, IdleIsCall, IdleIsHeld, ReplaceKeepsCalls
<1>18. ASSUME NEW c \in Call, Reject(c) PROVE (call \in [Call -> CallState] /\ CallsHold)'
  <2>1. call' = [call EXCEPT ![c] = Idle]
    BY <1>18 DEF Reject, End, Goto
  <2>2. maxQuantity' \in Nat /\ maxQuantity \in Nat /\ maxQuantity <= maxQuantity'
    BY <1>18, HiringAssumption DEF Reject, history, TypeInv, TypeOK, CallsHold, Held
  <2> QED
    BY <2>1, <2>2, IdleIsCall, IdleIsHeld, ReplaceKeepsCalls
<1>19. ASSUME NEW c \in Call, Withdraw(c) PROVE (call \in [Call -> CallState] /\ CallsHold)'
  <2>1. call' = [call EXCEPT ![c] = Idle]
    BY <1>19 DEF Withdraw, End, Goto
  <2>2. maxQuantity' \in Nat /\ maxQuantity \in Nat /\ maxQuantity <= maxQuantity'
    BY <1>19, HiringAssumption DEF Withdraw, history, TypeInv, TypeOK, CallsHold, Held
  <2> QED
    BY <2>1, <2>2, IdleIsCall, IdleIsHeld, ReplaceKeepsCalls
<1>20. ASSUME NEW c \in Call, LockCancel(c) PROVE (call \in [Call -> CallState] /\ CallsHold)'
  <2>0. PICK x \in {"none", "ACTIVE", "PARTIALLY_FILLED"} :
          x = IF call[c].status = "END" \/ offer \notin Terminal
              THEN IF Others(call[c].app, call[c].status = "END") = {} THEN "ACTIVE"
                   ELSE "PARTIALLY_FILLED"
              ELSE "none"
    BY DEF TypeInv, TypeOK
  <2>1. call[c] \in CallState /\ Held(call[c], maxQuantity)
    BY DEF TypeInv, TypeOK, CallsHold
  <2>2. maxQuantity' \in Nat /\ maxQuantity <= maxQuantity' /\ maxQuantity' = maxQuantity
    BY <1>20, HiringAssumption DEF LockCancel, Begin, Goto, Load, Read, history, TypeInv, TypeOK
  <2>3. [call[c] EXCEPT !.pc = "reopen", !.offer = x] \in CallState
    BY <2>1, <1>20, HiringAssumption DEF LockCancel, TypeInv, TypeOK, Idle, CallState, Label, ApplicationStatus, OfferStatus, Waiting, Movable, With
  <2>4. Held([call[c] EXCEPT !.pc = "reopen", !.offer = x], maxQuantity')
    BY <2>1, <1>20, <2>2 DEF LockCancel, Held, TypeInv, TypeOK, Idle, CallState, Movable
  <2>5. call' = [call EXCEPT ![c] = [call[c] EXCEPT !.pc = "reopen", !.offer = x]]
    BY <1>20, <2>0, <2>1 DEF LockCancel, Begin, Goto, Load, Read
  <2> QED
    BY <2>2, <2>3, <2>4, <2>5, ReplaceKeepsCalls
<1>21. ASSUME NEW c \in Call, CommitCancel(c) PROVE (call \in [Call -> CallState] /\ CallsHold)'
  <2>1. call' = [call EXCEPT ![c] = Idle]
    BY <1>21 DEF CommitCancel, CancelHire, End, Goto
  <2>2. maxQuantity' \in Nat /\ maxQuantity \in Nat /\ maxQuantity <= maxQuantity'
    BY <1>21, HiringAssumption DEF CommitCancel, CancelHire, history, TypeInv, TypeOK, CallsHold, Held
  <2> QED
    BY <2>1, <2>2, IdleIsCall, IdleIsHeld, ReplaceKeepsCalls
<1>22. ASSUME NEW c \in Call, Lapse(c) PROVE (call \in [Call -> CallState] /\ CallsHold)'
  <2>1. call' = [call EXCEPT ![c] = Idle]
    BY <1>22 DEF Lapse, CancelHire, End, Goto
  <2>2. maxQuantity' \in Nat /\ maxQuantity \in Nat /\ maxQuantity <= maxQuantity'
    BY <1>22, HiringAssumption DEF Lapse, CancelHire, history, TypeInv, TypeOK, CallsHold, Held
  <2> QED
    BY <2>1, <2>2, IdleIsCall, IdleIsHeld, ReplaceKeepsCalls
<1>23. ASSUME NEW c \in Call, RejectLeftovers(c) PROVE (call \in [Call -> CallState] /\ CallsHold)'
  <2>1. call' = [call EXCEPT ![c] = Idle]
    BY <1>23 DEF RejectLeftovers, End, Goto
  <2>2. maxQuantity' \in Nat /\ maxQuantity \in Nat /\ maxQuantity <= maxQuantity'
    BY <1>23, HiringAssumption DEF RejectLeftovers, history, TypeInv, TypeOK, CallsHold, Held
  <2> QED
    BY <2>1, <2>2, IdleIsCall, IdleIsHeld, ReplaceKeepsCalls
<1>24. ASSUME NEW c \in Call, Confirm(c) PROVE (call \in [Call -> CallState] /\ CallsHold)'
  <2>1. call' = [call EXCEPT ![c] = Idle]
    BY <1>24 DEF Confirm, End, Goto
  <2>2. maxQuantity' \in Nat /\ maxQuantity \in Nat /\ maxQuantity <= maxQuantity'
    BY <1>24, HiringAssumption DEF Confirm, history, TypeInv, TypeOK, CallsHold, Held
  <2> QED
    BY <2>1, <2>2, IdleIsCall, IdleIsHeld, ReplaceKeepsCalls
<1>25. ASSUME NEW c \in Call, Finish(c) PROVE (call \in [Call -> CallState] /\ CallsHold)'
  <2>1. call' = [call EXCEPT ![c] = Idle]
    BY <1>25 DEF Finish, End, Goto
  <2>2. maxQuantity' \in Nat /\ maxQuantity \in Nat /\ maxQuantity <= maxQuantity'
    BY <1>25, HiringAssumption DEF Finish, history, TypeInv, TypeOK, CallsHold, Held
  <2> QED
    BY <2>1, <2>2, IdleIsCall, IdleIsHeld, ReplaceKeepsCalls
<1>26. ASSUME NEW c \in Call, ReadClose(c) PROVE (call \in [Call -> CallState] /\ CallsHold)'
  <2>1. call[c] \in CallState /\ Held(call[c], maxQuantity)
    BY DEF TypeInv, TypeOK, CallsHold
  <2>2. maxQuantity' \in Nat /\ maxQuantity <= maxQuantity' /\ maxQuantity' = maxQuantity
    BY <1>26, HiringAssumption DEF ReadClose, Begin, Goto, Load, Read, history, TypeInv, TypeOK
  <2>3. [call[c] EXCEPT !.pc = "closeWrite", !.ids = With({"PENDING"})] \in CallState
    BY <2>1, <1>26, HiringAssumption DEF ReadClose, TypeInv, TypeOK, Idle, CallState, Label, ApplicationStatus, OfferStatus, Waiting, Movable, With
  <2>4. Held([call[c] EXCEPT !.pc = "closeWrite", !.ids = With({"PENDING"})], maxQuantity')
    BY <2>1, <1>26, <2>2 DEF ReadClose, Held, TypeInv, TypeOK, Idle, CallState, Movable
  <2>5. call' = [call EXCEPT ![c] = [call[c] EXCEPT !.pc = "closeWrite", !.ids = With({"PENDING"})]]
    BY <1>26, <2>1 DEF ReadClose, Begin, Goto, Load, Read
  <2> QED
    BY <2>2, <2>3, <2>4, <2>5, ReplaceKeepsCalls
<1>27. ASSUME NEW c \in Call, WriteClose(c) PROVE (call \in [Call -> CallState] /\ CallsHold)'
  <2>1. call' = [call EXCEPT ![c] = Idle]
    BY <1>27 DEF WriteClose, End, Goto
  <2>2. maxQuantity' \in Nat /\ maxQuantity \in Nat /\ maxQuantity <= maxQuantity'
    BY <1>27, HiringAssumption DEF WriteClose, history, TypeInv, TypeOK, CallsHold, Held
  <2> QED
    BY <2>1, <2>2, IdleIsCall, IdleIsHeld, ReplaceKeepsCalls
<1>28. ASSUME NEW c \in Call, ReadDelete(c) PROVE (call \in [Call -> CallState] /\ CallsHold)'
  <2>1. call[c] \in CallState /\ Held(call[c], maxQuantity)
    BY DEF TypeInv, TypeOK, CallsHold
  <2>2. maxQuantity' \in Nat /\ maxQuantity <= maxQuantity' /\ maxQuantity' = maxQuantity
    BY <1>28, HiringAssumption DEF ReadDelete, Begin, Goto, Load, Read, history, TypeInv, TypeOK
  <2>3. [call[c] EXCEPT !.pc = "deleteWrite", !.ids = With({"PENDING"})] \in CallState
    BY <2>1, <1>28, HiringAssumption DEF ReadDelete, TypeInv, TypeOK, Idle, CallState, Label, ApplicationStatus, OfferStatus, Waiting, Movable, With
  <2>4. Held([call[c] EXCEPT !.pc = "deleteWrite", !.ids = With({"PENDING"})], maxQuantity')
    BY <2>1, <1>28, <2>2 DEF ReadDelete, Held, TypeInv, TypeOK, Idle, CallState, Movable
  <2>5. call' = [call EXCEPT ![c] = [call[c] EXCEPT !.pc = "deleteWrite", !.ids = With({"PENDING"})]]
    BY <1>28, <2>1 DEF ReadDelete, Begin, Goto, Load, Read
  <2> QED
    BY <2>2, <2>3, <2>4, <2>5, ReplaceKeepsCalls
<1>29. ASSUME NEW c \in Call, WriteDelete(c) PROVE (call \in [Call -> CallState] /\ CallsHold)'
  <2>1. call' = [call EXCEPT ![c] = Idle]
    BY <1>29 DEF WriteDelete, End, Goto
  <2>2. maxQuantity' \in Nat /\ maxQuantity \in Nat /\ maxQuantity <= maxQuantity'
    BY <1>29, HiringAssumption DEF WriteDelete, history, TypeInv, TypeOK, CallsHold, Held
  <2> QED
    BY <2>1, <2>2, IdleIsCall, IdleIsHeld, ReplaceKeepsCalls
<1>30. ASSUME NEW c \in Call, WriteAdmin(c) PROVE (call \in [Call -> CallState] /\ CallsHold)'
  <2>1. PICK r \in CallState : call' = [call EXCEPT ![c] = r] /\ Held(r, maxQuantity)
    <3>1. [Idle EXCEPT !.pc = "rejectFind", !.which = Waiting] \in CallState
      BY DEF Idle, CallState, Label, ApplicationStatus
    <3>2. Held([Idle EXCEPT !.pc = "rejectFind", !.which = Waiting], maxQuantity)
      BY DEF Held, Idle
    <3> QED
      BY <1>30, <3>1, <3>2, IdleIsCall, IdleIsHeld DEF WriteAdmin, Goto, End
  <2>2. maxQuantity' = maxQuantity /\ maxQuantity' \in Nat /\ maxQuantity <= maxQuantity'
    BY <1>30, HiringAssumption DEF WriteAdmin, TypeInv, TypeOK
  <2> QED
    BY <2>1, <2>2, ReplaceKeepsCalls
<1>31. ASSUME NEW c \in Call, FindWaiting(c) PROVE (call \in [Call -> CallState] /\ CallsHold)'
  <2>1. call[c] \in CallState /\ Held(call[c], maxQuantity)
    BY DEF TypeInv, TypeOK, CallsHold
  <2>2. maxQuantity' \in Nat /\ maxQuantity <= maxQuantity' /\ maxQuantity' = maxQuantity
    BY <1>31, HiringAssumption DEF FindWaiting, Begin, Goto, Load, Read, history, TypeInv, TypeOK
  <2>3. [call[c] EXCEPT !.pc = "rejectWrite", !.ids = With(call[c].which)] \in CallState
    BY <2>1, <1>31, HiringAssumption DEF FindWaiting, TypeInv, TypeOK, Idle, CallState, Label, ApplicationStatus, OfferStatus, Waiting, Movable, With
  <2>4. Held([call[c] EXCEPT !.pc = "rejectWrite", !.ids = With(call[c].which)], maxQuantity')
    BY <2>1, <1>31, <2>2 DEF FindWaiting, Held, TypeInv, TypeOK, Idle, CallState, Movable
  <2>5. call' = [call EXCEPT ![c] = [call[c] EXCEPT !.pc = "rejectWrite", !.ids = With(call[c].which)]]
    BY <1>31, <2>1 DEF FindWaiting, Begin, Goto, Load, Read
  <2> QED
    BY <2>2, <2>3, <2>4, <2>5, ReplaceKeepsCalls
<1>32. ASSUME NEW c \in Call, RejectWaiting(c) PROVE (call \in [Call -> CallState] /\ CallsHold)'
  <2>1. call' = [call EXCEPT ![c] = Idle]
    BY <1>32 DEF RejectWaiting, End, Goto
  <2>2. maxQuantity' \in Nat /\ maxQuantity \in Nat /\ maxQuantity <= maxQuantity'
    BY <1>32, HiringAssumption DEF RejectWaiting, history, TypeInv, TypeOK, CallsHold, Held
  <2> QED
    BY <2>1, <2>2, IdleIsCall, IdleIsHeld, ReplaceKeepsCalls
<1>33. ASSUME NEW c \in Call, ReadEdit(c) PROVE (call \in [Call -> CallState] /\ CallsHold)'
  <2>1. call[c] \in CallState /\ Held(call[c], maxQuantity)
    BY DEF TypeInv, TypeOK, CallsHold
  <2>2. maxQuantity' \in Nat /\ maxQuantity <= maxQuantity' /\ maxQuantity' = maxQuantity
    BY <1>33, HiringAssumption DEF ReadEdit, Begin, Goto, Load, Read, history, TypeInv, TypeOK
  <2>3. [call[c] EXCEPT !.pc = "editWrite"] \in CallState
    BY <2>1, <1>33, HiringAssumption DEF ReadEdit, TypeInv, TypeOK, Idle, CallState, Label, ApplicationStatus, OfferStatus, Waiting, Movable, With
  <2>4. Held([call[c] EXCEPT !.pc = "editWrite"], maxQuantity')
    BY <2>1, <1>33, <2>2 DEF ReadEdit, Held, TypeInv, TypeOK, Idle, CallState, Movable
  <2>5. call' = [call EXCEPT ![c] = [call[c] EXCEPT !.pc = "editWrite"]]
    BY <1>33, <2>1 DEF ReadEdit, Begin, Goto, Load, Read
  <2> QED
    BY <2>2, <2>3, <2>4, <2>5, ReplaceKeepsCalls
<1>34. ASSUME NEW c \in Call, WriteEdit(c) PROVE (call \in [Call -> CallState] /\ CallsHold)'
  <2>1. call' = [call EXCEPT ![c] = Idle]
    BY <1>34 DEF WriteEdit, End, Goto
  <2>2. call[c].quantity \in Nat /\ maxQuantity \in Nat
    <3>1. Held(call[c], maxQuantity)
      BY DEF TypeInv, CallsHold
    <3> QED
      BY <1>34, <3>1, HiringAssumption DEF WriteEdit, Held, TypeInv, TypeOK
  <2>3. maxQuantity' \in Nat /\ maxQuantity <= maxQuantity'
    BY <1>34, <2>2 DEF WriteEdit
  <2> QED
    BY <2>1, <2>2, <2>3, IdleIsCall, IdleIsHeld, ReplaceKeepsCalls
<1>35. ASSUME NEW c \in Call, Republish(c) PROVE (call \in [Call -> CallState] /\ CallsHold)'
  <2>1. call' = [call EXCEPT ![c] = Idle]
    BY <1>35 DEF Republish, End, Goto
  <2>2. maxQuantity' \in Nat /\ maxQuantity \in Nat /\ maxQuantity <= maxQuantity'
    BY <1>35, HiringAssumption DEF Republish, history, TypeInv, TypeOK, CallsHold, Held
  <2> QED
    BY <2>1, <2>2, IdleIsCall, IdleIsHeld, ReplaceKeepsCalls
<1>36. ASSUME NEW c \in Call, Start(c) PROVE (call \in [Call -> CallState] /\ CallsHold)'
  <2>1. call[c] \in CallState /\ Held(call[c], maxQuantity)
    BY DEF TypeInv, TypeOK, CallsHold
  <2>2. maxQuantity' \in Nat /\ maxQuantity <= maxQuantity' /\ maxQuantity' = maxQuantity
    BY <1>36, HiringAssumption DEF Start, Begin, Goto, Load, Read, history, TypeInv, TypeOK
  <2>3. [call[c] EXCEPT !.pc = "notify"] \in CallState
    BY <2>1, <1>36, HiringAssumption DEF Start, TypeInv, TypeOK, Idle, CallState, Label, ApplicationStatus, OfferStatus, Waiting, Movable, With
  <2>4. Held([call[c] EXCEPT !.pc = "notify"], maxQuantity')
    BY <2>1, <1>36, <2>2 DEF Start, Held, TypeInv, TypeOK, Idle, CallState, Movable
  <2>5. call' = [call EXCEPT ![c] = [call[c] EXCEPT !.pc = "notify"]]
    BY <1>36, <2>1 DEF Start, Begin, Goto, Load, Read
  <2> QED
    BY <2>2, <2>3, <2>4, <2>5, ReplaceKeepsCalls
<1>37. ASSUME NEW c \in Call, UndoStart(c) PROVE (call \in [Call -> CallState] /\ CallsHold)'
  <2>1. call' = [call EXCEPT ![c] = Idle]
    BY <1>37 DEF UndoStart, End, Goto
  <2>2. maxQuantity' \in Nat /\ maxQuantity \in Nat /\ maxQuantity <= maxQuantity'
    BY <1>37, HiringAssumption DEF UndoStart, history, TypeInv, TypeOK, CallsHold, Held
  <2> QED
    BY <2>1, <2>2, IdleIsCall, IdleIsHeld, ReplaceKeepsCalls
<1>38. ASSUME NEW c \in Call, Abort(c) PROVE (call \in [Call -> CallState] /\ CallsHold)'
  <2>1. call' = [call EXCEPT ![c] = Idle]
    BY <1>38 DEF Abort, End, Goto
  <2>2. maxQuantity' \in Nat /\ maxQuantity \in Nat /\ maxQuantity <= maxQuantity'
    BY <1>38, HiringAssumption DEF Abort, history, TypeInv, TypeOK, CallsHold, Held
  <2> QED
    BY <2>1, <2>2, IdleIsCall, IdleIsHeld, ReplaceKeepsCalls
<1>39. ASSUME ToggleDeleted PROVE (call \in [Call -> CallState] /\ CallsHold)'
  <2>1. call' = call /\ maxQuantity' = maxQuantity
    BY <1>39 DEF ToggleDeleted, Begin, Goto, End, Load, Read, ScanEnds, history
  <2> QED
    BY <2>1 DEF TypeInv, TypeOK, CallsHold
<1>40. ASSUME TimePasses PROVE (call \in [Call -> CallState] /\ CallsHold)'
  <2>1. call' = call /\ maxQuantity' = maxQuantity
    BY <1>40 DEF TimePasses, Begin, Goto, End, Load, Read, ScanEnds, history
  <2> QED
    BY <2>1 DEF TypeInv, TypeOK, CallsHold
<1>41. ASSUME ScanFind PROVE (call \in [Call -> CallState] /\ CallsHold)'
  <2>1. call' = call /\ maxQuantity' = maxQuantity
    BY <1>41 DEF ScanFind, Begin, Goto, End, Load, Read, ScanEnds, Find, history
  <2> QED
    BY <2>1 DEF TypeInv, TypeOK, CallsHold
<1>42. ASSUME ExpireEmpty PROVE (call \in [Call -> CallState] /\ CallsHold)'
  <2>1. call' = call /\ maxQuantity' = maxQuantity
    BY <1>42 DEF ExpireEmpty, Begin, Goto, End, Load, Read, ScanEnds, history
  <2> QED
    BY <2>1 DEF TypeInv, TypeOK, CallsHold
<1>43. ASSUME AutoStart PROVE (call \in [Call -> CallState] /\ CallsHold)'
  <2>1. call' = call /\ maxQuantity' = maxQuantity
    BY <1>43 DEF AutoStart, Begin, Goto, End, Load, Read, ScanEnds, history
  <2> QED
    BY <2>1 DEF TypeInv, TypeOK, CallsHold
<1>44. ASSUME StopRecruiting PROVE (call \in [Call -> CallState] /\ CallsHold)'
  <2>1. call' = call /\ maxQuantity' = maxQuantity
    BY <1>44 DEF StopRecruiting, Begin, Goto, End, Load, Read, RejectAll, ScanEnds, history
  <2> QED
    BY <2>1 DEF TypeInv, TypeOK, CallsHold
<1>45. ASSUME CloseAfterGrace PROVE (call \in [Call -> CallState] /\ CallsHold)'
  <2>1. call' = call /\ maxQuantity' = maxQuantity
    BY <1>45 DEF CloseAfterGrace, Begin, Goto, End, Load, Read, CloseRecruitedOffer, Closed, Completed, ScanEnds, history
  <2> QED
    BY <2>1 DEF TypeInv, TypeOK, CallsHold
<1>46. ASSUME UNCHANGED vars PROVE (call \in [Call -> CallState] /\ CallsHold)'
  BY <1>46 DEF vars, history, TypeInv, TypeOK, CallsHold
<1>47. ASSUME NEW c \in Call, ReadFinish(c) PROVE (call \in [Call -> CallState] /\ CallsHold)'
  <2>1. call[c] \in CallState /\ Held(call[c], maxQuantity)
    BY DEF TypeInv, TypeOK, CallsHold
  <2>2. PICK x \in {"finishKept", "finishWrite"} : call' = [call EXCEPT ![c] = [call[c] EXCEPT !.pc = x]]
    BY <1>47 DEF ReadFinish, Goto, Read
  <2>3. maxQuantity' \in Nat /\ maxQuantity <= maxQuantity' /\ maxQuantity' = maxQuantity
    BY <1>47, HiringAssumption DEF ReadFinish, Read, history, TypeInv, TypeOK
  <2>4. [call[c] EXCEPT !.pc = x] \in CallState
    BY <2>1 DEF CallState, Label
  <2>5. Held([call[c] EXCEPT !.pc = x], maxQuantity')
    <3>1. call[c].pc = "finish"
      BY <1>47 DEF ReadFinish
    <3> QED
      BY <2>1, <2>3, <3>1 DEF Held, CallState
  <2> QED
    BY <2>2, <2>3, <2>4, <2>5, ReplaceKeepsCalls
<1> QED
  BY <1>1, <1>2, <1>3, <1>4, <1>5, <1>6, <1>7, <1>8, <1>9, <1>10, <1>11,
     <1>12, <1>13, <1>14, <1>15, <1>16, <1>17, <1>18, <1>19, <1>20, <1>21,
     <1>22, <1>23, <1>24, <1>25, <1>26, <1>27, <1>28, <1>29, <1>30, <1>31,
     <1>32, <1>33, <1>34, <1>35, <1>36, <1>37, <1>38, <1>39, <1>40, <1>41,
     <1>42, <1>43, <1>44, <1>45, <1>46, <1>47
     DEF Next, Loads, Writes, ScanWrite

\* Every step keeps the offer's flags and status in their types.
LEMMA TermsStep ==
  ASSUME TypeInv, [Next]_vars
  PROVE  (/\ ongoing \in BOOLEAN /\ past \in BOOLEAN /\ deleted \in BOOLEAN
          /\ offer \in OfferStatus)'
<1> USE DEF vars, TypeInv, TypeOK, OfferStatus, Movable, terms, rows, history
<1>1. ASSUME NEW a \in Application, Apply(a) PROVE (/\ ongoing \in BOOLEAN /\ past \in BOOLEAN /\ deleted \in BOOLEAN
          /\ offer \in OfferStatus)'
  BY <1>1, HiringAssumption DEF Apply, Begin, Goto, End, Load, Read
<1>2. ASSUME NEW c \in Call, NEW a \in Application, LoadAccept(c, a) PROVE (/\ ongoing \in BOOLEAN /\ past \in BOOLEAN /\ deleted \in BOOLEAN
          /\ offer \in OfferStatus)'
  BY <1>2, HiringAssumption DEF LoadAccept, Begin, Goto, End, Load, Read
<1>3. ASSUME NEW c \in Call, NEW a \in Application, LoadReject(c, a) PROVE (/\ ongoing \in BOOLEAN /\ past \in BOOLEAN /\ deleted \in BOOLEAN
          /\ offer \in OfferStatus)'
  BY <1>3, HiringAssumption DEF LoadReject, Begin, Goto, End, Load, Read
<1>4. ASSUME NEW c \in Call, NEW a \in Application, LoadCancel(c, a) PROVE (/\ ongoing \in BOOLEAN /\ past \in BOOLEAN /\ deleted \in BOOLEAN
          /\ offer \in OfferStatus)'
  BY <1>4, HiringAssumption DEF LoadCancel, Begin, Goto, End, Load, Read
<1>5. ASSUME NEW c \in Call, NEW a \in Application, LoadLapse(c, a) PROVE (/\ ongoing \in BOOLEAN /\ past \in BOOLEAN /\ deleted \in BOOLEAN
          /\ offer \in OfferStatus)'
  BY <1>5, HiringAssumption DEF LoadLapse, Begin, Goto, End, Load, Read
<1>6. ASSUME NEW c \in Call, NEW a \in Application, LoadFinish(c, a) PROVE (/\ ongoing \in BOOLEAN /\ past \in BOOLEAN /\ deleted \in BOOLEAN
          /\ offer \in OfferStatus)'
  BY <1>6, HiringAssumption DEF LoadFinish, Begin, Goto, End, Load, Read
<1>7. ASSUME NEW c \in Call, NEW a \in Application, LoadStart(c, a) PROVE (/\ ongoing \in BOOLEAN /\ past \in BOOLEAN /\ deleted \in BOOLEAN
          /\ offer \in OfferStatus)'
  BY <1>7, HiringAssumption DEF LoadStart, Begin, Goto, End, Load, Read
<1>8. ASSUME NEW c \in Call, NEW S \in SUBSET Application, Unlock(c, S) PROVE (/\ ongoing \in BOOLEAN /\ past \in BOOLEAN /\ deleted \in BOOLEAN
          /\ offer \in OfferStatus)'
  BY <1>8, HiringAssumption DEF Unlock, Begin, Goto, End, Load, Read
<1>9. ASSUME NEW c \in Call, NEW s \in ForcedStatuses, LoadAdmin(c, s) PROVE (/\ ongoing \in BOOLEAN /\ past \in BOOLEAN /\ deleted \in BOOLEAN
          /\ offer \in OfferStatus)'
  BY <1>9, HiringAssumption DEF LoadAdmin, Begin, Goto, End, Load, Read
<1>10. ASSUME NEW c \in Call, NEW q \in Quantities, LoadEdit(c, q) PROVE (/\ ongoing \in BOOLEAN /\ past \in BOOLEAN /\ deleted \in BOOLEAN
          /\ offer \in OfferStatus)'
  BY <1>10, HiringAssumption DEF LoadEdit, Begin, Goto, End, Load, Read
<1>11. ASSUME NEW c \in Call, NEW q \in Quantities, LoadEditByAdmin(c, q) PROVE (/\ ongoing \in BOOLEAN /\ past \in BOOLEAN /\ deleted \in BOOLEAN
          /\ offer \in OfferStatus)'
  BY <1>11, HiringAssumption DEF LoadEditByAdmin, Begin, Goto, End, Load, Read
<1>12. ASSUME NEW c \in Call, LoadConfirm(c) PROVE (/\ ongoing \in BOOLEAN /\ past \in BOOLEAN /\ deleted \in BOOLEAN
          /\ offer \in OfferStatus)'
  BY <1>12, HiringAssumption DEF LoadConfirm, Begin, Goto, End, Load, Read
<1>13. ASSUME NEW c \in Call, LoadClose(c) PROVE (/\ ongoing \in BOOLEAN /\ past \in BOOLEAN /\ deleted \in BOOLEAN
          /\ offer \in OfferStatus)'
  BY <1>13, HiringAssumption DEF LoadClose, Begin, Goto, End, Load, Read
<1>14. ASSUME NEW c \in Call, LoadDelete(c) PROVE (/\ ongoing \in BOOLEAN /\ past \in BOOLEAN /\ deleted \in BOOLEAN
          /\ offer \in OfferStatus)'
  BY <1>14, HiringAssumption DEF LoadDelete, Begin, Goto, End, Load, Read
<1>15. ASSUME NEW c \in Call, LoadRepublish(c) PROVE (/\ ongoing \in BOOLEAN /\ past \in BOOLEAN /\ deleted \in BOOLEAN
          /\ offer \in OfferStatus)'
  BY <1>15, HiringAssumption DEF LoadRepublish, Begin, Goto, End, Load, Read
<1>16. ASSUME NEW c \in Call, Archive(c) PROVE (/\ ongoing \in BOOLEAN /\ past \in BOOLEAN /\ deleted \in BOOLEAN
          /\ offer \in OfferStatus)'
  BY <1>16, HiringAssumption DEF Archive, Begin, Goto, End, Load, Read
<1>17. ASSUME NEW c \in Call, Accept(c) PROVE (/\ ongoing \in BOOLEAN /\ past \in BOOLEAN /\ deleted \in BOOLEAN
          /\ offer \in OfferStatus)'
  <2>1. call[c] \in CallState /\ Held(call[c], maxQuantity)
    BY DEF TypeInv, TypeOK, CallsHold
  <2> QED
    BY <1>17, <2>1, HiringAssumption DEF Held, CallState, Accept, Begin, Goto, End, Load, Read, Taken
<1>18. ASSUME NEW c \in Call, Reject(c) PROVE (/\ ongoing \in BOOLEAN /\ past \in BOOLEAN /\ deleted \in BOOLEAN
          /\ offer \in OfferStatus)'
  <2>1. call[c] \in CallState /\ Held(call[c], maxQuantity)
    BY DEF TypeInv, TypeOK, CallsHold
  <2> QED
    BY <1>18, <2>1, HiringAssumption DEF Held, CallState, Reject, Begin, Goto, End, Load, Read, RejectAll
<1>19. ASSUME NEW c \in Call, Withdraw(c) PROVE (/\ ongoing \in BOOLEAN /\ past \in BOOLEAN /\ deleted \in BOOLEAN
          /\ offer \in OfferStatus)'
  <2>1. call[c] \in CallState /\ Held(call[c], maxQuantity)
    BY DEF TypeInv, TypeOK, CallsHold
  <2> QED
    BY <1>19, <2>1, HiringAssumption DEF Held, CallState, Withdraw, Begin, Goto, End, Load, Read
<1>20. ASSUME NEW c \in Call, LockCancel(c) PROVE (/\ ongoing \in BOOLEAN /\ past \in BOOLEAN /\ deleted \in BOOLEAN
          /\ offer \in OfferStatus)'
  BY <1>20, HiringAssumption DEF LockCancel, Begin, Goto, End, Load, Read
<1>21. ASSUME NEW c \in Call, CommitCancel(c) PROVE (/\ ongoing \in BOOLEAN /\ past \in BOOLEAN /\ deleted \in BOOLEAN
          /\ offer \in OfferStatus)'
  <2>1. call[c] \in CallState /\ Held(call[c], maxQuantity)
    BY DEF TypeInv, TypeOK, CallsHold
  <2> QED
    BY <1>21, <2>1, HiringAssumption DEF Held, CallState, CommitCancel, CancelHire, Begin, Goto, End, Load, Read, Reopened
<1>22. ASSUME NEW c \in Call, Lapse(c) PROVE (/\ ongoing \in BOOLEAN /\ past \in BOOLEAN /\ deleted \in BOOLEAN
          /\ offer \in OfferStatus)'
  <2>1. call[c] \in CallState /\ Held(call[c], maxQuantity)
    BY DEF TypeInv, TypeOK, CallsHold
  <2> QED
    BY <1>22, <2>1, HiringAssumption DEF Held, CallState, Lapse, CancelHire, Begin, Goto, End, Load, Read
<1>23. ASSUME NEW c \in Call, RejectLeftovers(c) PROVE (/\ ongoing \in BOOLEAN /\ past \in BOOLEAN /\ deleted \in BOOLEAN
          /\ offer \in OfferStatus)'
  BY <1>23, HiringAssumption DEF RejectLeftovers, Begin, Goto, End, Load, Read, RejectAll
<1>24. ASSUME NEW c \in Call, Confirm(c) PROVE (/\ ongoing \in BOOLEAN /\ past \in BOOLEAN /\ deleted \in BOOLEAN
          /\ offer \in OfferStatus)'
  BY <1>24, HiringAssumption DEF Confirm, Begin, Goto, End, Load, Read, CloseRecruitedOffer, Closed, Completed
<1>25. ASSUME NEW c \in Call, Finish(c) PROVE (/\ ongoing \in BOOLEAN /\ past \in BOOLEAN /\ deleted \in BOOLEAN
          /\ offer \in OfferStatus)'
  <2>1. call[c] \in CallState /\ Held(call[c], maxQuantity)
    BY DEF TypeInv, TypeOK, CallsHold
  <2> QED
    BY <1>25, <2>1, HiringAssumption DEF Held, CallState, Finish, Begin, Goto, End, Load, Read
<1>26. ASSUME NEW c \in Call, ReadClose(c) PROVE (/\ ongoing \in BOOLEAN /\ past \in BOOLEAN /\ deleted \in BOOLEAN
          /\ offer \in OfferStatus)'
  BY <1>26, HiringAssumption DEF ReadClose, Begin, Goto, End, Load, Read
<1>27. ASSUME NEW c \in Call, WriteClose(c) PROVE (/\ ongoing \in BOOLEAN /\ past \in BOOLEAN /\ deleted \in BOOLEAN
          /\ offer \in OfferStatus)'
  BY <1>27, HiringAssumption DEF WriteClose, Begin, Goto, End, Load, Read, RejectAll
<1>28. ASSUME NEW c \in Call, ReadDelete(c) PROVE (/\ ongoing \in BOOLEAN /\ past \in BOOLEAN /\ deleted \in BOOLEAN
          /\ offer \in OfferStatus)'
  BY <1>28, HiringAssumption DEF ReadDelete, Begin, Goto, End, Load, Read
<1>29. ASSUME NEW c \in Call, WriteDelete(c) PROVE (/\ ongoing \in BOOLEAN /\ past \in BOOLEAN /\ deleted \in BOOLEAN
          /\ offer \in OfferStatus)'
  BY <1>29, HiringAssumption DEF WriteDelete, Begin, Goto, End, Load, Read, RejectAll
<1>30. ASSUME NEW c \in Call, WriteAdmin(c) PROVE (/\ ongoing \in BOOLEAN /\ past \in BOOLEAN /\ deleted \in BOOLEAN
          /\ offer \in OfferStatus)'
  <2>1. call[c] \in CallState /\ Held(call[c], maxQuantity)
    BY DEF TypeInv, TypeOK, CallsHold
  <2> QED
    BY <1>30, <2>1, HiringAssumption DEF Held, CallState, WriteAdmin, Begin, Goto, End, Load, Read
<1>31. ASSUME NEW c \in Call, FindWaiting(c) PROVE (/\ ongoing \in BOOLEAN /\ past \in BOOLEAN /\ deleted \in BOOLEAN
          /\ offer \in OfferStatus)'
  BY <1>31, HiringAssumption DEF FindWaiting, Begin, Goto, End, Load, Read
<1>32. ASSUME NEW c \in Call, RejectWaiting(c) PROVE (/\ ongoing \in BOOLEAN /\ past \in BOOLEAN /\ deleted \in BOOLEAN
          /\ offer \in OfferStatus)'
  BY <1>32, HiringAssumption DEF RejectWaiting, Begin, Goto, End, Load, Read, RejectAll
<1>33. ASSUME NEW c \in Call, ReadEdit(c) PROVE (/\ ongoing \in BOOLEAN /\ past \in BOOLEAN /\ deleted \in BOOLEAN
          /\ offer \in OfferStatus)'
  BY <1>33, HiringAssumption DEF ReadEdit, Begin, Goto, End, Load, Read
<1>34. ASSUME NEW c \in Call, WriteEdit(c) PROVE (/\ ongoing \in BOOLEAN /\ past \in BOOLEAN /\ deleted \in BOOLEAN
          /\ offer \in OfferStatus)'
  <2>1. call[c] \in CallState /\ Held(call[c], maxQuantity)
    BY DEF TypeInv, TypeOK, CallsHold
  <2> QED
    BY <1>34, <2>1, HiringAssumption DEF Held, CallState, WriteEdit, Begin, Goto, End, Load, Read
<1>35. ASSUME NEW c \in Call, Republish(c) PROVE (/\ ongoing \in BOOLEAN /\ past \in BOOLEAN /\ deleted \in BOOLEAN
          /\ offer \in OfferStatus)'
  BY <1>35, HiringAssumption DEF Republish, Begin, Goto, End, Load, Read
<1>36. ASSUME NEW c \in Call, Start(c) PROVE (/\ ongoing \in BOOLEAN /\ past \in BOOLEAN /\ deleted \in BOOLEAN
          /\ offer \in OfferStatus)'
  <2>1. call[c] \in CallState /\ Held(call[c], maxQuantity)
    BY DEF TypeInv, TypeOK, CallsHold
  <2> QED
    BY <1>36, <2>1, HiringAssumption DEF Held, CallState, Start, Begin, Goto, End, Load, Read
<1>37. ASSUME NEW c \in Call, UndoStart(c) PROVE (/\ ongoing \in BOOLEAN /\ past \in BOOLEAN /\ deleted \in BOOLEAN
          /\ offer \in OfferStatus)'
  <2>1. call[c] \in CallState /\ Held(call[c], maxQuantity)
    BY DEF TypeInv, TypeOK, CallsHold
  <2> QED
    BY <1>37, <2>1, HiringAssumption DEF Held, CallState, UndoStart, Begin, Goto, End, Load, Read, Reopened
<1>38. ASSUME NEW c \in Call, Abort(c) PROVE (/\ ongoing \in BOOLEAN /\ past \in BOOLEAN /\ deleted \in BOOLEAN
          /\ offer \in OfferStatus)'
  BY <1>38, HiringAssumption DEF Abort, Begin, Goto, End, Load, Read
<1>39. ASSUME ToggleDeleted PROVE (/\ ongoing \in BOOLEAN /\ past \in BOOLEAN /\ deleted \in BOOLEAN
          /\ offer \in OfferStatus)'
  BY <1>39, HiringAssumption DEF ToggleDeleted, Begin, Goto, End, Load, Read, ScanEnds
<1>40. ASSUME TimePasses PROVE (/\ ongoing \in BOOLEAN /\ past \in BOOLEAN /\ deleted \in BOOLEAN
          /\ offer \in OfferStatus)'
  BY <1>40, HiringAssumption DEF TimePasses, Begin, Goto, End, Load, Read, ScanEnds
<1>41. ASSUME ScanFind PROVE (/\ ongoing \in BOOLEAN /\ past \in BOOLEAN /\ deleted \in BOOLEAN
          /\ offer \in OfferStatus)'
  BY <1>41, HiringAssumption DEF ScanFind, Begin, Goto, End, Load, Read, ScanEnds, Find
<1>42. ASSUME ExpireEmpty PROVE (/\ ongoing \in BOOLEAN /\ past \in BOOLEAN /\ deleted \in BOOLEAN
          /\ offer \in OfferStatus)'
  BY <1>42, HiringAssumption DEF ExpireEmpty, Begin, Goto, End, Load, Read, ScanEnds
<1>43. ASSUME AutoStart PROVE (/\ ongoing \in BOOLEAN /\ past \in BOOLEAN /\ deleted \in BOOLEAN
          /\ offer \in OfferStatus)'
  BY <1>43, HiringAssumption DEF AutoStart, Begin, Goto, End, Load, Read, ScanEnds
<1>44. ASSUME StopRecruiting PROVE (/\ ongoing \in BOOLEAN /\ past \in BOOLEAN /\ deleted \in BOOLEAN
          /\ offer \in OfferStatus)'
  BY <1>44, HiringAssumption DEF StopRecruiting, Begin, Goto, End, Load, Read, RejectAll, ScanEnds
<1>45. ASSUME CloseAfterGrace PROVE (/\ ongoing \in BOOLEAN /\ past \in BOOLEAN /\ deleted \in BOOLEAN
          /\ offer \in OfferStatus)'
  BY <1>45, HiringAssumption DEF CloseAfterGrace, Begin, Goto, End, Load, Read, CloseRecruitedOffer, Closed, Completed, ScanEnds
<1>46. ASSUME UNCHANGED vars PROVE (/\ ongoing \in BOOLEAN /\ past \in BOOLEAN /\ deleted \in BOOLEAN
          /\ offer \in OfferStatus)'
  BY <1>46 DEF vars
<1>47. ASSUME NEW c \in Call, ReadFinish(c) PROVE (/\ ongoing \in BOOLEAN /\ past \in BOOLEAN /\ deleted \in BOOLEAN
          /\ offer \in OfferStatus)'
  BY <1>47, HiringAssumption DEF ReadFinish, Begin, Goto, End, Load, Read
<1> QED
  BY <1>1, <1>2, <1>3, <1>4, <1>5, <1>6, <1>7, <1>8, <1>9, <1>10, <1>11,
     <1>12, <1>13, <1>14, <1>15, <1>16, <1>17, <1>18, <1>19, <1>20, <1>21,
     <1>22, <1>23, <1>24, <1>25, <1>26, <1>27, <1>28, <1>29, <1>30, <1>31,
     <1>32, <1>33, <1>34, <1>35, <1>36, <1>37, <1>38, <1>39, <1>40, <1>41,
     <1>42, <1>43, <1>44, <1>45, <1>46, <1>47
     DEF Next, Loads, Writes, ScanWrite

\* Every step keeps the quantity and the largest one so far.
LEMMA QuantityStep ==
  ASSUME TypeInv, [Next]_vars
  PROVE  (/\ quantity \in Quantities /\ maxQuantity \in Quantities
          /\ quantity <= maxQuantity)'
<1> USE DEF vars, TypeInv, TypeOK, terms, rows, history
<1>1. ASSUME NEW a \in Application, Apply(a) PROVE (/\ quantity \in Quantities /\ maxQuantity \in Quantities
          /\ quantity <= maxQuantity)'
  BY <1>1, HiringAssumption DEF Apply, Begin, Goto, End, Load, Read
<1>2. ASSUME NEW c \in Call, NEW a \in Application, LoadAccept(c, a) PROVE (/\ quantity \in Quantities /\ maxQuantity \in Quantities
          /\ quantity <= maxQuantity)'
  BY <1>2, HiringAssumption DEF LoadAccept, Begin, Goto, End, Load, Read
<1>3. ASSUME NEW c \in Call, NEW a \in Application, LoadReject(c, a) PROVE (/\ quantity \in Quantities /\ maxQuantity \in Quantities
          /\ quantity <= maxQuantity)'
  BY <1>3, HiringAssumption DEF LoadReject, Begin, Goto, End, Load, Read
<1>4. ASSUME NEW c \in Call, NEW a \in Application, LoadCancel(c, a) PROVE (/\ quantity \in Quantities /\ maxQuantity \in Quantities
          /\ quantity <= maxQuantity)'
  BY <1>4, HiringAssumption DEF LoadCancel, Begin, Goto, End, Load, Read
<1>5. ASSUME NEW c \in Call, NEW a \in Application, LoadLapse(c, a) PROVE (/\ quantity \in Quantities /\ maxQuantity \in Quantities
          /\ quantity <= maxQuantity)'
  BY <1>5, HiringAssumption DEF LoadLapse, Begin, Goto, End, Load, Read
<1>6. ASSUME NEW c \in Call, NEW a \in Application, LoadFinish(c, a) PROVE (/\ quantity \in Quantities /\ maxQuantity \in Quantities
          /\ quantity <= maxQuantity)'
  BY <1>6, HiringAssumption DEF LoadFinish, Begin, Goto, End, Load, Read
<1>7. ASSUME NEW c \in Call, NEW a \in Application, LoadStart(c, a) PROVE (/\ quantity \in Quantities /\ maxQuantity \in Quantities
          /\ quantity <= maxQuantity)'
  BY <1>7, HiringAssumption DEF LoadStart, Begin, Goto, End, Load, Read
<1>8. ASSUME NEW c \in Call, NEW S \in SUBSET Application, Unlock(c, S) PROVE (/\ quantity \in Quantities /\ maxQuantity \in Quantities
          /\ quantity <= maxQuantity)'
  BY <1>8, HiringAssumption DEF Unlock, Begin, Goto, End, Load, Read
<1>9. ASSUME NEW c \in Call, NEW s \in ForcedStatuses, LoadAdmin(c, s) PROVE (/\ quantity \in Quantities /\ maxQuantity \in Quantities
          /\ quantity <= maxQuantity)'
  BY <1>9, HiringAssumption DEF LoadAdmin, Begin, Goto, End, Load, Read
<1>10. ASSUME NEW c \in Call, NEW q \in Quantities, LoadEdit(c, q) PROVE (/\ quantity \in Quantities /\ maxQuantity \in Quantities
          /\ quantity <= maxQuantity)'
  BY <1>10, HiringAssumption DEF LoadEdit, Begin, Goto, End, Load, Read
<1>11. ASSUME NEW c \in Call, NEW q \in Quantities, LoadEditByAdmin(c, q) PROVE (/\ quantity \in Quantities /\ maxQuantity \in Quantities
          /\ quantity <= maxQuantity)'
  BY <1>11, HiringAssumption DEF LoadEditByAdmin, Begin, Goto, End, Load, Read
<1>12. ASSUME NEW c \in Call, LoadConfirm(c) PROVE (/\ quantity \in Quantities /\ maxQuantity \in Quantities
          /\ quantity <= maxQuantity)'
  BY <1>12, HiringAssumption DEF LoadConfirm, Begin, Goto, End, Load, Read
<1>13. ASSUME NEW c \in Call, LoadClose(c) PROVE (/\ quantity \in Quantities /\ maxQuantity \in Quantities
          /\ quantity <= maxQuantity)'
  BY <1>13, HiringAssumption DEF LoadClose, Begin, Goto, End, Load, Read
<1>14. ASSUME NEW c \in Call, LoadDelete(c) PROVE (/\ quantity \in Quantities /\ maxQuantity \in Quantities
          /\ quantity <= maxQuantity)'
  BY <1>14, HiringAssumption DEF LoadDelete, Begin, Goto, End, Load, Read
<1>15. ASSUME NEW c \in Call, LoadRepublish(c) PROVE (/\ quantity \in Quantities /\ maxQuantity \in Quantities
          /\ quantity <= maxQuantity)'
  BY <1>15, HiringAssumption DEF LoadRepublish, Begin, Goto, End, Load, Read
<1>16. ASSUME NEW c \in Call, Archive(c) PROVE (/\ quantity \in Quantities /\ maxQuantity \in Quantities
          /\ quantity <= maxQuantity)'
  BY <1>16, HiringAssumption DEF Archive, Begin, Goto, End, Load, Read
<1>17. ASSUME NEW c \in Call, Accept(c) PROVE (/\ quantity \in Quantities /\ maxQuantity \in Quantities
          /\ quantity <= maxQuantity)'
  <2>1. call[c] \in CallState /\ Held(call[c], maxQuantity)
    BY DEF TypeInv, TypeOK, CallsHold
  <2> QED
    BY <1>17, <2>1, HiringAssumption DEF Held, CallState, Accept, Begin, Goto, End, Load, Read, Taken
<1>18. ASSUME NEW c \in Call, Reject(c) PROVE (/\ quantity \in Quantities /\ maxQuantity \in Quantities
          /\ quantity <= maxQuantity)'
  <2>1. call[c] \in CallState /\ Held(call[c], maxQuantity)
    BY DEF TypeInv, TypeOK, CallsHold
  <2> QED
    BY <1>18, <2>1, HiringAssumption DEF Held, CallState, Reject, Begin, Goto, End, Load, Read, RejectAll
<1>19. ASSUME NEW c \in Call, Withdraw(c) PROVE (/\ quantity \in Quantities /\ maxQuantity \in Quantities
          /\ quantity <= maxQuantity)'
  <2>1. call[c] \in CallState /\ Held(call[c], maxQuantity)
    BY DEF TypeInv, TypeOK, CallsHold
  <2> QED
    BY <1>19, <2>1, HiringAssumption DEF Held, CallState, Withdraw, Begin, Goto, End, Load, Read
<1>20. ASSUME NEW c \in Call, LockCancel(c) PROVE (/\ quantity \in Quantities /\ maxQuantity \in Quantities
          /\ quantity <= maxQuantity)'
  BY <1>20, HiringAssumption DEF LockCancel, Begin, Goto, End, Load, Read
<1>21. ASSUME NEW c \in Call, CommitCancel(c) PROVE (/\ quantity \in Quantities /\ maxQuantity \in Quantities
          /\ quantity <= maxQuantity)'
  <2>1. call[c] \in CallState /\ Held(call[c], maxQuantity)
    BY DEF TypeInv, TypeOK, CallsHold
  <2> QED
    BY <1>21, <2>1, HiringAssumption DEF Held, CallState, CommitCancel, CancelHire, Begin, Goto, End, Load, Read, Reopened
<1>22. ASSUME NEW c \in Call, Lapse(c) PROVE (/\ quantity \in Quantities /\ maxQuantity \in Quantities
          /\ quantity <= maxQuantity)'
  <2>1. call[c] \in CallState /\ Held(call[c], maxQuantity)
    BY DEF TypeInv, TypeOK, CallsHold
  <2> QED
    BY <1>22, <2>1, HiringAssumption DEF Held, CallState, Lapse, CancelHire, Begin, Goto, End, Load, Read
<1>23. ASSUME NEW c \in Call, RejectLeftovers(c) PROVE (/\ quantity \in Quantities /\ maxQuantity \in Quantities
          /\ quantity <= maxQuantity)'
  BY <1>23, HiringAssumption DEF RejectLeftovers, Begin, Goto, End, Load, Read, RejectAll
<1>24. ASSUME NEW c \in Call, Confirm(c) PROVE (/\ quantity \in Quantities /\ maxQuantity \in Quantities
          /\ quantity <= maxQuantity)'
  BY <1>24, HiringAssumption DEF Confirm, Begin, Goto, End, Load, Read, CloseRecruitedOffer, Closed, Completed
<1>25. ASSUME NEW c \in Call, Finish(c) PROVE (/\ quantity \in Quantities /\ maxQuantity \in Quantities
          /\ quantity <= maxQuantity)'
  <2>1. call[c] \in CallState /\ Held(call[c], maxQuantity)
    BY DEF TypeInv, TypeOK, CallsHold
  <2> QED
    BY <1>25, <2>1, HiringAssumption DEF Held, CallState, Finish, Begin, Goto, End, Load, Read
<1>26. ASSUME NEW c \in Call, ReadClose(c) PROVE (/\ quantity \in Quantities /\ maxQuantity \in Quantities
          /\ quantity <= maxQuantity)'
  BY <1>26, HiringAssumption DEF ReadClose, Begin, Goto, End, Load, Read
<1>27. ASSUME NEW c \in Call, WriteClose(c) PROVE (/\ quantity \in Quantities /\ maxQuantity \in Quantities
          /\ quantity <= maxQuantity)'
  BY <1>27, HiringAssumption DEF WriteClose, Begin, Goto, End, Load, Read, RejectAll
<1>28. ASSUME NEW c \in Call, ReadDelete(c) PROVE (/\ quantity \in Quantities /\ maxQuantity \in Quantities
          /\ quantity <= maxQuantity)'
  BY <1>28, HiringAssumption DEF ReadDelete, Begin, Goto, End, Load, Read
<1>29. ASSUME NEW c \in Call, WriteDelete(c) PROVE (/\ quantity \in Quantities /\ maxQuantity \in Quantities
          /\ quantity <= maxQuantity)'
  BY <1>29, HiringAssumption DEF WriteDelete, Begin, Goto, End, Load, Read, RejectAll
<1>30. ASSUME NEW c \in Call, WriteAdmin(c) PROVE (/\ quantity \in Quantities /\ maxQuantity \in Quantities
          /\ quantity <= maxQuantity)'
  <2>1. call[c] \in CallState /\ Held(call[c], maxQuantity)
    BY DEF TypeInv, TypeOK, CallsHold
  <2> QED
    BY <1>30, <2>1, HiringAssumption DEF Held, CallState, WriteAdmin, Begin, Goto, End, Load, Read
<1>31. ASSUME NEW c \in Call, FindWaiting(c) PROVE (/\ quantity \in Quantities /\ maxQuantity \in Quantities
          /\ quantity <= maxQuantity)'
  BY <1>31, HiringAssumption DEF FindWaiting, Begin, Goto, End, Load, Read
<1>32. ASSUME NEW c \in Call, RejectWaiting(c) PROVE (/\ quantity \in Quantities /\ maxQuantity \in Quantities
          /\ quantity <= maxQuantity)'
  BY <1>32, HiringAssumption DEF RejectWaiting, Begin, Goto, End, Load, Read, RejectAll
<1>33. ASSUME NEW c \in Call, ReadEdit(c) PROVE (/\ quantity \in Quantities /\ maxQuantity \in Quantities
          /\ quantity <= maxQuantity)'
  BY <1>33, HiringAssumption DEF ReadEdit, Begin, Goto, End, Load, Read
<1>34. ASSUME NEW c \in Call, WriteEdit(c) PROVE (/\ quantity \in Quantities /\ maxQuantity \in Quantities
          /\ quantity <= maxQuantity)'
  <2>1. call[c] \in CallState /\ Held(call[c], maxQuantity)
    BY DEF TypeInv, TypeOK, CallsHold
  <2> QED
    BY <1>34, <2>1, HiringAssumption DEF Held, CallState, WriteEdit, Begin, Goto, End, Load, Read
<1>35. ASSUME NEW c \in Call, Republish(c) PROVE (/\ quantity \in Quantities /\ maxQuantity \in Quantities
          /\ quantity <= maxQuantity)'
  BY <1>35, HiringAssumption DEF Republish, Begin, Goto, End, Load, Read
<1>36. ASSUME NEW c \in Call, Start(c) PROVE (/\ quantity \in Quantities /\ maxQuantity \in Quantities
          /\ quantity <= maxQuantity)'
  <2>1. call[c] \in CallState /\ Held(call[c], maxQuantity)
    BY DEF TypeInv, TypeOK, CallsHold
  <2> QED
    BY <1>36, <2>1, HiringAssumption DEF Held, CallState, Start, Begin, Goto, End, Load, Read
<1>37. ASSUME NEW c \in Call, UndoStart(c) PROVE (/\ quantity \in Quantities /\ maxQuantity \in Quantities
          /\ quantity <= maxQuantity)'
  <2>1. call[c] \in CallState /\ Held(call[c], maxQuantity)
    BY DEF TypeInv, TypeOK, CallsHold
  <2> QED
    BY <1>37, <2>1, HiringAssumption DEF Held, CallState, UndoStart, Begin, Goto, End, Load, Read, Reopened
<1>38. ASSUME NEW c \in Call, Abort(c) PROVE (/\ quantity \in Quantities /\ maxQuantity \in Quantities
          /\ quantity <= maxQuantity)'
  BY <1>38, HiringAssumption DEF Abort, Begin, Goto, End, Load, Read
<1>39. ASSUME ToggleDeleted PROVE (/\ quantity \in Quantities /\ maxQuantity \in Quantities
          /\ quantity <= maxQuantity)'
  BY <1>39, HiringAssumption DEF ToggleDeleted, Begin, Goto, End, Load, Read, ScanEnds
<1>40. ASSUME TimePasses PROVE (/\ quantity \in Quantities /\ maxQuantity \in Quantities
          /\ quantity <= maxQuantity)'
  BY <1>40, HiringAssumption DEF TimePasses, Begin, Goto, End, Load, Read, ScanEnds
<1>41. ASSUME ScanFind PROVE (/\ quantity \in Quantities /\ maxQuantity \in Quantities
          /\ quantity <= maxQuantity)'
  BY <1>41, HiringAssumption DEF ScanFind, Begin, Goto, End, Load, Read, ScanEnds, Find
<1>42. ASSUME ExpireEmpty PROVE (/\ quantity \in Quantities /\ maxQuantity \in Quantities
          /\ quantity <= maxQuantity)'
  BY <1>42, HiringAssumption DEF ExpireEmpty, Begin, Goto, End, Load, Read, ScanEnds
<1>43. ASSUME AutoStart PROVE (/\ quantity \in Quantities /\ maxQuantity \in Quantities
          /\ quantity <= maxQuantity)'
  BY <1>43, HiringAssumption DEF AutoStart, Begin, Goto, End, Load, Read, ScanEnds
<1>44. ASSUME StopRecruiting PROVE (/\ quantity \in Quantities /\ maxQuantity \in Quantities
          /\ quantity <= maxQuantity)'
  BY <1>44, HiringAssumption DEF StopRecruiting, Begin, Goto, End, Load, Read, RejectAll, ScanEnds
<1>45. ASSUME CloseAfterGrace PROVE (/\ quantity \in Quantities /\ maxQuantity \in Quantities
          /\ quantity <= maxQuantity)'
  BY <1>45, HiringAssumption DEF CloseAfterGrace, Begin, Goto, End, Load, Read, CloseRecruitedOffer, Closed, Completed, ScanEnds
<1>46. ASSUME UNCHANGED vars PROVE (/\ quantity \in Quantities /\ maxQuantity \in Quantities
          /\ quantity <= maxQuantity)'
  BY <1>46 DEF vars
<1>47. ASSUME NEW c \in Call, ReadFinish(c) PROVE (/\ quantity \in Quantities /\ maxQuantity \in Quantities
          /\ quantity <= maxQuantity)'
  BY <1>47, HiringAssumption DEF ReadFinish, Begin, Goto, End, Load, Read
<1> QED
  BY <1>1, <1>2, <1>3, <1>4, <1>5, <1>6, <1>7, <1>8, <1>9, <1>10, <1>11,
     <1>12, <1>13, <1>14, <1>15, <1>16, <1>17, <1>18, <1>19, <1>20, <1>21,
     <1>22, <1>23, <1>24, <1>25, <1>26, <1>27, <1>28, <1>29, <1>30, <1>31,
     <1>32, <1>33, <1>34, <1>35, <1>36, <1>37, <1>38, <1>39, <1>40, <1>41,
     <1>42, <1>43, <1>44, <1>45, <1>46, <1>47
     DEF Next, Loads, Writes, ScanWrite

\* Every step keeps the applications' statuses in their type.
LEMMA ApplicationsStep ==
  ASSUME TypeInv, [Next]_vars
  PROVE  (app \in [Application -> ApplicationStatus])'
<1> USE DEF vars, TypeInv, TypeOK, ApplicationStatus, terms, rows, history
<1>1. ASSUME NEW a \in Application, Apply(a) PROVE (app \in [Application -> ApplicationStatus])'
  BY <1>1 DEF Apply, Begin, Goto, End, Load, Read
<1>2. ASSUME NEW c \in Call, NEW a \in Application, LoadAccept(c, a) PROVE (app \in [Application -> ApplicationStatus])'
  BY <1>2 DEF LoadAccept, Begin, Goto, End, Load, Read
<1>3. ASSUME NEW c \in Call, NEW a \in Application, LoadReject(c, a) PROVE (app \in [Application -> ApplicationStatus])'
  BY <1>3 DEF LoadReject, Begin, Goto, End, Load, Read
<1>4. ASSUME NEW c \in Call, NEW a \in Application, LoadCancel(c, a) PROVE (app \in [Application -> ApplicationStatus])'
  BY <1>4 DEF LoadCancel, Begin, Goto, End, Load, Read
<1>5. ASSUME NEW c \in Call, NEW a \in Application, LoadLapse(c, a) PROVE (app \in [Application -> ApplicationStatus])'
  BY <1>5 DEF LoadLapse, Begin, Goto, End, Load, Read
<1>6. ASSUME NEW c \in Call, NEW a \in Application, LoadFinish(c, a) PROVE (app \in [Application -> ApplicationStatus])'
  BY <1>6 DEF LoadFinish, Begin, Goto, End, Load, Read
<1>7. ASSUME NEW c \in Call, NEW a \in Application, LoadStart(c, a) PROVE (app \in [Application -> ApplicationStatus])'
  BY <1>7 DEF LoadStart, Begin, Goto, End, Load, Read
<1>8. ASSUME NEW c \in Call, NEW S \in SUBSET Application, Unlock(c, S) PROVE (app \in [Application -> ApplicationStatus])'
  BY <1>8 DEF Unlock, Begin, Goto, End, Load, Read
<1>9. ASSUME NEW c \in Call, NEW s \in ForcedStatuses, LoadAdmin(c, s) PROVE (app \in [Application -> ApplicationStatus])'
  BY <1>9 DEF LoadAdmin, Begin, Goto, End, Load, Read
<1>10. ASSUME NEW c \in Call, NEW q \in Quantities, LoadEdit(c, q) PROVE (app \in [Application -> ApplicationStatus])'
  BY <1>10 DEF LoadEdit, Begin, Goto, End, Load, Read
<1>11. ASSUME NEW c \in Call, NEW q \in Quantities, LoadEditByAdmin(c, q) PROVE (app \in [Application -> ApplicationStatus])'
  BY <1>11 DEF LoadEditByAdmin, Begin, Goto, End, Load, Read
<1>12. ASSUME NEW c \in Call, LoadConfirm(c) PROVE (app \in [Application -> ApplicationStatus])'
  BY <1>12 DEF LoadConfirm, Begin, Goto, End, Load, Read
<1>13. ASSUME NEW c \in Call, LoadClose(c) PROVE (app \in [Application -> ApplicationStatus])'
  BY <1>13 DEF LoadClose, Begin, Goto, End, Load, Read
<1>14. ASSUME NEW c \in Call, LoadDelete(c) PROVE (app \in [Application -> ApplicationStatus])'
  BY <1>14 DEF LoadDelete, Begin, Goto, End, Load, Read
<1>15. ASSUME NEW c \in Call, LoadRepublish(c) PROVE (app \in [Application -> ApplicationStatus])'
  BY <1>15 DEF LoadRepublish, Begin, Goto, End, Load, Read
<1>16. ASSUME NEW c \in Call, Archive(c) PROVE (app \in [Application -> ApplicationStatus])'
  BY <1>16 DEF Archive, Begin, Goto, End, Load, Read
<1>17. ASSUME NEW c \in Call, Accept(c) PROVE (app \in [Application -> ApplicationStatus])'
  <2>1. call[c] \in CallState /\ Held(call[c], maxQuantity)
    BY DEF TypeInv, TypeOK, CallsHold
  <2> QED
    BY <1>17, <2>1 DEF Held, CallState, Accept, Begin, Goto, End, Load, Read, Taken
<1>18. ASSUME NEW c \in Call, Reject(c) PROVE (app \in [Application -> ApplicationStatus])'
  <2>1. call[c] \in CallState /\ Held(call[c], maxQuantity)
    BY DEF TypeInv, TypeOK, CallsHold
  <2> QED
    BY <1>18, <2>1 DEF Held, CallState, Reject, Begin, Goto, End, Load, Read, RejectAll
<1>19. ASSUME NEW c \in Call, Withdraw(c) PROVE (app \in [Application -> ApplicationStatus])'
  <2>1. call[c] \in CallState /\ Held(call[c], maxQuantity)
    BY DEF TypeInv, TypeOK, CallsHold
  <2> QED
    BY <1>19, <2>1 DEF Held, CallState, Withdraw, Begin, Goto, End, Load, Read
<1>20. ASSUME NEW c \in Call, LockCancel(c) PROVE (app \in [Application -> ApplicationStatus])'
  BY <1>20 DEF LockCancel, Begin, Goto, End, Load, Read
<1>21. ASSUME NEW c \in Call, CommitCancel(c) PROVE (app \in [Application -> ApplicationStatus])'
  <2>1. call[c] \in CallState /\ Held(call[c], maxQuantity)
    BY DEF TypeInv, TypeOK, CallsHold
  <2> QED
    BY <1>21, <2>1 DEF Held, CallState, CommitCancel, CancelHire, Begin, Goto, End, Load, Read, Reopened
<1>22. ASSUME NEW c \in Call, Lapse(c) PROVE (app \in [Application -> ApplicationStatus])'
  <2>1. call[c] \in CallState /\ Held(call[c], maxQuantity)
    BY DEF TypeInv, TypeOK, CallsHold
  <2> QED
    BY <1>22, <2>1 DEF Held, CallState, Lapse, CancelHire, Begin, Goto, End, Load, Read
<1>23. ASSUME NEW c \in Call, RejectLeftovers(c) PROVE (app \in [Application -> ApplicationStatus])'
  BY <1>23 DEF RejectLeftovers, Begin, Goto, End, Load, Read, RejectAll
<1>24. ASSUME NEW c \in Call, Confirm(c) PROVE (app \in [Application -> ApplicationStatus])'
  BY <1>24 DEF Confirm, Begin, Goto, End, Load, Read, CloseRecruitedOffer, Closed, Completed
<1>25. ASSUME NEW c \in Call, Finish(c) PROVE (app \in [Application -> ApplicationStatus])'
  <2>1. call[c] \in CallState /\ Held(call[c], maxQuantity)
    BY DEF TypeInv, TypeOK, CallsHold
  <2> QED
    BY <1>25, <2>1 DEF Held, CallState, Finish, Begin, Goto, End, Load, Read
<1>26. ASSUME NEW c \in Call, ReadClose(c) PROVE (app \in [Application -> ApplicationStatus])'
  BY <1>26 DEF ReadClose, Begin, Goto, End, Load, Read
<1>27. ASSUME NEW c \in Call, WriteClose(c) PROVE (app \in [Application -> ApplicationStatus])'
  BY <1>27 DEF WriteClose, Begin, Goto, End, Load, Read, RejectAll
<1>28. ASSUME NEW c \in Call, ReadDelete(c) PROVE (app \in [Application -> ApplicationStatus])'
  BY <1>28 DEF ReadDelete, Begin, Goto, End, Load, Read
<1>29. ASSUME NEW c \in Call, WriteDelete(c) PROVE (app \in [Application -> ApplicationStatus])'
  BY <1>29 DEF WriteDelete, Begin, Goto, End, Load, Read, RejectAll
<1>30. ASSUME NEW c \in Call, WriteAdmin(c) PROVE (app \in [Application -> ApplicationStatus])'
  <2>1. call[c] \in CallState /\ Held(call[c], maxQuantity)
    BY DEF TypeInv, TypeOK, CallsHold
  <2> QED
    BY <1>30, <2>1 DEF Held, CallState, WriteAdmin, Begin, Goto, End, Load, Read
<1>31. ASSUME NEW c \in Call, FindWaiting(c) PROVE (app \in [Application -> ApplicationStatus])'
  BY <1>31 DEF FindWaiting, Begin, Goto, End, Load, Read
<1>32. ASSUME NEW c \in Call, RejectWaiting(c) PROVE (app \in [Application -> ApplicationStatus])'
  BY <1>32 DEF RejectWaiting, Begin, Goto, End, Load, Read, RejectAll
<1>33. ASSUME NEW c \in Call, ReadEdit(c) PROVE (app \in [Application -> ApplicationStatus])'
  BY <1>33 DEF ReadEdit, Begin, Goto, End, Load, Read
<1>34. ASSUME NEW c \in Call, WriteEdit(c) PROVE (app \in [Application -> ApplicationStatus])'
  <2>1. call[c] \in CallState /\ Held(call[c], maxQuantity)
    BY DEF TypeInv, TypeOK, CallsHold
  <2> QED
    BY <1>34, <2>1 DEF Held, CallState, WriteEdit, Begin, Goto, End, Load, Read
<1>35. ASSUME NEW c \in Call, Republish(c) PROVE (app \in [Application -> ApplicationStatus])'
  BY <1>35 DEF Republish, Begin, Goto, End, Load, Read
<1>36. ASSUME NEW c \in Call, Start(c) PROVE (app \in [Application -> ApplicationStatus])'
  <2>1. call[c] \in CallState /\ Held(call[c], maxQuantity)
    BY DEF TypeInv, TypeOK, CallsHold
  <2> QED
    BY <1>36, <2>1 DEF Held, CallState, Start, Begin, Goto, End, Load, Read
<1>37. ASSUME NEW c \in Call, UndoStart(c) PROVE (app \in [Application -> ApplicationStatus])'
  <2>1. call[c] \in CallState /\ Held(call[c], maxQuantity)
    BY DEF TypeInv, TypeOK, CallsHold
  <2> QED
    BY <1>37, <2>1 DEF Held, CallState, UndoStart, Begin, Goto, End, Load, Read, Reopened
<1>38. ASSUME NEW c \in Call, Abort(c) PROVE (app \in [Application -> ApplicationStatus])'
  BY <1>38 DEF Abort, Begin, Goto, End, Load, Read
<1>39. ASSUME ToggleDeleted PROVE (app \in [Application -> ApplicationStatus])'
  BY <1>39 DEF ToggleDeleted, Begin, Goto, End, Load, Read, ScanEnds
<1>40. ASSUME TimePasses PROVE (app \in [Application -> ApplicationStatus])'
  BY <1>40 DEF TimePasses, Begin, Goto, End, Load, Read, ScanEnds
<1>41. ASSUME ScanFind PROVE (app \in [Application -> ApplicationStatus])'
  BY <1>41 DEF ScanFind, Begin, Goto, End, Load, Read, ScanEnds, Find
<1>42. ASSUME ExpireEmpty PROVE (app \in [Application -> ApplicationStatus])'
  BY <1>42 DEF ExpireEmpty, Begin, Goto, End, Load, Read, ScanEnds
<1>43. ASSUME AutoStart PROVE (app \in [Application -> ApplicationStatus])'
  BY <1>43 DEF AutoStart, Begin, Goto, End, Load, Read, ScanEnds
<1>44. ASSUME StopRecruiting PROVE (app \in [Application -> ApplicationStatus])'
  BY <1>44 DEF StopRecruiting, Begin, Goto, End, Load, Read, RejectAll, ScanEnds
<1>45. ASSUME CloseAfterGrace PROVE (app \in [Application -> ApplicationStatus])'
  BY <1>45 DEF CloseAfterGrace, Begin, Goto, End, Load, Read, CloseRecruitedOffer, Closed, Completed, ScanEnds
<1>46. ASSUME UNCHANGED vars PROVE (app \in [Application -> ApplicationStatus])'
  BY <1>46 DEF vars
<1>47. ASSUME NEW c \in Call, ReadFinish(c) PROVE (app \in [Application -> ApplicationStatus])'
  BY <1>47 DEF ReadFinish, Begin, Goto, End, Load, Read
<1> QED
  BY <1>1, <1>2, <1>3, <1>4, <1>5, <1>6, <1>7, <1>8, <1>9, <1>10, <1>11,
     <1>12, <1>13, <1>14, <1>15, <1>16, <1>17, <1>18, <1>19, <1>20, <1>21,
     <1>22, <1>23, <1>24, <1>25, <1>26, <1>27, <1>28, <1>29, <1>30, <1>31,
     <1>32, <1>33, <1>34, <1>35, <1>36, <1>37, <1>38, <1>39, <1>40, <1>41,
     <1>42, <1>43, <1>44, <1>45, <1>46, <1>47
     DEF Next, Loads, Writes, ScanWrite

\* Every step keeps the assignments' statuses in their type.
LEMMA AssignmentsStep ==
  ASSUME TypeInv, [Next]_vars
  PROVE  (assigned \in [Application -> {"NONE", "CONFIRMED", "COMPLETED", "CANCELLED"}])'
<1> USE DEF vars, TypeInv, TypeOK, terms, rows, history
<1>1. ASSUME NEW a \in Application, Apply(a) PROVE (assigned \in [Application -> {"NONE", "CONFIRMED", "COMPLETED", "CANCELLED"}])'
  BY <1>1 DEF Apply, Begin, Goto, End, Load, Read
<1>2. ASSUME NEW c \in Call, NEW a \in Application, LoadAccept(c, a) PROVE (assigned \in [Application -> {"NONE", "CONFIRMED", "COMPLETED", "CANCELLED"}])'
  BY <1>2 DEF LoadAccept, Begin, Goto, End, Load, Read
<1>3. ASSUME NEW c \in Call, NEW a \in Application, LoadReject(c, a) PROVE (assigned \in [Application -> {"NONE", "CONFIRMED", "COMPLETED", "CANCELLED"}])'
  BY <1>3 DEF LoadReject, Begin, Goto, End, Load, Read
<1>4. ASSUME NEW c \in Call, NEW a \in Application, LoadCancel(c, a) PROVE (assigned \in [Application -> {"NONE", "CONFIRMED", "COMPLETED", "CANCELLED"}])'
  BY <1>4 DEF LoadCancel, Begin, Goto, End, Load, Read
<1>5. ASSUME NEW c \in Call, NEW a \in Application, LoadLapse(c, a) PROVE (assigned \in [Application -> {"NONE", "CONFIRMED", "COMPLETED", "CANCELLED"}])'
  BY <1>5 DEF LoadLapse, Begin, Goto, End, Load, Read
<1>6. ASSUME NEW c \in Call, NEW a \in Application, LoadFinish(c, a) PROVE (assigned \in [Application -> {"NONE", "CONFIRMED", "COMPLETED", "CANCELLED"}])'
  BY <1>6 DEF LoadFinish, Begin, Goto, End, Load, Read
<1>7. ASSUME NEW c \in Call, NEW a \in Application, LoadStart(c, a) PROVE (assigned \in [Application -> {"NONE", "CONFIRMED", "COMPLETED", "CANCELLED"}])'
  BY <1>7 DEF LoadStart, Begin, Goto, End, Load, Read
<1>8. ASSUME NEW c \in Call, NEW S \in SUBSET Application, Unlock(c, S) PROVE (assigned \in [Application -> {"NONE", "CONFIRMED", "COMPLETED", "CANCELLED"}])'
  BY <1>8 DEF Unlock, Begin, Goto, End, Load, Read
<1>9. ASSUME NEW c \in Call, NEW s \in ForcedStatuses, LoadAdmin(c, s) PROVE (assigned \in [Application -> {"NONE", "CONFIRMED", "COMPLETED", "CANCELLED"}])'
  BY <1>9 DEF LoadAdmin, Begin, Goto, End, Load, Read
<1>10. ASSUME NEW c \in Call, NEW q \in Quantities, LoadEdit(c, q) PROVE (assigned \in [Application -> {"NONE", "CONFIRMED", "COMPLETED", "CANCELLED"}])'
  BY <1>10 DEF LoadEdit, Begin, Goto, End, Load, Read
<1>11. ASSUME NEW c \in Call, NEW q \in Quantities, LoadEditByAdmin(c, q) PROVE (assigned \in [Application -> {"NONE", "CONFIRMED", "COMPLETED", "CANCELLED"}])'
  BY <1>11 DEF LoadEditByAdmin, Begin, Goto, End, Load, Read
<1>12. ASSUME NEW c \in Call, LoadConfirm(c) PROVE (assigned \in [Application -> {"NONE", "CONFIRMED", "COMPLETED", "CANCELLED"}])'
  BY <1>12 DEF LoadConfirm, Begin, Goto, End, Load, Read
<1>13. ASSUME NEW c \in Call, LoadClose(c) PROVE (assigned \in [Application -> {"NONE", "CONFIRMED", "COMPLETED", "CANCELLED"}])'
  BY <1>13 DEF LoadClose, Begin, Goto, End, Load, Read
<1>14. ASSUME NEW c \in Call, LoadDelete(c) PROVE (assigned \in [Application -> {"NONE", "CONFIRMED", "COMPLETED", "CANCELLED"}])'
  BY <1>14 DEF LoadDelete, Begin, Goto, End, Load, Read
<1>15. ASSUME NEW c \in Call, LoadRepublish(c) PROVE (assigned \in [Application -> {"NONE", "CONFIRMED", "COMPLETED", "CANCELLED"}])'
  BY <1>15 DEF LoadRepublish, Begin, Goto, End, Load, Read
<1>16. ASSUME NEW c \in Call, Archive(c) PROVE (assigned \in [Application -> {"NONE", "CONFIRMED", "COMPLETED", "CANCELLED"}])'
  BY <1>16 DEF Archive, Begin, Goto, End, Load, Read
<1>17. ASSUME NEW c \in Call, Accept(c) PROVE (assigned \in [Application -> {"NONE", "CONFIRMED", "COMPLETED", "CANCELLED"}])'
  <2>1. call[c] \in CallState /\ Held(call[c], maxQuantity)
    BY DEF TypeInv, TypeOK, CallsHold
  <2> QED
    BY <1>17, <2>1 DEF Held, CallState, Accept, Begin, Goto, End, Load, Read, Taken
<1>18. ASSUME NEW c \in Call, Reject(c) PROVE (assigned \in [Application -> {"NONE", "CONFIRMED", "COMPLETED", "CANCELLED"}])'
  <2>1. call[c] \in CallState /\ Held(call[c], maxQuantity)
    BY DEF TypeInv, TypeOK, CallsHold
  <2> QED
    BY <1>18, <2>1 DEF Held, CallState, Reject, Begin, Goto, End, Load, Read, RejectAll
<1>19. ASSUME NEW c \in Call, Withdraw(c) PROVE (assigned \in [Application -> {"NONE", "CONFIRMED", "COMPLETED", "CANCELLED"}])'
  <2>1. call[c] \in CallState /\ Held(call[c], maxQuantity)
    BY DEF TypeInv, TypeOK, CallsHold
  <2> QED
    BY <1>19, <2>1 DEF Held, CallState, Withdraw, Begin, Goto, End, Load, Read
<1>20. ASSUME NEW c \in Call, LockCancel(c) PROVE (assigned \in [Application -> {"NONE", "CONFIRMED", "COMPLETED", "CANCELLED"}])'
  BY <1>20 DEF LockCancel, Begin, Goto, End, Load, Read
<1>21. ASSUME NEW c \in Call, CommitCancel(c) PROVE (assigned \in [Application -> {"NONE", "CONFIRMED", "COMPLETED", "CANCELLED"}])'
  <2>1. call[c] \in CallState /\ Held(call[c], maxQuantity)
    BY DEF TypeInv, TypeOK, CallsHold
  <2> QED
    BY <1>21, <2>1 DEF Held, CallState, CommitCancel, CancelHire, Begin, Goto, End, Load, Read, Reopened
<1>22. ASSUME NEW c \in Call, Lapse(c) PROVE (assigned \in [Application -> {"NONE", "CONFIRMED", "COMPLETED", "CANCELLED"}])'
  <2>1. call[c] \in CallState /\ Held(call[c], maxQuantity)
    BY DEF TypeInv, TypeOK, CallsHold
  <2> QED
    BY <1>22, <2>1 DEF Held, CallState, Lapse, CancelHire, Begin, Goto, End, Load, Read
<1>23. ASSUME NEW c \in Call, RejectLeftovers(c) PROVE (assigned \in [Application -> {"NONE", "CONFIRMED", "COMPLETED", "CANCELLED"}])'
  BY <1>23 DEF RejectLeftovers, Begin, Goto, End, Load, Read, RejectAll
<1>24. ASSUME NEW c \in Call, Confirm(c) PROVE (assigned \in [Application -> {"NONE", "CONFIRMED", "COMPLETED", "CANCELLED"}])'
  BY <1>24 DEF Confirm, Begin, Goto, End, Load, Read, CloseRecruitedOffer, Closed, Completed
<1>25. ASSUME NEW c \in Call, Finish(c) PROVE (assigned \in [Application -> {"NONE", "CONFIRMED", "COMPLETED", "CANCELLED"}])'
  <2>1. call[c] \in CallState /\ Held(call[c], maxQuantity)
    BY DEF TypeInv, TypeOK, CallsHold
  <2> QED
    BY <1>25, <2>1 DEF Held, CallState, Finish, Begin, Goto, End, Load, Read
<1>26. ASSUME NEW c \in Call, ReadClose(c) PROVE (assigned \in [Application -> {"NONE", "CONFIRMED", "COMPLETED", "CANCELLED"}])'
  BY <1>26 DEF ReadClose, Begin, Goto, End, Load, Read
<1>27. ASSUME NEW c \in Call, WriteClose(c) PROVE (assigned \in [Application -> {"NONE", "CONFIRMED", "COMPLETED", "CANCELLED"}])'
  BY <1>27 DEF WriteClose, Begin, Goto, End, Load, Read, RejectAll
<1>28. ASSUME NEW c \in Call, ReadDelete(c) PROVE (assigned \in [Application -> {"NONE", "CONFIRMED", "COMPLETED", "CANCELLED"}])'
  BY <1>28 DEF ReadDelete, Begin, Goto, End, Load, Read
<1>29. ASSUME NEW c \in Call, WriteDelete(c) PROVE (assigned \in [Application -> {"NONE", "CONFIRMED", "COMPLETED", "CANCELLED"}])'
  BY <1>29 DEF WriteDelete, Begin, Goto, End, Load, Read, RejectAll
<1>30. ASSUME NEW c \in Call, WriteAdmin(c) PROVE (assigned \in [Application -> {"NONE", "CONFIRMED", "COMPLETED", "CANCELLED"}])'
  <2>1. call[c] \in CallState /\ Held(call[c], maxQuantity)
    BY DEF TypeInv, TypeOK, CallsHold
  <2> QED
    BY <1>30, <2>1 DEF Held, CallState, WriteAdmin, Begin, Goto, End, Load, Read
<1>31. ASSUME NEW c \in Call, FindWaiting(c) PROVE (assigned \in [Application -> {"NONE", "CONFIRMED", "COMPLETED", "CANCELLED"}])'
  BY <1>31 DEF FindWaiting, Begin, Goto, End, Load, Read
<1>32. ASSUME NEW c \in Call, RejectWaiting(c) PROVE (assigned \in [Application -> {"NONE", "CONFIRMED", "COMPLETED", "CANCELLED"}])'
  BY <1>32 DEF RejectWaiting, Begin, Goto, End, Load, Read, RejectAll
<1>33. ASSUME NEW c \in Call, ReadEdit(c) PROVE (assigned \in [Application -> {"NONE", "CONFIRMED", "COMPLETED", "CANCELLED"}])'
  BY <1>33 DEF ReadEdit, Begin, Goto, End, Load, Read
<1>34. ASSUME NEW c \in Call, WriteEdit(c) PROVE (assigned \in [Application -> {"NONE", "CONFIRMED", "COMPLETED", "CANCELLED"}])'
  <2>1. call[c] \in CallState /\ Held(call[c], maxQuantity)
    BY DEF TypeInv, TypeOK, CallsHold
  <2> QED
    BY <1>34, <2>1 DEF Held, CallState, WriteEdit, Begin, Goto, End, Load, Read
<1>35. ASSUME NEW c \in Call, Republish(c) PROVE (assigned \in [Application -> {"NONE", "CONFIRMED", "COMPLETED", "CANCELLED"}])'
  BY <1>35 DEF Republish, Begin, Goto, End, Load, Read
<1>36. ASSUME NEW c \in Call, Start(c) PROVE (assigned \in [Application -> {"NONE", "CONFIRMED", "COMPLETED", "CANCELLED"}])'
  <2>1. call[c] \in CallState /\ Held(call[c], maxQuantity)
    BY DEF TypeInv, TypeOK, CallsHold
  <2> QED
    BY <1>36, <2>1 DEF Held, CallState, Start, Begin, Goto, End, Load, Read
<1>37. ASSUME NEW c \in Call, UndoStart(c) PROVE (assigned \in [Application -> {"NONE", "CONFIRMED", "COMPLETED", "CANCELLED"}])'
  <2>1. call[c] \in CallState /\ Held(call[c], maxQuantity)
    BY DEF TypeInv, TypeOK, CallsHold
  <2> QED
    BY <1>37, <2>1 DEF Held, CallState, UndoStart, Begin, Goto, End, Load, Read, Reopened
<1>38. ASSUME NEW c \in Call, Abort(c) PROVE (assigned \in [Application -> {"NONE", "CONFIRMED", "COMPLETED", "CANCELLED"}])'
  BY <1>38 DEF Abort, Begin, Goto, End, Load, Read
<1>39. ASSUME ToggleDeleted PROVE (assigned \in [Application -> {"NONE", "CONFIRMED", "COMPLETED", "CANCELLED"}])'
  BY <1>39 DEF ToggleDeleted, Begin, Goto, End, Load, Read, ScanEnds
<1>40. ASSUME TimePasses PROVE (assigned \in [Application -> {"NONE", "CONFIRMED", "COMPLETED", "CANCELLED"}])'
  BY <1>40 DEF TimePasses, Begin, Goto, End, Load, Read, ScanEnds
<1>41. ASSUME ScanFind PROVE (assigned \in [Application -> {"NONE", "CONFIRMED", "COMPLETED", "CANCELLED"}])'
  BY <1>41 DEF ScanFind, Begin, Goto, End, Load, Read, ScanEnds, Find
<1>42. ASSUME ExpireEmpty PROVE (assigned \in [Application -> {"NONE", "CONFIRMED", "COMPLETED", "CANCELLED"}])'
  BY <1>42 DEF ExpireEmpty, Begin, Goto, End, Load, Read, ScanEnds
<1>43. ASSUME AutoStart PROVE (assigned \in [Application -> {"NONE", "CONFIRMED", "COMPLETED", "CANCELLED"}])'
  BY <1>43 DEF AutoStart, Begin, Goto, End, Load, Read, ScanEnds
<1>44. ASSUME StopRecruiting PROVE (assigned \in [Application -> {"NONE", "CONFIRMED", "COMPLETED", "CANCELLED"}])'
  BY <1>44 DEF StopRecruiting, Begin, Goto, End, Load, Read, RejectAll, ScanEnds
<1>45. ASSUME CloseAfterGrace PROVE (assigned \in [Application -> {"NONE", "CONFIRMED", "COMPLETED", "CANCELLED"}])'
  BY <1>45 DEF CloseAfterGrace, Begin, Goto, End, Load, Read, CloseRecruitedOffer, Closed, Completed, ScanEnds
<1>46. ASSUME UNCHANGED vars PROVE (assigned \in [Application -> {"NONE", "CONFIRMED", "COMPLETED", "CANCELLED"}])'
  BY <1>46 DEF vars
<1>47. ASSUME NEW c \in Call, ReadFinish(c) PROVE (assigned \in [Application -> {"NONE", "CONFIRMED", "COMPLETED", "CANCELLED"}])'
  BY <1>47 DEF ReadFinish, Begin, Goto, End, Load, Read
<1> QED
  BY <1>1, <1>2, <1>3, <1>4, <1>5, <1>6, <1>7, <1>8, <1>9, <1>10, <1>11,
     <1>12, <1>13, <1>14, <1>15, <1>16, <1>17, <1>18, <1>19, <1>20, <1>21,
     <1>22, <1>23, <1>24, <1>25, <1>26, <1>27, <1>28, <1>29, <1>30, <1>31,
     <1>32, <1>33, <1>34, <1>35, <1>36, <1>37, <1>38, <1>39, <1>40, <1>41,
     <1>42, <1>43, <1>44, <1>45, <1>46, <1>47
     DEF Next, Loads, Writes, ScanWrite

\* Every step keeps the scan and the history in their types.
LEMMA HistoryStep ==
  ASSUME TypeInv, [Next]_vars
  PROVE  (/\ scan \in {"idle", "expire", "start", "stop", "close"}
          /\ rolledBack \in SUBSET Application /\ forced \in SUBSET ForcedStatuses /\ crossed \in BOOLEAN
          /\ annulled \in SUBSET Application
          /\ overlaps \in 0 .. MaxOverlaps)'
<1> USE DEF vars, TypeInv, TypeOK, terms, rows, history
<1>1. ASSUME NEW a \in Application, Apply(a) PROVE (/\ scan \in {"idle", "expire", "start", "stop", "close"}
          /\ rolledBack \in SUBSET Application /\ forced \in SUBSET ForcedStatuses /\ crossed \in BOOLEAN
          /\ annulled \in SUBSET Application
          /\ overlaps \in 0 .. MaxOverlaps)'
  BY <1>1, HiringAssumption DEF Apply, Begin, Goto, End, Load, Read
<1>2. ASSUME NEW c \in Call, NEW a \in Application, LoadAccept(c, a) PROVE (/\ scan \in {"idle", "expire", "start", "stop", "close"}
          /\ rolledBack \in SUBSET Application /\ forced \in SUBSET ForcedStatuses /\ crossed \in BOOLEAN
          /\ annulled \in SUBSET Application
          /\ overlaps \in 0 .. MaxOverlaps)'
  BY <1>2, HiringAssumption DEF LoadAccept, Begin, Goto, End, Load, Read
<1>3. ASSUME NEW c \in Call, NEW a \in Application, LoadReject(c, a) PROVE (/\ scan \in {"idle", "expire", "start", "stop", "close"}
          /\ rolledBack \in SUBSET Application /\ forced \in SUBSET ForcedStatuses /\ crossed \in BOOLEAN
          /\ annulled \in SUBSET Application
          /\ overlaps \in 0 .. MaxOverlaps)'
  BY <1>3, HiringAssumption DEF LoadReject, Begin, Goto, End, Load, Read
<1>4. ASSUME NEW c \in Call, NEW a \in Application, LoadCancel(c, a) PROVE (/\ scan \in {"idle", "expire", "start", "stop", "close"}
          /\ rolledBack \in SUBSET Application /\ forced \in SUBSET ForcedStatuses /\ crossed \in BOOLEAN
          /\ annulled \in SUBSET Application
          /\ overlaps \in 0 .. MaxOverlaps)'
  BY <1>4, HiringAssumption DEF LoadCancel, Begin, Goto, End, Load, Read
<1>5. ASSUME NEW c \in Call, NEW a \in Application, LoadLapse(c, a) PROVE (/\ scan \in {"idle", "expire", "start", "stop", "close"}
          /\ rolledBack \in SUBSET Application /\ forced \in SUBSET ForcedStatuses /\ crossed \in BOOLEAN
          /\ annulled \in SUBSET Application
          /\ overlaps \in 0 .. MaxOverlaps)'
  BY <1>5, HiringAssumption DEF LoadLapse, Begin, Goto, End, Load, Read
<1>6. ASSUME NEW c \in Call, NEW a \in Application, LoadFinish(c, a) PROVE (/\ scan \in {"idle", "expire", "start", "stop", "close"}
          /\ rolledBack \in SUBSET Application /\ forced \in SUBSET ForcedStatuses /\ crossed \in BOOLEAN
          /\ annulled \in SUBSET Application
          /\ overlaps \in 0 .. MaxOverlaps)'
  BY <1>6, HiringAssumption DEF LoadFinish, Begin, Goto, End, Load, Read
<1>7. ASSUME NEW c \in Call, NEW a \in Application, LoadStart(c, a) PROVE (/\ scan \in {"idle", "expire", "start", "stop", "close"}
          /\ rolledBack \in SUBSET Application /\ forced \in SUBSET ForcedStatuses /\ crossed \in BOOLEAN
          /\ annulled \in SUBSET Application
          /\ overlaps \in 0 .. MaxOverlaps)'
  BY <1>7, HiringAssumption DEF LoadStart, Begin, Goto, End, Load, Read
<1>8. ASSUME NEW c \in Call, NEW S \in SUBSET Application, Unlock(c, S) PROVE (/\ scan \in {"idle", "expire", "start", "stop", "close"}
          /\ rolledBack \in SUBSET Application /\ forced \in SUBSET ForcedStatuses /\ crossed \in BOOLEAN
          /\ annulled \in SUBSET Application
          /\ overlaps \in 0 .. MaxOverlaps)'
  BY <1>8, HiringAssumption DEF Unlock, Begin, Goto, End, Load, Read
<1>9. ASSUME NEW c \in Call, NEW s \in ForcedStatuses, LoadAdmin(c, s) PROVE (/\ scan \in {"idle", "expire", "start", "stop", "close"}
          /\ rolledBack \in SUBSET Application /\ forced \in SUBSET ForcedStatuses /\ crossed \in BOOLEAN
          /\ annulled \in SUBSET Application
          /\ overlaps \in 0 .. MaxOverlaps)'
  BY <1>9, HiringAssumption DEF LoadAdmin, Begin, Goto, End, Load, Read
<1>10. ASSUME NEW c \in Call, NEW q \in Quantities, LoadEdit(c, q) PROVE (/\ scan \in {"idle", "expire", "start", "stop", "close"}
          /\ rolledBack \in SUBSET Application /\ forced \in SUBSET ForcedStatuses /\ crossed \in BOOLEAN
          /\ annulled \in SUBSET Application
          /\ overlaps \in 0 .. MaxOverlaps)'
  BY <1>10, HiringAssumption DEF LoadEdit, Begin, Goto, End, Load, Read
<1>11. ASSUME NEW c \in Call, NEW q \in Quantities, LoadEditByAdmin(c, q) PROVE (/\ scan \in {"idle", "expire", "start", "stop", "close"}
          /\ rolledBack \in SUBSET Application /\ forced \in SUBSET ForcedStatuses /\ crossed \in BOOLEAN
          /\ annulled \in SUBSET Application
          /\ overlaps \in 0 .. MaxOverlaps)'
  BY <1>11, HiringAssumption DEF LoadEditByAdmin, Begin, Goto, End, Load, Read
<1>12. ASSUME NEW c \in Call, LoadConfirm(c) PROVE (/\ scan \in {"idle", "expire", "start", "stop", "close"}
          /\ rolledBack \in SUBSET Application /\ forced \in SUBSET ForcedStatuses /\ crossed \in BOOLEAN
          /\ annulled \in SUBSET Application
          /\ overlaps \in 0 .. MaxOverlaps)'
  BY <1>12, HiringAssumption DEF LoadConfirm, Begin, Goto, End, Load, Read
<1>13. ASSUME NEW c \in Call, LoadClose(c) PROVE (/\ scan \in {"idle", "expire", "start", "stop", "close"}
          /\ rolledBack \in SUBSET Application /\ forced \in SUBSET ForcedStatuses /\ crossed \in BOOLEAN
          /\ annulled \in SUBSET Application
          /\ overlaps \in 0 .. MaxOverlaps)'
  BY <1>13, HiringAssumption DEF LoadClose, Begin, Goto, End, Load, Read
<1>14. ASSUME NEW c \in Call, LoadDelete(c) PROVE (/\ scan \in {"idle", "expire", "start", "stop", "close"}
          /\ rolledBack \in SUBSET Application /\ forced \in SUBSET ForcedStatuses /\ crossed \in BOOLEAN
          /\ annulled \in SUBSET Application
          /\ overlaps \in 0 .. MaxOverlaps)'
  BY <1>14, HiringAssumption DEF LoadDelete, Begin, Goto, End, Load, Read
<1>15. ASSUME NEW c \in Call, LoadRepublish(c) PROVE (/\ scan \in {"idle", "expire", "start", "stop", "close"}
          /\ rolledBack \in SUBSET Application /\ forced \in SUBSET ForcedStatuses /\ crossed \in BOOLEAN
          /\ annulled \in SUBSET Application
          /\ overlaps \in 0 .. MaxOverlaps)'
  BY <1>15, HiringAssumption DEF LoadRepublish, Begin, Goto, End, Load, Read
<1>16. ASSUME NEW c \in Call, Archive(c) PROVE (/\ scan \in {"idle", "expire", "start", "stop", "close"}
          /\ rolledBack \in SUBSET Application /\ forced \in SUBSET ForcedStatuses /\ crossed \in BOOLEAN
          /\ annulled \in SUBSET Application
          /\ overlaps \in 0 .. MaxOverlaps)'
  BY <1>16, HiringAssumption DEF Archive, Begin, Goto, End, Load, Read
<1>17. ASSUME NEW c \in Call, Accept(c) PROVE (/\ scan \in {"idle", "expire", "start", "stop", "close"}
          /\ rolledBack \in SUBSET Application /\ forced \in SUBSET ForcedStatuses /\ crossed \in BOOLEAN
          /\ annulled \in SUBSET Application
          /\ overlaps \in 0 .. MaxOverlaps)'
  <2>1. call[c] \in CallState /\ Held(call[c], maxQuantity)
    BY DEF TypeInv, TypeOK, CallsHold
  <2> QED
    BY <1>17, <2>1, HiringAssumption DEF Held, CallState, Accept, Begin, Goto, End, Load, Read, Taken
<1>18. ASSUME NEW c \in Call, Reject(c) PROVE (/\ scan \in {"idle", "expire", "start", "stop", "close"}
          /\ rolledBack \in SUBSET Application /\ forced \in SUBSET ForcedStatuses /\ crossed \in BOOLEAN
          /\ annulled \in SUBSET Application
          /\ overlaps \in 0 .. MaxOverlaps)'
  <2>1. call[c] \in CallState /\ Held(call[c], maxQuantity)
    BY DEF TypeInv, TypeOK, CallsHold
  <2> QED
    BY <1>18, <2>1, HiringAssumption DEF Held, CallState, Reject, Begin, Goto, End, Load, Read, RejectAll
<1>19. ASSUME NEW c \in Call, Withdraw(c) PROVE (/\ scan \in {"idle", "expire", "start", "stop", "close"}
          /\ rolledBack \in SUBSET Application /\ forced \in SUBSET ForcedStatuses /\ crossed \in BOOLEAN
          /\ annulled \in SUBSET Application
          /\ overlaps \in 0 .. MaxOverlaps)'
  <2>1. call[c] \in CallState /\ Held(call[c], maxQuantity)
    BY DEF TypeInv, TypeOK, CallsHold
  <2> QED
    BY <1>19, <2>1, HiringAssumption DEF Held, CallState, Withdraw, Begin, Goto, End, Load, Read
<1>20. ASSUME NEW c \in Call, LockCancel(c) PROVE (/\ scan \in {"idle", "expire", "start", "stop", "close"}
          /\ rolledBack \in SUBSET Application /\ forced \in SUBSET ForcedStatuses /\ crossed \in BOOLEAN
          /\ annulled \in SUBSET Application
          /\ overlaps \in 0 .. MaxOverlaps)'
  BY <1>20, HiringAssumption DEF LockCancel, Begin, Goto, End, Load, Read
<1>21. ASSUME NEW c \in Call, CommitCancel(c) PROVE (/\ scan \in {"idle", "expire", "start", "stop", "close"}
          /\ rolledBack \in SUBSET Application /\ forced \in SUBSET ForcedStatuses /\ crossed \in BOOLEAN
          /\ annulled \in SUBSET Application
          /\ overlaps \in 0 .. MaxOverlaps)'
  <2>1. call[c] \in CallState /\ Held(call[c], maxQuantity)
    BY DEF TypeInv, TypeOK, CallsHold
  <2> QED
    BY <1>21, <2>1, HiringAssumption DEF Held, CallState, CommitCancel, CancelHire, Begin, Goto, End, Load, Read, Reopened
<1>22. ASSUME NEW c \in Call, Lapse(c) PROVE (/\ scan \in {"idle", "expire", "start", "stop", "close"}
          /\ rolledBack \in SUBSET Application /\ forced \in SUBSET ForcedStatuses /\ crossed \in BOOLEAN
          /\ annulled \in SUBSET Application
          /\ overlaps \in 0 .. MaxOverlaps)'
  <2>1. call[c] \in CallState /\ Held(call[c], maxQuantity)
    BY DEF TypeInv, TypeOK, CallsHold
  <2> QED
    BY <1>22, <2>1, HiringAssumption DEF Held, CallState, Lapse, CancelHire, Begin, Goto, End, Load, Read
<1>23. ASSUME NEW c \in Call, RejectLeftovers(c) PROVE (/\ scan \in {"idle", "expire", "start", "stop", "close"}
          /\ rolledBack \in SUBSET Application /\ forced \in SUBSET ForcedStatuses /\ crossed \in BOOLEAN
          /\ annulled \in SUBSET Application
          /\ overlaps \in 0 .. MaxOverlaps)'
  BY <1>23, HiringAssumption DEF RejectLeftovers, Begin, Goto, End, Load, Read, RejectAll
<1>24. ASSUME NEW c \in Call, Confirm(c) PROVE (/\ scan \in {"idle", "expire", "start", "stop", "close"}
          /\ rolledBack \in SUBSET Application /\ forced \in SUBSET ForcedStatuses /\ crossed \in BOOLEAN
          /\ annulled \in SUBSET Application
          /\ overlaps \in 0 .. MaxOverlaps)'
  BY <1>24, HiringAssumption DEF Confirm, Begin, Goto, End, Load, Read, CloseRecruitedOffer, Closed, Completed
<1>25. ASSUME NEW c \in Call, Finish(c) PROVE (/\ scan \in {"idle", "expire", "start", "stop", "close"}
          /\ rolledBack \in SUBSET Application /\ forced \in SUBSET ForcedStatuses /\ crossed \in BOOLEAN
          /\ annulled \in SUBSET Application
          /\ overlaps \in 0 .. MaxOverlaps)'
  <2>1. call[c] \in CallState /\ Held(call[c], maxQuantity)
    BY DEF TypeInv, TypeOK, CallsHold
  <2> QED
    BY <1>25, <2>1, HiringAssumption DEF Held, CallState, Finish, Begin, Goto, End, Load, Read
<1>26. ASSUME NEW c \in Call, ReadClose(c) PROVE (/\ scan \in {"idle", "expire", "start", "stop", "close"}
          /\ rolledBack \in SUBSET Application /\ forced \in SUBSET ForcedStatuses /\ crossed \in BOOLEAN
          /\ annulled \in SUBSET Application
          /\ overlaps \in 0 .. MaxOverlaps)'
  BY <1>26, HiringAssumption DEF ReadClose, Begin, Goto, End, Load, Read
<1>27. ASSUME NEW c \in Call, WriteClose(c) PROVE (/\ scan \in {"idle", "expire", "start", "stop", "close"}
          /\ rolledBack \in SUBSET Application /\ forced \in SUBSET ForcedStatuses /\ crossed \in BOOLEAN
          /\ annulled \in SUBSET Application
          /\ overlaps \in 0 .. MaxOverlaps)'
  BY <1>27, HiringAssumption DEF WriteClose, Begin, Goto, End, Load, Read, RejectAll
<1>28. ASSUME NEW c \in Call, ReadDelete(c) PROVE (/\ scan \in {"idle", "expire", "start", "stop", "close"}
          /\ rolledBack \in SUBSET Application /\ forced \in SUBSET ForcedStatuses /\ crossed \in BOOLEAN
          /\ annulled \in SUBSET Application
          /\ overlaps \in 0 .. MaxOverlaps)'
  BY <1>28, HiringAssumption DEF ReadDelete, Begin, Goto, End, Load, Read
<1>29. ASSUME NEW c \in Call, WriteDelete(c) PROVE (/\ scan \in {"idle", "expire", "start", "stop", "close"}
          /\ rolledBack \in SUBSET Application /\ forced \in SUBSET ForcedStatuses /\ crossed \in BOOLEAN
          /\ annulled \in SUBSET Application
          /\ overlaps \in 0 .. MaxOverlaps)'
  BY <1>29, HiringAssumption DEF WriteDelete, Begin, Goto, End, Load, Read, RejectAll
<1>30. ASSUME NEW c \in Call, WriteAdmin(c) PROVE (/\ scan \in {"idle", "expire", "start", "stop", "close"}
          /\ rolledBack \in SUBSET Application /\ forced \in SUBSET ForcedStatuses /\ crossed \in BOOLEAN
          /\ annulled \in SUBSET Application
          /\ overlaps \in 0 .. MaxOverlaps)'
  <2>1. call[c] \in CallState /\ Held(call[c], maxQuantity)
    BY DEF TypeInv, TypeOK, CallsHold
  <2> QED
    BY <1>30, <2>1, HiringAssumption DEF Held, CallState, WriteAdmin, Begin, Goto, End, Load, Read
<1>31. ASSUME NEW c \in Call, FindWaiting(c) PROVE (/\ scan \in {"idle", "expire", "start", "stop", "close"}
          /\ rolledBack \in SUBSET Application /\ forced \in SUBSET ForcedStatuses /\ crossed \in BOOLEAN
          /\ annulled \in SUBSET Application
          /\ overlaps \in 0 .. MaxOverlaps)'
  BY <1>31, HiringAssumption DEF FindWaiting, Begin, Goto, End, Load, Read
<1>32. ASSUME NEW c \in Call, RejectWaiting(c) PROVE (/\ scan \in {"idle", "expire", "start", "stop", "close"}
          /\ rolledBack \in SUBSET Application /\ forced \in SUBSET ForcedStatuses /\ crossed \in BOOLEAN
          /\ annulled \in SUBSET Application
          /\ overlaps \in 0 .. MaxOverlaps)'
  BY <1>32, HiringAssumption DEF RejectWaiting, Begin, Goto, End, Load, Read, RejectAll
<1>33. ASSUME NEW c \in Call, ReadEdit(c) PROVE (/\ scan \in {"idle", "expire", "start", "stop", "close"}
          /\ rolledBack \in SUBSET Application /\ forced \in SUBSET ForcedStatuses /\ crossed \in BOOLEAN
          /\ annulled \in SUBSET Application
          /\ overlaps \in 0 .. MaxOverlaps)'
  BY <1>33, HiringAssumption DEF ReadEdit, Begin, Goto, End, Load, Read
<1>34. ASSUME NEW c \in Call, WriteEdit(c) PROVE (/\ scan \in {"idle", "expire", "start", "stop", "close"}
          /\ rolledBack \in SUBSET Application /\ forced \in SUBSET ForcedStatuses /\ crossed \in BOOLEAN
          /\ annulled \in SUBSET Application
          /\ overlaps \in 0 .. MaxOverlaps)'
  <2>1. call[c] \in CallState /\ Held(call[c], maxQuantity)
    BY DEF TypeInv, TypeOK, CallsHold
  <2> QED
    BY <1>34, <2>1, HiringAssumption DEF Held, CallState, WriteEdit, Begin, Goto, End, Load, Read
<1>35. ASSUME NEW c \in Call, Republish(c) PROVE (/\ scan \in {"idle", "expire", "start", "stop", "close"}
          /\ rolledBack \in SUBSET Application /\ forced \in SUBSET ForcedStatuses /\ crossed \in BOOLEAN
          /\ annulled \in SUBSET Application
          /\ overlaps \in 0 .. MaxOverlaps)'
  BY <1>35, HiringAssumption DEF Republish, Begin, Goto, End, Load, Read
<1>36. ASSUME NEW c \in Call, Start(c) PROVE (/\ scan \in {"idle", "expire", "start", "stop", "close"}
          /\ rolledBack \in SUBSET Application /\ forced \in SUBSET ForcedStatuses /\ crossed \in BOOLEAN
          /\ annulled \in SUBSET Application
          /\ overlaps \in 0 .. MaxOverlaps)'
  <2>1. call[c] \in CallState /\ Held(call[c], maxQuantity)
    BY DEF TypeInv, TypeOK, CallsHold
  <2> QED
    BY <1>36, <2>1, HiringAssumption DEF Held, CallState, Start, Begin, Goto, End, Load, Read
<1>37. ASSUME NEW c \in Call, UndoStart(c) PROVE (/\ scan \in {"idle", "expire", "start", "stop", "close"}
          /\ rolledBack \in SUBSET Application /\ forced \in SUBSET ForcedStatuses /\ crossed \in BOOLEAN
          /\ annulled \in SUBSET Application
          /\ overlaps \in 0 .. MaxOverlaps)'
  <2>1. call[c] \in CallState /\ Held(call[c], maxQuantity)
    BY DEF TypeInv, TypeOK, CallsHold
  <2> QED
    BY <1>37, <2>1, HiringAssumption DEF Held, CallState, UndoStart, Begin, Goto, End, Load, Read, Reopened
<1>38. ASSUME NEW c \in Call, Abort(c) PROVE (/\ scan \in {"idle", "expire", "start", "stop", "close"}
          /\ rolledBack \in SUBSET Application /\ forced \in SUBSET ForcedStatuses /\ crossed \in BOOLEAN
          /\ annulled \in SUBSET Application
          /\ overlaps \in 0 .. MaxOverlaps)'
  BY <1>38, HiringAssumption DEF Abort, Begin, Goto, End, Load, Read
<1>39. ASSUME ToggleDeleted PROVE (/\ scan \in {"idle", "expire", "start", "stop", "close"}
          /\ rolledBack \in SUBSET Application /\ forced \in SUBSET ForcedStatuses /\ crossed \in BOOLEAN
          /\ annulled \in SUBSET Application
          /\ overlaps \in 0 .. MaxOverlaps)'
  BY <1>39, HiringAssumption DEF ToggleDeleted, Begin, Goto, End, Load, Read, ScanEnds
<1>40. ASSUME TimePasses PROVE (/\ scan \in {"idle", "expire", "start", "stop", "close"}
          /\ rolledBack \in SUBSET Application /\ forced \in SUBSET ForcedStatuses /\ crossed \in BOOLEAN
          /\ annulled \in SUBSET Application
          /\ overlaps \in 0 .. MaxOverlaps)'
  BY <1>40, HiringAssumption DEF TimePasses, Begin, Goto, End, Load, Read, ScanEnds
<1>41. ASSUME ScanFind PROVE (/\ scan \in {"idle", "expire", "start", "stop", "close"}
          /\ rolledBack \in SUBSET Application /\ forced \in SUBSET ForcedStatuses /\ crossed \in BOOLEAN
          /\ annulled \in SUBSET Application
          /\ overlaps \in 0 .. MaxOverlaps)'
  BY <1>41, HiringAssumption DEF ScanFind, Begin, Goto, End, Load, Read, ScanEnds, Find
<1>42. ASSUME ExpireEmpty PROVE (/\ scan \in {"idle", "expire", "start", "stop", "close"}
          /\ rolledBack \in SUBSET Application /\ forced \in SUBSET ForcedStatuses /\ crossed \in BOOLEAN
          /\ annulled \in SUBSET Application
          /\ overlaps \in 0 .. MaxOverlaps)'
  BY <1>42, HiringAssumption DEF ExpireEmpty, Begin, Goto, End, Load, Read, ScanEnds
<1>43. ASSUME AutoStart PROVE (/\ scan \in {"idle", "expire", "start", "stop", "close"}
          /\ rolledBack \in SUBSET Application /\ forced \in SUBSET ForcedStatuses /\ crossed \in BOOLEAN
          /\ annulled \in SUBSET Application
          /\ overlaps \in 0 .. MaxOverlaps)'
  BY <1>43, HiringAssumption DEF AutoStart, Begin, Goto, End, Load, Read, ScanEnds
<1>44. ASSUME StopRecruiting PROVE (/\ scan \in {"idle", "expire", "start", "stop", "close"}
          /\ rolledBack \in SUBSET Application /\ forced \in SUBSET ForcedStatuses /\ crossed \in BOOLEAN
          /\ annulled \in SUBSET Application
          /\ overlaps \in 0 .. MaxOverlaps)'
  BY <1>44, HiringAssumption DEF StopRecruiting, Begin, Goto, End, Load, Read, RejectAll, ScanEnds
<1>45. ASSUME CloseAfterGrace PROVE (/\ scan \in {"idle", "expire", "start", "stop", "close"}
          /\ rolledBack \in SUBSET Application /\ forced \in SUBSET ForcedStatuses /\ crossed \in BOOLEAN
          /\ annulled \in SUBSET Application
          /\ overlaps \in 0 .. MaxOverlaps)'
  BY <1>45, HiringAssumption DEF CloseAfterGrace, Begin, Goto, End, Load, Read, CloseRecruitedOffer, Closed, Completed, ScanEnds
<1>46. ASSUME UNCHANGED vars PROVE (/\ scan \in {"idle", "expire", "start", "stop", "close"}
          /\ rolledBack \in SUBSET Application /\ forced \in SUBSET ForcedStatuses /\ crossed \in BOOLEAN
          /\ annulled \in SUBSET Application
          /\ overlaps \in 0 .. MaxOverlaps)'
  BY <1>46 DEF vars
<1>47. ASSUME NEW c \in Call, ReadFinish(c) PROVE (/\ scan \in {"idle", "expire", "start", "stop", "close"}
          /\ rolledBack \in SUBSET Application /\ forced \in SUBSET ForcedStatuses /\ crossed \in BOOLEAN
          /\ annulled \in SUBSET Application
          /\ overlaps \in 0 .. MaxOverlaps)'
  BY <1>47, HiringAssumption DEF ReadFinish, Begin, Goto, End, Load, Read
<1> QED
  BY <1>1, <1>2, <1>3, <1>4, <1>5, <1>6, <1>7, <1>8, <1>9, <1>10, <1>11,
     <1>12, <1>13, <1>14, <1>15, <1>16, <1>17, <1>18, <1>19, <1>20, <1>21,
     <1>22, <1>23, <1>24, <1>25, <1>26, <1>27, <1>28, <1>29, <1>30, <1>31,
     <1>32, <1>33, <1>34, <1>35, <1>36, <1>37, <1>38, <1>39, <1>40, <1>41,
     <1>42, <1>43, <1>44, <1>45, <1>46, <1>47
     DEF Next, Loads, Writes, ScanWrite

\* The type invariant holds at first.
LEMMA TypeInit == Init => TypeInv
<1> SUFFICES ASSUME Init PROVE TypeInv
  OBVIOUS
<1>1. app \in [Application -> ApplicationStatus] /\ call \in [Call -> CallState]
  BY IdleIsCall DEF Init, ApplicationStatus
<1>2. offer \in OfferStatus /\ overlaps \in 0 .. MaxOverlaps
  BY HiringAssumption DEF Init, OfferStatus
<1>3. TypeOK
  BY <1>1, <1>2 DEF Init, TypeOK
<1>4. CallsHold
  BY IdleIsHeld DEF Init, CallsHold
<1> QED
  BY <1>3, <1>4, HiringAssumption DEF Init, TypeInv

\* Every step keeps the type invariant.
LEMMA TypeStep == TypeInv /\ [Next]_vars => TypeInv'
  BY CallsStep, TermsStep, QuantityStep, ApplicationsStep, AssignmentsStep, HistoryStep
     DEF TypeInv, TypeOK

\* The type invariant, with what the calls hold, is true for ever.
LEMMA TypeInvariant == Spec => []TypeInv
  BY TypeInit, TypeStep, PTL DEF Spec

\* Every row and every call holds values of the schema, whatever overlaps.
THEOREM HiringTypes == Spec => []TypeOK
<1>1. TypeInv => TypeOK
  BY DEF TypeInv
<1> QED
  BY <1>1, TypeInvariant, PTL

\* Whoever completes the offer rejects who waits, and nobody starts to wait on a
\* completed offer.
LEMMA CompletedStep ==
  ASSUME TypeInv, CompletedLeavesNobodyWaiting, [Next]_vars
  PROVE  CompletedLeavesNobodyWaiting'
<1> USE DEF vars, TypeInv, TypeOK, CompletedLeavesNobodyWaiting, With, Waiting, Recruiting, Movable, Hired, ApplicationStatus, terms, rows, history
<1>1. ASSUME NEW a \in Application, Apply(a) PROVE CompletedLeavesNobodyWaiting'
  BY <1>1 DEF Apply, Begin, Goto, End, Load, Read
<1>2. ASSUME NEW c \in Call, NEW a \in Application, LoadAccept(c, a) PROVE CompletedLeavesNobodyWaiting'
  BY <1>2 DEF LoadAccept, Begin, Goto, End, Load, Read
<1>3. ASSUME NEW c \in Call, NEW a \in Application, LoadReject(c, a) PROVE CompletedLeavesNobodyWaiting'
  BY <1>3 DEF LoadReject, Begin, Goto, End, Load, Read
<1>4. ASSUME NEW c \in Call, NEW a \in Application, LoadCancel(c, a) PROVE CompletedLeavesNobodyWaiting'
  BY <1>4 DEF LoadCancel, Begin, Goto, End, Load, Read
<1>5. ASSUME NEW c \in Call, NEW a \in Application, LoadLapse(c, a) PROVE CompletedLeavesNobodyWaiting'
  BY <1>5 DEF LoadLapse, Begin, Goto, End, Load, Read
<1>6. ASSUME NEW c \in Call, NEW a \in Application, LoadFinish(c, a) PROVE CompletedLeavesNobodyWaiting'
  BY <1>6 DEF LoadFinish, Begin, Goto, End, Load, Read
<1>7. ASSUME NEW c \in Call, NEW a \in Application, LoadStart(c, a) PROVE CompletedLeavesNobodyWaiting'
  BY <1>7 DEF LoadStart, Begin, Goto, End, Load, Read
<1>8. ASSUME NEW c \in Call, NEW S \in SUBSET Application, Unlock(c, S) PROVE CompletedLeavesNobodyWaiting'
  BY <1>8 DEF Unlock, Begin, Goto, End, Load, Read
<1>9. ASSUME NEW c \in Call, NEW s \in ForcedStatuses, LoadAdmin(c, s) PROVE CompletedLeavesNobodyWaiting'
  BY <1>9 DEF LoadAdmin, Begin, Goto, End, Load, Read
<1>10. ASSUME NEW c \in Call, NEW q \in Quantities, LoadEdit(c, q) PROVE CompletedLeavesNobodyWaiting'
  BY <1>10 DEF LoadEdit, Begin, Goto, End, Load, Read
<1>11. ASSUME NEW c \in Call, NEW q \in Quantities, LoadEditByAdmin(c, q) PROVE CompletedLeavesNobodyWaiting'
  BY <1>11 DEF LoadEditByAdmin, Begin, Goto, End, Load, Read
<1>12. ASSUME NEW c \in Call, LoadConfirm(c) PROVE CompletedLeavesNobodyWaiting'
  BY <1>12 DEF LoadConfirm, Begin, Goto, End, Load, Read
<1>13. ASSUME NEW c \in Call, LoadClose(c) PROVE CompletedLeavesNobodyWaiting'
  BY <1>13 DEF LoadClose, Begin, Goto, End, Load, Read
<1>14. ASSUME NEW c \in Call, LoadDelete(c) PROVE CompletedLeavesNobodyWaiting'
  BY <1>14 DEF LoadDelete, Begin, Goto, End, Load, Read
<1>15. ASSUME NEW c \in Call, LoadRepublish(c) PROVE CompletedLeavesNobodyWaiting'
  BY <1>15 DEF LoadRepublish, Begin, Goto, End, Load, Read
<1>16. ASSUME NEW c \in Call, Archive(c) PROVE CompletedLeavesNobodyWaiting'
  BY <1>16 DEF Archive, Begin, Goto, End, Load, Read
<1>17. ASSUME NEW c \in Call, Accept(c) PROVE CompletedLeavesNobodyWaiting'
  <2>1. call[c] \in CallState /\ Held(call[c], maxQuantity)
    BY DEF TypeInv, TypeOK, CallsHold
  <2> QED
    BY <1>17, <2>1 DEF Held, CallState, Accept, Begin, Goto, End, Load, Read, Taken
<1>18. ASSUME NEW c \in Call, Reject(c) PROVE CompletedLeavesNobodyWaiting'
  <2>1. call[c] \in CallState /\ Held(call[c], maxQuantity)
    BY DEF TypeInv, TypeOK, CallsHold
  <2> QED
    BY <1>18, <2>1 DEF Held, CallState, Reject, Begin, Goto, End, Load, Read, RejectAll
<1>19. ASSUME NEW c \in Call, Withdraw(c) PROVE CompletedLeavesNobodyWaiting'
  <2>1. call[c] \in CallState /\ Held(call[c], maxQuantity)
    BY DEF TypeInv, TypeOK, CallsHold
  <2> QED
    BY <1>19, <2>1 DEF Held, CallState, Withdraw, Begin, Goto, End, Load, Read
<1>20. ASSUME NEW c \in Call, LockCancel(c) PROVE CompletedLeavesNobodyWaiting'
  BY <1>20 DEF LockCancel, Begin, Goto, End, Load, Read
<1>21. ASSUME NEW c \in Call, CommitCancel(c) PROVE CompletedLeavesNobodyWaiting'
  <2>1. call[c] \in CallState /\ Held(call[c], maxQuantity)
    BY DEF TypeInv, TypeOK, CallsHold
  <2> QED
    BY <1>21, <2>1 DEF Held, CallState, CommitCancel, CancelHire, Begin, Goto, End, Load, Read, Reopened
<1>22. ASSUME NEW c \in Call, Lapse(c) PROVE CompletedLeavesNobodyWaiting'
  <2>1. call[c] \in CallState /\ Held(call[c], maxQuantity)
    BY DEF TypeInv, TypeOK, CallsHold
  <2> QED
    BY <1>22, <2>1 DEF Held, CallState, Lapse, CancelHire, Begin, Goto, End, Load, Read
<1>23. ASSUME NEW c \in Call, RejectLeftovers(c) PROVE CompletedLeavesNobodyWaiting'
  BY <1>23 DEF RejectLeftovers, Begin, Goto, End, Load, Read, RejectAll
<1>24. ASSUME NEW c \in Call, Confirm(c) PROVE CompletedLeavesNobodyWaiting'
  BY <1>24 DEF Confirm, Begin, Goto, End, Load, Read, CloseRecruitedOffer, Closed, Completed
<1>25. ASSUME NEW c \in Call, Finish(c) PROVE CompletedLeavesNobodyWaiting'
  <2>1. call[c] \in CallState /\ Held(call[c], maxQuantity)
    BY DEF TypeInv, TypeOK, CallsHold
  <2> QED
    BY <1>25, <2>1 DEF Held, CallState, Finish, Begin, Goto, End, Load, Read
<1>26. ASSUME NEW c \in Call, ReadClose(c) PROVE CompletedLeavesNobodyWaiting'
  BY <1>26 DEF ReadClose, Begin, Goto, End, Load, Read
<1>27. ASSUME NEW c \in Call, WriteClose(c) PROVE CompletedLeavesNobodyWaiting'
  BY <1>27 DEF WriteClose, Begin, Goto, End, Load, Read, RejectAll
<1>28. ASSUME NEW c \in Call, ReadDelete(c) PROVE CompletedLeavesNobodyWaiting'
  BY <1>28 DEF ReadDelete, Begin, Goto, End, Load, Read
<1>29. ASSUME NEW c \in Call, WriteDelete(c) PROVE CompletedLeavesNobodyWaiting'
  BY <1>29 DEF WriteDelete, Begin, Goto, End, Load, Read, RejectAll
<1>30. ASSUME NEW c \in Call, WriteAdmin(c) PROVE CompletedLeavesNobodyWaiting'
  <2>1. call[c] \in CallState /\ Held(call[c], maxQuantity)
    BY DEF TypeInv, TypeOK, CallsHold
  <2> QED
    BY <1>30, <2>1 DEF Held, CallState, WriteAdmin, Begin, Goto, End, Load, Read
<1>31. ASSUME NEW c \in Call, FindWaiting(c) PROVE CompletedLeavesNobodyWaiting'
  BY <1>31 DEF FindWaiting, Begin, Goto, End, Load, Read
<1>32. ASSUME NEW c \in Call, RejectWaiting(c) PROVE CompletedLeavesNobodyWaiting'
  BY <1>32 DEF RejectWaiting, Begin, Goto, End, Load, Read, RejectAll
<1>33. ASSUME NEW c \in Call, ReadEdit(c) PROVE CompletedLeavesNobodyWaiting'
  BY <1>33 DEF ReadEdit, Begin, Goto, End, Load, Read
<1>34. ASSUME NEW c \in Call, WriteEdit(c) PROVE CompletedLeavesNobodyWaiting'
  <2>1. call[c] \in CallState /\ Held(call[c], maxQuantity)
    BY DEF TypeInv, TypeOK, CallsHold
  <2> QED
    BY <1>34, <2>1 DEF Held, CallState, WriteEdit, Begin, Goto, End, Load, Read
<1>35. ASSUME NEW c \in Call, Republish(c) PROVE CompletedLeavesNobodyWaiting'
  BY <1>35 DEF Republish, Begin, Goto, End, Load, Read
<1>36. ASSUME NEW c \in Call, Start(c) PROVE CompletedLeavesNobodyWaiting'
  <2>1. call[c] \in CallState /\ Held(call[c], maxQuantity)
    BY DEF TypeInv, TypeOK, CallsHold
  <2> QED
    BY <1>36, <2>1 DEF Held, CallState, Start, Begin, Goto, End, Load, Read
<1>37. ASSUME NEW c \in Call, UndoStart(c) PROVE CompletedLeavesNobodyWaiting'
  <2>1. call[c] \in CallState /\ Held(call[c], maxQuantity)
    BY DEF TypeInv, TypeOK, CallsHold
  <2> QED
    BY <1>37, <2>1 DEF Held, CallState, UndoStart, Begin, Goto, End, Load, Read, Reopened
<1>38. ASSUME NEW c \in Call, Abort(c) PROVE CompletedLeavesNobodyWaiting'
  BY <1>38 DEF Abort, Begin, Goto, End, Load, Read
<1>39. ASSUME ToggleDeleted PROVE CompletedLeavesNobodyWaiting'
  BY <1>39 DEF ToggleDeleted, Begin, Goto, End, Load, Read, ScanEnds
<1>40. ASSUME TimePasses PROVE CompletedLeavesNobodyWaiting'
  BY <1>40 DEF TimePasses, Begin, Goto, End, Load, Read, ScanEnds
<1>41. ASSUME ScanFind PROVE CompletedLeavesNobodyWaiting'
  BY <1>41 DEF ScanFind, Begin, Goto, End, Load, Read, ScanEnds, Find
<1>42. ASSUME ExpireEmpty PROVE CompletedLeavesNobodyWaiting'
  BY <1>42 DEF ExpireEmpty, Begin, Goto, End, Load, Read, ScanEnds
<1>43. ASSUME AutoStart PROVE CompletedLeavesNobodyWaiting'
  BY <1>43 DEF AutoStart, Begin, Goto, End, Load, Read, ScanEnds
<1>44. ASSUME StopRecruiting PROVE CompletedLeavesNobodyWaiting'
  BY <1>44 DEF StopRecruiting, Begin, Goto, End, Load, Read, RejectAll, ScanEnds
<1>45. ASSUME CloseAfterGrace PROVE CompletedLeavesNobodyWaiting'
  BY <1>45 DEF CloseAfterGrace, Begin, Goto, End, Load, Read, CloseRecruitedOffer, Closed, Completed, ScanEnds
<1>46. ASSUME UNCHANGED vars PROVE CompletedLeavesNobodyWaiting'
  BY <1>46 DEF vars
<1>47. ASSUME NEW c \in Call, ReadFinish(c) PROVE CompletedLeavesNobodyWaiting'
  BY <1>47 DEF ReadFinish, Begin, Goto, End, Load, Read
<1> QED
  BY <1>1, <1>2, <1>3, <1>4, <1>5, <1>6, <1>7, <1>8, <1>9, <1>10, <1>11,
     <1>12, <1>13, <1>14, <1>15, <1>16, <1>17, <1>18, <1>19, <1>20, <1>21,
     <1>22, <1>23, <1>24, <1>25, <1>26, <1>27, <1>28, <1>29, <1>30, <1>31,
     <1>32, <1>33, <1>34, <1>35, <1>36, <1>37, <1>38, <1>39, <1>40, <1>41,
     <1>42, <1>43, <1>44, <1>45, <1>46, <1>47
     DEF Next, Loads, Writes, ScanWrite

\* A completed offer leaves nobody waiting unless an administrator completed it
\* by hand: both closings reject the leftovers in the same transaction.
THEOREM NobodyLeftWaiting == Spec => []CompletedLeavesNobodyWaiting
<1>1. Init => CompletedLeavesNobodyWaiting
  BY DEF Init, CompletedLeavesNobodyWaiting
<1>2. TypeInv /\ CompletedLeavesNobodyWaiting /\ [Next]_vars => CompletedLeavesNobodyWaiting'
  BY CompletedStep
<1> QED
  BY <1>1, <1>2, TypeInvariant, PTL DEF Spec

\* Which kind of offer the steps in progress are about: a one-off mission is
\* started and finished, an ongoing engagement is closed.
KindHolds ==
  /\ \A c \in Call :
       /\ call[c].pc \in {"start", "notify", "finish", "finishKept", "finishWrite"} => ~ongoing
       /\ call[c].pc = "confirm" => ongoing
  /\ scan = "close" => ongoing

\* On an ongoing engagement, whoever is hired and has not left has a live
\* assignment: the closing only completes CONFIRMED ones.
HiresAssigned ==
  \A a \in Application :
    ongoing /\ app[a] \in {"WAITING_PAYMENT", "ACCEPTED", "STARTED"}
      => assigned[a] \in {"CONFIRMED", "COMPLETED"}

\* A finish is about an application that somebody has answered; one that takes the
\* assignment for completed, and will write the application's end, is right unless
\* the hire was cancelled since.
FinishHolds ==
  \A c \in Call :
    /\ call[c].pc \in {"finish", "finishKept", "finishWrite"}
         => app[call[c].app] \notin {"NONE", "PENDING"}
    /\ call[c].pc = "finishKept" /\ call[c].status # "END" /\ call[c].app \notin annulled
         => assigned[call[c].app] = "COMPLETED"

\* EndedCanBeRated made inductive.
RatedInv == KindHolds /\ HiresAssigned /\ FinishHolds /\ EndedCanBeRated

\* The kind of offer never changes under a step in progress.
LEMMA KindStep ==
  ASSUME TypeInv, KindHolds, [Next]_vars
  PROVE  KindHolds'
<1> USE DEF vars, TypeInv, TypeOK, KindHolds, Idle, CanClose, terms, rows, history
<1>1. ASSUME NEW a \in Application, Apply(a) PROVE KindHolds'
  BY <1>1 DEF Apply, Begin, Goto, End, Load, Read
<1>2. ASSUME NEW c \in Call, NEW a \in Application, LoadAccept(c, a) PROVE KindHolds'
  BY <1>2 DEF LoadAccept, Begin, Goto, End, Load, Read
<1>3. ASSUME NEW c \in Call, NEW a \in Application, LoadReject(c, a) PROVE KindHolds'
  BY <1>3 DEF LoadReject, Begin, Goto, End, Load, Read
<1>4. ASSUME NEW c \in Call, NEW a \in Application, LoadCancel(c, a) PROVE KindHolds'
  BY <1>4 DEF LoadCancel, Begin, Goto, End, Load, Read
<1>5. ASSUME NEW c \in Call, NEW a \in Application, LoadLapse(c, a) PROVE KindHolds'
  BY <1>5 DEF LoadLapse, Begin, Goto, End, Load, Read
<1>6. ASSUME NEW c \in Call, NEW a \in Application, LoadFinish(c, a) PROVE KindHolds'
  BY <1>6 DEF LoadFinish, Begin, Goto, End, Load, Read
<1>7. ASSUME NEW c \in Call, NEW a \in Application, LoadStart(c, a) PROVE KindHolds'
  BY <1>7 DEF LoadStart, Begin, Goto, End, Load, Read
<1>8. ASSUME NEW c \in Call, NEW S \in SUBSET Application, Unlock(c, S) PROVE KindHolds'
  BY <1>8 DEF Unlock, Begin, Goto, End, Load, Read
<1>9. ASSUME NEW c \in Call, NEW s \in ForcedStatuses, LoadAdmin(c, s) PROVE KindHolds'
  BY <1>9 DEF LoadAdmin, Begin, Goto, End, Load, Read
<1>10. ASSUME NEW c \in Call, NEW q \in Quantities, LoadEdit(c, q) PROVE KindHolds'
  BY <1>10 DEF LoadEdit, Begin, Goto, End, Load, Read
<1>11. ASSUME NEW c \in Call, NEW q \in Quantities, LoadEditByAdmin(c, q) PROVE KindHolds'
  BY <1>11 DEF LoadEditByAdmin, Begin, Goto, End, Load, Read
<1>12. ASSUME NEW c \in Call, LoadConfirm(c) PROVE KindHolds'
  BY <1>12 DEF LoadConfirm, Begin, Goto, End, Load, Read
<1>13. ASSUME NEW c \in Call, LoadClose(c) PROVE KindHolds'
  BY <1>13 DEF LoadClose, Begin, Goto, End, Load, Read
<1>14. ASSUME NEW c \in Call, LoadDelete(c) PROVE KindHolds'
  BY <1>14 DEF LoadDelete, Begin, Goto, End, Load, Read
<1>15. ASSUME NEW c \in Call, LoadRepublish(c) PROVE KindHolds'
  BY <1>15 DEF LoadRepublish, Begin, Goto, End, Load, Read
<1>16. ASSUME NEW c \in Call, Archive(c) PROVE KindHolds'
  BY <1>16 DEF Archive, Begin, Goto, End, Load, Read
<1>17. ASSUME NEW c \in Call, Accept(c) PROVE KindHolds'
  <2>1. call[c] \in CallState /\ Held(call[c], maxQuantity)
    BY DEF TypeInv, TypeOK, CallsHold
  <2> QED
    BY <1>17, <2>1 DEF Held, CallState, Accept, Begin, Goto, End, Load, Read, Taken
<1>18. ASSUME NEW c \in Call, Reject(c) PROVE KindHolds'
  <2>1. call[c] \in CallState /\ Held(call[c], maxQuantity)
    BY DEF TypeInv, TypeOK, CallsHold
  <2> QED
    BY <1>18, <2>1 DEF Held, CallState, Reject, Begin, Goto, End, Load, Read, RejectAll
<1>19. ASSUME NEW c \in Call, Withdraw(c) PROVE KindHolds'
  <2>1. call[c] \in CallState /\ Held(call[c], maxQuantity)
    BY DEF TypeInv, TypeOK, CallsHold
  <2> QED
    BY <1>19, <2>1 DEF Held, CallState, Withdraw, Begin, Goto, End, Load, Read
<1>20. ASSUME NEW c \in Call, LockCancel(c) PROVE KindHolds'
  BY <1>20 DEF LockCancel, Begin, Goto, End, Load, Read
<1>21. ASSUME NEW c \in Call, CommitCancel(c) PROVE KindHolds'
  <2>1. call[c] \in CallState /\ Held(call[c], maxQuantity)
    BY DEF TypeInv, TypeOK, CallsHold
  <2> QED
    BY <1>21, <2>1 DEF Held, CallState, CommitCancel, CancelHire, Begin, Goto, End, Load, Read, Reopened
<1>22. ASSUME NEW c \in Call, Lapse(c) PROVE KindHolds'
  <2>1. call[c] \in CallState /\ Held(call[c], maxQuantity)
    BY DEF TypeInv, TypeOK, CallsHold
  <2> QED
    BY <1>22, <2>1 DEF Held, CallState, Lapse, CancelHire, Begin, Goto, End, Load, Read
<1>23. ASSUME NEW c \in Call, RejectLeftovers(c) PROVE KindHolds'
  BY <1>23 DEF RejectLeftovers, Begin, Goto, End, Load, Read, RejectAll
<1>24. ASSUME NEW c \in Call, Confirm(c) PROVE KindHolds'
  BY <1>24 DEF Confirm, Begin, Goto, End, Load, Read, CloseRecruitedOffer, Closed, Completed
<1>25. ASSUME NEW c \in Call, Finish(c) PROVE KindHolds'
  <2>1. call[c] \in CallState /\ Held(call[c], maxQuantity)
    BY DEF TypeInv, TypeOK, CallsHold
  <2> QED
    BY <1>25, <2>1 DEF Held, CallState, Finish, Begin, Goto, End, Load, Read
<1>26. ASSUME NEW c \in Call, ReadClose(c) PROVE KindHolds'
  BY <1>26 DEF ReadClose, Begin, Goto, End, Load, Read
<1>27. ASSUME NEW c \in Call, WriteClose(c) PROVE KindHolds'
  BY <1>27 DEF WriteClose, Begin, Goto, End, Load, Read, RejectAll
<1>28. ASSUME NEW c \in Call, ReadDelete(c) PROVE KindHolds'
  BY <1>28 DEF ReadDelete, Begin, Goto, End, Load, Read
<1>29. ASSUME NEW c \in Call, WriteDelete(c) PROVE KindHolds'
  BY <1>29 DEF WriteDelete, Begin, Goto, End, Load, Read, RejectAll
<1>30. ASSUME NEW c \in Call, WriteAdmin(c) PROVE KindHolds'
  <2>1. ongoing' = ongoing /\ scan' = scan
    BY <1>30 DEF WriteAdmin, Goto, End
  <2>2. PICK r \in {[Idle EXCEPT !.pc = "rejectFind", !.which = Waiting], Idle} :
          call' = [call EXCEPT ![c] = r]
    BY <1>30 DEF WriteAdmin, Goto, End
  <2>3. r.pc \in {"rejectFind", "idle"}
    <3>1. [Idle EXCEPT !.pc = "rejectFind", !.which = Waiting].pc = "rejectFind"
      BY DEF Idle
    <3>2. Idle.pc = "idle"
      BY DEF Idle
    <3> QED
      BY <2>2, <3>1, <3>2, Zenon
  <2> QED
    BY <2>1, <2>2, <2>3
<1>31. ASSUME NEW c \in Call, FindWaiting(c) PROVE KindHolds'
  BY <1>31 DEF FindWaiting, Begin, Goto, End, Load, Read
<1>32. ASSUME NEW c \in Call, RejectWaiting(c) PROVE KindHolds'
  BY <1>32 DEF RejectWaiting, Begin, Goto, End, Load, Read, RejectAll
<1>33. ASSUME NEW c \in Call, ReadEdit(c) PROVE KindHolds'
  BY <1>33 DEF ReadEdit, Begin, Goto, End, Load, Read
<1>34. ASSUME NEW c \in Call, WriteEdit(c) PROVE KindHolds'
  <2>1. call[c] \in CallState /\ Held(call[c], maxQuantity)
    BY DEF TypeInv, TypeOK, CallsHold
  <2> QED
    BY <1>34, <2>1 DEF Held, CallState, WriteEdit, Begin, Goto, End, Load, Read
<1>35. ASSUME NEW c \in Call, Republish(c) PROVE KindHolds'
  BY <1>35 DEF Republish, Begin, Goto, End, Load, Read
<1>36. ASSUME NEW c \in Call, Start(c) PROVE KindHolds'
  <2>1. call[c] \in CallState /\ Held(call[c], maxQuantity)
    BY DEF TypeInv, TypeOK, CallsHold
  <2> QED
    BY <1>36, <2>1 DEF Held, CallState, Start, Begin, Goto, End, Load, Read
<1>37. ASSUME NEW c \in Call, UndoStart(c) PROVE KindHolds'
  <2>1. call[c] \in CallState /\ Held(call[c], maxQuantity)
    BY DEF TypeInv, TypeOK, CallsHold
  <2> QED
    BY <1>37, <2>1 DEF Held, CallState, UndoStart, Begin, Goto, End, Load, Read, Reopened
<1>38. ASSUME NEW c \in Call, Abort(c) PROVE KindHolds'
  BY <1>38 DEF Abort, Begin, Goto, End, Load, Read
<1>39. ASSUME ToggleDeleted PROVE KindHolds'
  BY <1>39 DEF ToggleDeleted, Begin, Goto, End, Load, Read, ScanEnds
<1>40. ASSUME TimePasses PROVE KindHolds'
  BY <1>40 DEF TimePasses, Begin, Goto, End, Load, Read, ScanEnds
<1>41. ASSUME ScanFind PROVE KindHolds'
  BY <1>41 DEF ScanFind, Begin, Goto, End, Load, Read, ScanEnds, Find
<1>42. ASSUME ExpireEmpty PROVE KindHolds'
  BY <1>42 DEF ExpireEmpty, Begin, Goto, End, Load, Read, ScanEnds
<1>43. ASSUME AutoStart PROVE KindHolds'
  BY <1>43 DEF AutoStart, Begin, Goto, End, Load, Read, ScanEnds
<1>44. ASSUME StopRecruiting PROVE KindHolds'
  BY <1>44 DEF StopRecruiting, Begin, Goto, End, Load, Read, RejectAll, ScanEnds
<1>45. ASSUME CloseAfterGrace PROVE KindHolds'
  BY <1>45 DEF CloseAfterGrace, Begin, Goto, End, Load, Read, CloseRecruitedOffer, Closed, Completed, ScanEnds
<1>46. ASSUME UNCHANGED vars PROVE KindHolds'
  BY <1>46 DEF vars
<1>47. ASSUME NEW c \in Call, ReadFinish(c) PROVE KindHolds'
  BY <1>47 DEF ReadFinish, Begin, Goto, End, Load, Read
<1> QED
  BY <1>1, <1>2, <1>3, <1>4, <1>5, <1>6, <1>7, <1>8, <1>9, <1>10, <1>11,
     <1>12, <1>13, <1>14, <1>15, <1>16, <1>17, <1>18, <1>19, <1>20, <1>21,
     <1>22, <1>23, <1>24, <1>25, <1>26, <1>27, <1>28, <1>29, <1>30, <1>31,
     <1>32, <1>33, <1>34, <1>35, <1>36, <1>37, <1>38, <1>39, <1>40, <1>41,
     <1>42, <1>43, <1>44, <1>45, <1>46, <1>47
     DEF Next, Loads, Writes, ScanWrite

\* Leaving an engagement ends application and assignment together.
LEMMA AssignedStep ==
  ASSUME TypeInv, RatedInv, [Next]_vars
  PROVE  HiresAssigned'
<1> USE DEF vars, TypeInv, TypeOK, RatedInv, HiresAssigned, ApplicationStatus, KindHolds, With, terms, rows, history
<1>1. ASSUME NEW a \in Application, Apply(a) PROVE HiresAssigned'
  BY <1>1 DEF Apply, Begin, Goto, End, Load, Read
<1>2. ASSUME NEW c \in Call, NEW a \in Application, LoadAccept(c, a) PROVE HiresAssigned'
  BY <1>2 DEF LoadAccept, Begin, Goto, End, Load, Read
<1>3. ASSUME NEW c \in Call, NEW a \in Application, LoadReject(c, a) PROVE HiresAssigned'
  BY <1>3 DEF LoadReject, Begin, Goto, End, Load, Read
<1>4. ASSUME NEW c \in Call, NEW a \in Application, LoadCancel(c, a) PROVE HiresAssigned'
  BY <1>4 DEF LoadCancel, Begin, Goto, End, Load, Read
<1>5. ASSUME NEW c \in Call, NEW a \in Application, LoadLapse(c, a) PROVE HiresAssigned'
  BY <1>5 DEF LoadLapse, Begin, Goto, End, Load, Read
<1>6. ASSUME NEW c \in Call, NEW a \in Application, LoadFinish(c, a) PROVE HiresAssigned'
  BY <1>6 DEF LoadFinish, Begin, Goto, End, Load, Read
<1>7. ASSUME NEW c \in Call, NEW a \in Application, LoadStart(c, a) PROVE HiresAssigned'
  BY <1>7 DEF LoadStart, Begin, Goto, End, Load, Read
<1>8. ASSUME NEW c \in Call, NEW S \in SUBSET Application, Unlock(c, S) PROVE HiresAssigned'
  BY <1>8 DEF Unlock, Begin, Goto, End, Load, Read
<1>9. ASSUME NEW c \in Call, NEW s \in ForcedStatuses, LoadAdmin(c, s) PROVE HiresAssigned'
  BY <1>9 DEF LoadAdmin, Begin, Goto, End, Load, Read
<1>10. ASSUME NEW c \in Call, NEW q \in Quantities, LoadEdit(c, q) PROVE HiresAssigned'
  BY <1>10 DEF LoadEdit, Begin, Goto, End, Load, Read
<1>11. ASSUME NEW c \in Call, NEW q \in Quantities, LoadEditByAdmin(c, q) PROVE HiresAssigned'
  BY <1>11 DEF LoadEditByAdmin, Begin, Goto, End, Load, Read
<1>12. ASSUME NEW c \in Call, LoadConfirm(c) PROVE HiresAssigned'
  BY <1>12 DEF LoadConfirm, Begin, Goto, End, Load, Read
<1>13. ASSUME NEW c \in Call, LoadClose(c) PROVE HiresAssigned'
  BY <1>13 DEF LoadClose, Begin, Goto, End, Load, Read
<1>14. ASSUME NEW c \in Call, LoadDelete(c) PROVE HiresAssigned'
  BY <1>14 DEF LoadDelete, Begin, Goto, End, Load, Read
<1>15. ASSUME NEW c \in Call, LoadRepublish(c) PROVE HiresAssigned'
  BY <1>15 DEF LoadRepublish, Begin, Goto, End, Load, Read
<1>16. ASSUME NEW c \in Call, Archive(c) PROVE HiresAssigned'
  BY <1>16 DEF Archive, Begin, Goto, End, Load, Read
<1>17. ASSUME NEW c \in Call, Accept(c) PROVE HiresAssigned'
  <2>1. call[c] \in CallState /\ Held(call[c], maxQuantity)
    BY DEF TypeInv, TypeOK, CallsHold
  <2> QED
    BY <1>17, <2>1 DEF Held, CallState, Accept, Begin, Goto, End, Load, Read, Taken
<1>18. ASSUME NEW c \in Call, Reject(c) PROVE HiresAssigned'
  <2>1. call[c] \in CallState /\ Held(call[c], maxQuantity)
    BY DEF TypeInv, TypeOK, CallsHold
  <2> QED
    BY <1>18, <2>1 DEF Held, CallState, Reject, Begin, Goto, End, Load, Read, RejectAll
<1>19. ASSUME NEW c \in Call, Withdraw(c) PROVE HiresAssigned'
  <2>1. call[c] \in CallState /\ Held(call[c], maxQuantity)
    BY DEF TypeInv, TypeOK, CallsHold
  <2> QED
    BY <1>19, <2>1 DEF Held, CallState, Withdraw, Begin, Goto, End, Load, Read
<1>20. ASSUME NEW c \in Call, LockCancel(c) PROVE HiresAssigned'
  BY <1>20 DEF LockCancel, Begin, Goto, End, Load, Read
<1>21. ASSUME NEW c \in Call, CommitCancel(c) PROVE HiresAssigned'
  <2>1. call[c] \in CallState /\ Held(call[c], maxQuantity)
    BY DEF TypeInv, TypeOK, CallsHold
  <2> QED
    BY <1>21, <2>1 DEF Held, CallState, CommitCancel, CancelHire, Begin, Goto, End, Load, Read, Reopened
<1>22. ASSUME NEW c \in Call, Lapse(c) PROVE HiresAssigned'
  <2>1. call[c] \in CallState /\ Held(call[c], maxQuantity)
    BY DEF TypeInv, TypeOK, CallsHold
  <2> QED
    BY <1>22, <2>1 DEF Held, CallState, Lapse, CancelHire, Begin, Goto, End, Load, Read
<1>23. ASSUME NEW c \in Call, RejectLeftovers(c) PROVE HiresAssigned'
  BY <1>23 DEF RejectLeftovers, Begin, Goto, End, Load, Read, RejectAll
<1>24. ASSUME NEW c \in Call, Confirm(c) PROVE HiresAssigned'
  BY <1>24 DEF Confirm, Begin, Goto, End, Load, Read, CloseRecruitedOffer, Closed, Completed
<1>25. ASSUME NEW c \in Call, Finish(c) PROVE HiresAssigned'
  <2>1. call[c] \in CallState /\ Held(call[c], maxQuantity)
    BY DEF TypeInv, TypeOK, CallsHold
  <2> QED
    BY <1>25, <2>1 DEF Held, CallState, Finish, Begin, Goto, End, Load, Read
<1>26. ASSUME NEW c \in Call, ReadClose(c) PROVE HiresAssigned'
  BY <1>26 DEF ReadClose, Begin, Goto, End, Load, Read
<1>27. ASSUME NEW c \in Call, WriteClose(c) PROVE HiresAssigned'
  BY <1>27 DEF WriteClose, Begin, Goto, End, Load, Read, RejectAll
<1>28. ASSUME NEW c \in Call, ReadDelete(c) PROVE HiresAssigned'
  BY <1>28 DEF ReadDelete, Begin, Goto, End, Load, Read
<1>29. ASSUME NEW c \in Call, WriteDelete(c) PROVE HiresAssigned'
  BY <1>29 DEF WriteDelete, Begin, Goto, End, Load, Read, RejectAll
<1>30. ASSUME NEW c \in Call, WriteAdmin(c) PROVE HiresAssigned'
  <2>1. call[c] \in CallState /\ Held(call[c], maxQuantity)
    BY DEF TypeInv, TypeOK, CallsHold
  <2> QED
    BY <1>30, <2>1 DEF Held, CallState, WriteAdmin, Begin, Goto, End, Load, Read
<1>31. ASSUME NEW c \in Call, FindWaiting(c) PROVE HiresAssigned'
  BY <1>31 DEF FindWaiting, Begin, Goto, End, Load, Read
<1>32. ASSUME NEW c \in Call, RejectWaiting(c) PROVE HiresAssigned'
  BY <1>32 DEF RejectWaiting, Begin, Goto, End, Load, Read, RejectAll
<1>33. ASSUME NEW c \in Call, ReadEdit(c) PROVE HiresAssigned'
  BY <1>33 DEF ReadEdit, Begin, Goto, End, Load, Read
<1>34. ASSUME NEW c \in Call, WriteEdit(c) PROVE HiresAssigned'
  <2>1. call[c] \in CallState /\ Held(call[c], maxQuantity)
    BY DEF TypeInv, TypeOK, CallsHold
  <2> QED
    BY <1>34, <2>1 DEF Held, CallState, WriteEdit, Begin, Goto, End, Load, Read
<1>35. ASSUME NEW c \in Call, Republish(c) PROVE HiresAssigned'
  BY <1>35 DEF Republish, Begin, Goto, End, Load, Read
<1>36. ASSUME NEW c \in Call, Start(c) PROVE HiresAssigned'
  <2>1. call[c] \in CallState /\ Held(call[c], maxQuantity)
    BY DEF TypeInv, TypeOK, CallsHold
  <2> QED
    BY <1>36, <2>1 DEF Held, CallState, Start, Begin, Goto, End, Load, Read
<1>37. ASSUME NEW c \in Call, UndoStart(c) PROVE HiresAssigned'
  <2>1. call[c] \in CallState /\ Held(call[c], maxQuantity)
    BY DEF TypeInv, TypeOK, CallsHold
  <2> QED
    BY <1>37, <2>1 DEF Held, CallState, UndoStart, Begin, Goto, End, Load, Read, Reopened
<1>38. ASSUME NEW c \in Call, Abort(c) PROVE HiresAssigned'
  BY <1>38 DEF Abort, Begin, Goto, End, Load, Read
<1>39. ASSUME ToggleDeleted PROVE HiresAssigned'
  BY <1>39 DEF ToggleDeleted, Begin, Goto, End, Load, Read, ScanEnds
<1>40. ASSUME TimePasses PROVE HiresAssigned'
  BY <1>40 DEF TimePasses, Begin, Goto, End, Load, Read, ScanEnds
<1>41. ASSUME ScanFind PROVE HiresAssigned'
  BY <1>41 DEF ScanFind, Begin, Goto, End, Load, Read, ScanEnds, Find
<1>42. ASSUME ExpireEmpty PROVE HiresAssigned'
  BY <1>42 DEF ExpireEmpty, Begin, Goto, End, Load, Read, ScanEnds
<1>43. ASSUME AutoStart PROVE HiresAssigned'
  BY <1>43 DEF AutoStart, Begin, Goto, End, Load, Read, ScanEnds
<1>44. ASSUME StopRecruiting PROVE HiresAssigned'
  BY <1>44 DEF StopRecruiting, Begin, Goto, End, Load, Read, RejectAll, ScanEnds
<1>45. ASSUME CloseAfterGrace PROVE HiresAssigned'
  BY <1>45 DEF CloseAfterGrace, Begin, Goto, End, Load, Read, CloseRecruitedOffer, Closed, Completed, ScanEnds
<1>46. ASSUME UNCHANGED vars PROVE HiresAssigned'
  BY <1>46 DEF vars
<1>47. ASSUME NEW c \in Call, ReadFinish(c) PROVE HiresAssigned'
  BY <1>47 DEF ReadFinish, Begin, Goto, End, Load, Read
<1> QED
  BY <1>1, <1>2, <1>3, <1>4, <1>5, <1>6, <1>7, <1>8, <1>9, <1>10, <1>11,
     <1>12, <1>13, <1>14, <1>15, <1>16, <1>17, <1>18, <1>19, <1>20, <1>21,
     <1>22, <1>23, <1>24, <1>25, <1>26, <1>27, <1>28, <1>29, <1>30, <1>31,
     <1>32, <1>33, <1>34, <1>35, <1>36, <1>37, <1>38, <1>39, <1>40, <1>41,
     <1>42, <1>43, <1>44, <1>45, <1>46, <1>47
     DEF Next, Loads, Writes, ScanWrite

\* Nobody begins a finish, no answer is taken back, and what the finishes took for
\* completed is still so.
LEMMA FinishKept ==
  ASSUME TypeInv, FinishHolds, annulled \subseteq annulled',
         \A d \in Call : call'[d].pc \in {"finish", "finishKept", "finishWrite"}
                          => call'[d] = call[d],
         \A b \in Application : app[b] \notin {"NONE", "PENDING"}
                                 => app'[b] \notin {"NONE", "PENDING"},
         \A d \in Call :
           call[d].pc = "finishKept" /\ call[d].app \notin annulled' /\ call[d].status # "END"
             /\ assigned[call[d].app] = "COMPLETED" => assigned'[call[d].app] = "COMPLETED"
  PROVE  FinishHolds'
<1> SUFFICES ASSUME NEW d \in Call, call'[d].pc \in {"finish", "finishKept", "finishWrite"}
             PROVE  /\ app'[call'[d].app] \notin {"NONE", "PENDING"}
                    /\ call'[d].pc = "finishKept" /\ call'[d].status # "END"
                         /\ call'[d].app \notin annulled'
                         => assigned'[call'[d].app] = "COMPLETED"
  BY DEF FinishHolds
<1>1. call'[d] = call[d]
  OBVIOUS
<1>2. call[d].app \in Application
  BY <1>1 DEF TypeInv, CallsHold, Held
<1>3. /\ app[call[d].app] \notin {"NONE", "PENDING"}
      /\ call[d].pc = "finishKept" /\ call[d].status # "END" /\ call[d].app \notin annulled
           => assigned[call[d].app] = "COMPLETED"
  BY <1>1 DEF FinishHolds
<1> QED
  BY <1>1, <1>2, <1>3

\* What a finish has read stays true, or the hire has been annulled.
LEMMA FinishStep ==
  ASSUME TypeInv, RatedInv, [Next]_vars
  PROVE  FinishHolds'
<1>1. ASSUME NEW a \in Application, Apply(a) PROVE FinishHolds'
  <2>1. annulled \subseteq annulled' /\ \A d \in Call : call'[d].pc \in {"finish", "finishKept", "finishWrite"}
                                                            => call'[d] = call[d]
    BY <1>1 DEF Apply, Begin, Goto, End, Load, Read, terms, rows, history, Idle, TypeInv, TypeOK
  <2>2. \A b \in Application : app[b] \notin {"NONE", "PENDING"} => app'[b] \notin {"NONE", "PENDING"}
    BY <1>1 DEF Apply, Begin, Goto, End, Load, Read, terms, rows, history, Idle, TypeInv, TypeOK
  <2>3. \A d \in Call :
          call[d].pc = "finishKept" /\ call[d].app \notin annulled' /\ call[d].status # "END"
            /\ assigned[call[d].app] = "COMPLETED" => assigned'[call[d].app] = "COMPLETED"
    BY <1>1 DEF Apply, Begin, Goto, End, Load, Read, terms, rows, history, Idle, TypeInv, TypeOK, CallsHold, Held
  <2> QED
    BY <2>1, <2>2, <2>3, FinishKept DEF RatedInv
<1>2. ASSUME NEW c \in Call, NEW a \in Application, LoadAccept(c, a) PROVE FinishHolds'
  <2>1. annulled \subseteq annulled' /\ \A d \in Call : call'[d].pc \in {"finish", "finishKept", "finishWrite"}
                                                            => call'[d] = call[d]
    BY <1>2 DEF LoadAccept, Begin, Goto, End, Load, Read, terms, rows, history, Idle, TypeInv, TypeOK
  <2>2. \A b \in Application : app[b] \notin {"NONE", "PENDING"} => app'[b] \notin {"NONE", "PENDING"}
    BY <1>2 DEF LoadAccept, Begin, Goto, End, Load, Read, terms, rows, history, Idle, TypeInv, TypeOK
  <2>3. \A d \in Call :
          call[d].pc = "finishKept" /\ call[d].app \notin annulled' /\ call[d].status # "END"
            /\ assigned[call[d].app] = "COMPLETED" => assigned'[call[d].app] = "COMPLETED"
    BY <1>2 DEF LoadAccept, Begin, Goto, End, Load, Read, terms, rows, history, Idle, TypeInv, TypeOK, CallsHold, Held
  <2> QED
    BY <2>1, <2>2, <2>3, FinishKept DEF RatedInv
<1>3. ASSUME NEW c \in Call, NEW a \in Application, LoadReject(c, a) PROVE FinishHolds'
  <2>1. annulled \subseteq annulled' /\ \A d \in Call : call'[d].pc \in {"finish", "finishKept", "finishWrite"}
                                                            => call'[d] = call[d]
    BY <1>3 DEF LoadReject, Begin, Goto, End, Load, Read, terms, rows, history, Idle, TypeInv, TypeOK
  <2>2. \A b \in Application : app[b] \notin {"NONE", "PENDING"} => app'[b] \notin {"NONE", "PENDING"}
    BY <1>3 DEF LoadReject, Begin, Goto, End, Load, Read, terms, rows, history, Idle, TypeInv, TypeOK
  <2>3. \A d \in Call :
          call[d].pc = "finishKept" /\ call[d].app \notin annulled' /\ call[d].status # "END"
            /\ assigned[call[d].app] = "COMPLETED" => assigned'[call[d].app] = "COMPLETED"
    BY <1>3 DEF LoadReject, Begin, Goto, End, Load, Read, terms, rows, history, Idle, TypeInv, TypeOK, CallsHold, Held
  <2> QED
    BY <2>1, <2>2, <2>3, FinishKept DEF RatedInv
<1>4. ASSUME NEW c \in Call, NEW a \in Application, LoadCancel(c, a) PROVE FinishHolds'
  <2>1. annulled \subseteq annulled' /\ \A d \in Call : call'[d].pc \in {"finish", "finishKept", "finishWrite"}
                                                            => call'[d] = call[d]
    BY <1>4 DEF LoadCancel, Begin, Goto, End, Load, Read, terms, rows, history, Idle, TypeInv, TypeOK
  <2>2. \A b \in Application : app[b] \notin {"NONE", "PENDING"} => app'[b] \notin {"NONE", "PENDING"}
    BY <1>4 DEF LoadCancel, Begin, Goto, End, Load, Read, terms, rows, history, Idle, TypeInv, TypeOK
  <2>3. \A d \in Call :
          call[d].pc = "finishKept" /\ call[d].app \notin annulled' /\ call[d].status # "END"
            /\ assigned[call[d].app] = "COMPLETED" => assigned'[call[d].app] = "COMPLETED"
    BY <1>4 DEF LoadCancel, Begin, Goto, End, Load, Read, terms, rows, history, Idle, TypeInv, TypeOK, CallsHold, Held
  <2> QED
    BY <2>1, <2>2, <2>3, FinishKept DEF RatedInv
<1>5. ASSUME NEW c \in Call, NEW a \in Application, LoadLapse(c, a) PROVE FinishHolds'
  <2>1. annulled \subseteq annulled' /\ \A d \in Call : call'[d].pc \in {"finish", "finishKept", "finishWrite"}
                                                            => call'[d] = call[d]
    BY <1>5 DEF LoadLapse, Begin, Goto, End, Load, Read, terms, rows, history, Idle, TypeInv, TypeOK
  <2>2. \A b \in Application : app[b] \notin {"NONE", "PENDING"} => app'[b] \notin {"NONE", "PENDING"}
    BY <1>5 DEF LoadLapse, Begin, Goto, End, Load, Read, terms, rows, history, Idle, TypeInv, TypeOK
  <2>3. \A d \in Call :
          call[d].pc = "finishKept" /\ call[d].app \notin annulled' /\ call[d].status # "END"
            /\ assigned[call[d].app] = "COMPLETED" => assigned'[call[d].app] = "COMPLETED"
    BY <1>5 DEF LoadLapse, Begin, Goto, End, Load, Read, terms, rows, history, Idle, TypeInv, TypeOK, CallsHold, Held
  <2> QED
    BY <2>1, <2>2, <2>3, FinishKept DEF RatedInv
<1>6. ASSUME NEW c \in Call, NEW a \in Application, LoadFinish(c, a) PROVE FinishHolds'
  BY <1>6 DEF LoadFinish, Begin, Goto, End, Load, Read, vars, TypeInv, TypeOK, RatedInv, KindHolds, FinishHolds, ApplicationStatus, Idle, terms, rows, history
<1>7. ASSUME NEW c \in Call, NEW a \in Application, LoadStart(c, a) PROVE FinishHolds'
  <2>1. annulled \subseteq annulled' /\ \A d \in Call : call'[d].pc \in {"finish", "finishKept", "finishWrite"}
                                                            => call'[d] = call[d]
    BY <1>7 DEF LoadStart, Begin, Goto, End, Load, Read, terms, rows, history, Idle, TypeInv, TypeOK
  <2>2. \A b \in Application : app[b] \notin {"NONE", "PENDING"} => app'[b] \notin {"NONE", "PENDING"}
    BY <1>7 DEF LoadStart, Begin, Goto, End, Load, Read, terms, rows, history, Idle, TypeInv, TypeOK
  <2>3. \A d \in Call :
          call[d].pc = "finishKept" /\ call[d].app \notin annulled' /\ call[d].status # "END"
            /\ assigned[call[d].app] = "COMPLETED" => assigned'[call[d].app] = "COMPLETED"
    BY <1>7 DEF LoadStart, Begin, Goto, End, Load, Read, terms, rows, history, Idle, TypeInv, TypeOK, CallsHold, Held
  <2> QED
    BY <2>1, <2>2, <2>3, FinishKept DEF RatedInv
<1>8. ASSUME NEW c \in Call, NEW S \in SUBSET Application, Unlock(c, S) PROVE FinishHolds'
  <2>1. annulled \subseteq annulled' /\ \A d \in Call : call'[d].pc \in {"finish", "finishKept", "finishWrite"}
                                                            => call'[d] = call[d]
    BY <1>8 DEF Unlock, Begin, Goto, End, Load, Read, terms, rows, history, Idle, TypeInv, TypeOK
  <2>2. \A b \in Application : app[b] \notin {"NONE", "PENDING"} => app'[b] \notin {"NONE", "PENDING"}
    BY <1>8 DEF Unlock, Begin, Goto, End, Load, Read, terms, rows, history, Idle, TypeInv, TypeOK
  <2>3. \A d \in Call :
          call[d].pc = "finishKept" /\ call[d].app \notin annulled' /\ call[d].status # "END"
            /\ assigned[call[d].app] = "COMPLETED" => assigned'[call[d].app] = "COMPLETED"
    BY <1>8 DEF Unlock, Begin, Goto, End, Load, Read, terms, rows, history, Idle, TypeInv, TypeOK, CallsHold, Held
  <2> QED
    BY <2>1, <2>2, <2>3, FinishKept DEF RatedInv
<1>9. ASSUME NEW c \in Call, NEW s \in ForcedStatuses, LoadAdmin(c, s) PROVE FinishHolds'
  <2>1. annulled \subseteq annulled' /\ \A d \in Call : call'[d].pc \in {"finish", "finishKept", "finishWrite"}
                                                            => call'[d] = call[d]
    BY <1>9 DEF LoadAdmin, Begin, Goto, End, Load, Read, terms, rows, history, Idle, TypeInv, TypeOK
  <2>2. \A b \in Application : app[b] \notin {"NONE", "PENDING"} => app'[b] \notin {"NONE", "PENDING"}
    BY <1>9 DEF LoadAdmin, Begin, Goto, End, Load, Read, terms, rows, history, Idle, TypeInv, TypeOK
  <2>3. \A d \in Call :
          call[d].pc = "finishKept" /\ call[d].app \notin annulled' /\ call[d].status # "END"
            /\ assigned[call[d].app] = "COMPLETED" => assigned'[call[d].app] = "COMPLETED"
    BY <1>9 DEF LoadAdmin, Begin, Goto, End, Load, Read, terms, rows, history, Idle, TypeInv, TypeOK, CallsHold, Held
  <2> QED
    BY <2>1, <2>2, <2>3, FinishKept DEF RatedInv
<1>10. ASSUME NEW c \in Call, NEW q \in Quantities, LoadEdit(c, q) PROVE FinishHolds'
  <2>1. annulled \subseteq annulled' /\ \A d \in Call : call'[d].pc \in {"finish", "finishKept", "finishWrite"}
                                                            => call'[d] = call[d]
    BY <1>10 DEF LoadEdit, Begin, Goto, End, Load, Read, terms, rows, history, Idle, TypeInv, TypeOK
  <2>2. \A b \in Application : app[b] \notin {"NONE", "PENDING"} => app'[b] \notin {"NONE", "PENDING"}
    BY <1>10 DEF LoadEdit, Begin, Goto, End, Load, Read, terms, rows, history, Idle, TypeInv, TypeOK
  <2>3. \A d \in Call :
          call[d].pc = "finishKept" /\ call[d].app \notin annulled' /\ call[d].status # "END"
            /\ assigned[call[d].app] = "COMPLETED" => assigned'[call[d].app] = "COMPLETED"
    BY <1>10 DEF LoadEdit, Begin, Goto, End, Load, Read, terms, rows, history, Idle, TypeInv, TypeOK, CallsHold, Held
  <2> QED
    BY <2>1, <2>2, <2>3, FinishKept DEF RatedInv
<1>11. ASSUME NEW c \in Call, NEW q \in Quantities, LoadEditByAdmin(c, q) PROVE FinishHolds'
  <2>1. annulled \subseteq annulled' /\ \A d \in Call : call'[d].pc \in {"finish", "finishKept", "finishWrite"}
                                                            => call'[d] = call[d]
    BY <1>11 DEF LoadEditByAdmin, Begin, Goto, End, Load, Read, terms, rows, history, Idle, TypeInv, TypeOK
  <2>2. \A b \in Application : app[b] \notin {"NONE", "PENDING"} => app'[b] \notin {"NONE", "PENDING"}
    BY <1>11 DEF LoadEditByAdmin, Begin, Goto, End, Load, Read, terms, rows, history, Idle, TypeInv, TypeOK
  <2>3. \A d \in Call :
          call[d].pc = "finishKept" /\ call[d].app \notin annulled' /\ call[d].status # "END"
            /\ assigned[call[d].app] = "COMPLETED" => assigned'[call[d].app] = "COMPLETED"
    BY <1>11 DEF LoadEditByAdmin, Begin, Goto, End, Load, Read, terms, rows, history, Idle, TypeInv, TypeOK, CallsHold, Held
  <2> QED
    BY <2>1, <2>2, <2>3, FinishKept DEF RatedInv
<1>12. ASSUME NEW c \in Call, LoadConfirm(c) PROVE FinishHolds'
  <2>1. annulled \subseteq annulled' /\ \A d \in Call : call'[d].pc \in {"finish", "finishKept", "finishWrite"}
                                                            => call'[d] = call[d]
    BY <1>12 DEF LoadConfirm, Begin, Goto, End, Load, Read, terms, rows, history, Idle, TypeInv, TypeOK
  <2>2. \A b \in Application : app[b] \notin {"NONE", "PENDING"} => app'[b] \notin {"NONE", "PENDING"}
    BY <1>12 DEF LoadConfirm, Begin, Goto, End, Load, Read, terms, rows, history, Idle, TypeInv, TypeOK
  <2>3. \A d \in Call :
          call[d].pc = "finishKept" /\ call[d].app \notin annulled' /\ call[d].status # "END"
            /\ assigned[call[d].app] = "COMPLETED" => assigned'[call[d].app] = "COMPLETED"
    BY <1>12 DEF LoadConfirm, Begin, Goto, End, Load, Read, terms, rows, history, Idle, TypeInv, TypeOK, CallsHold, Held
  <2> QED
    BY <2>1, <2>2, <2>3, FinishKept DEF RatedInv
<1>13. ASSUME NEW c \in Call, LoadClose(c) PROVE FinishHolds'
  <2>1. annulled \subseteq annulled' /\ \A d \in Call : call'[d].pc \in {"finish", "finishKept", "finishWrite"}
                                                            => call'[d] = call[d]
    BY <1>13 DEF LoadClose, Begin, Goto, End, Load, Read, terms, rows, history, Idle, TypeInv, TypeOK
  <2>2. \A b \in Application : app[b] \notin {"NONE", "PENDING"} => app'[b] \notin {"NONE", "PENDING"}
    BY <1>13 DEF LoadClose, Begin, Goto, End, Load, Read, terms, rows, history, Idle, TypeInv, TypeOK
  <2>3. \A d \in Call :
          call[d].pc = "finishKept" /\ call[d].app \notin annulled' /\ call[d].status # "END"
            /\ assigned[call[d].app] = "COMPLETED" => assigned'[call[d].app] = "COMPLETED"
    BY <1>13 DEF LoadClose, Begin, Goto, End, Load, Read, terms, rows, history, Idle, TypeInv, TypeOK, CallsHold, Held
  <2> QED
    BY <2>1, <2>2, <2>3, FinishKept DEF RatedInv
<1>14. ASSUME NEW c \in Call, LoadDelete(c) PROVE FinishHolds'
  <2>1. annulled \subseteq annulled' /\ \A d \in Call : call'[d].pc \in {"finish", "finishKept", "finishWrite"}
                                                            => call'[d] = call[d]
    BY <1>14 DEF LoadDelete, Begin, Goto, End, Load, Read, terms, rows, history, Idle, TypeInv, TypeOK
  <2>2. \A b \in Application : app[b] \notin {"NONE", "PENDING"} => app'[b] \notin {"NONE", "PENDING"}
    BY <1>14 DEF LoadDelete, Begin, Goto, End, Load, Read, terms, rows, history, Idle, TypeInv, TypeOK
  <2>3. \A d \in Call :
          call[d].pc = "finishKept" /\ call[d].app \notin annulled' /\ call[d].status # "END"
            /\ assigned[call[d].app] = "COMPLETED" => assigned'[call[d].app] = "COMPLETED"
    BY <1>14 DEF LoadDelete, Begin, Goto, End, Load, Read, terms, rows, history, Idle, TypeInv, TypeOK, CallsHold, Held
  <2> QED
    BY <2>1, <2>2, <2>3, FinishKept DEF RatedInv
<1>15. ASSUME NEW c \in Call, LoadRepublish(c) PROVE FinishHolds'
  <2>1. annulled \subseteq annulled' /\ \A d \in Call : call'[d].pc \in {"finish", "finishKept", "finishWrite"}
                                                            => call'[d] = call[d]
    BY <1>15 DEF LoadRepublish, Begin, Goto, End, Load, Read, terms, rows, history, Idle, TypeInv, TypeOK
  <2>2. \A b \in Application : app[b] \notin {"NONE", "PENDING"} => app'[b] \notin {"NONE", "PENDING"}
    BY <1>15 DEF LoadRepublish, Begin, Goto, End, Load, Read, terms, rows, history, Idle, TypeInv, TypeOK
  <2>3. \A d \in Call :
          call[d].pc = "finishKept" /\ call[d].app \notin annulled' /\ call[d].status # "END"
            /\ assigned[call[d].app] = "COMPLETED" => assigned'[call[d].app] = "COMPLETED"
    BY <1>15 DEF LoadRepublish, Begin, Goto, End, Load, Read, terms, rows, history, Idle, TypeInv, TypeOK, CallsHold, Held
  <2> QED
    BY <2>1, <2>2, <2>3, FinishKept DEF RatedInv
<1>16. ASSUME NEW c \in Call, Archive(c) PROVE FinishHolds'
  <2>1. annulled \subseteq annulled' /\ \A d \in Call : call'[d].pc \in {"finish", "finishKept", "finishWrite"}
                                                            => call'[d] = call[d]
    BY <1>16 DEF Archive, Begin, Goto, End, Load, Read, terms, rows, history, Idle, TypeInv, TypeOK
  <2>2. \A b \in Application : app[b] \notin {"NONE", "PENDING"} => app'[b] \notin {"NONE", "PENDING"}
    BY <1>16 DEF Archive, Begin, Goto, End, Load, Read, terms, rows, history, Idle, TypeInv, TypeOK
  <2>3. \A d \in Call :
          call[d].pc = "finishKept" /\ call[d].app \notin annulled' /\ call[d].status # "END"
            /\ assigned[call[d].app] = "COMPLETED" => assigned'[call[d].app] = "COMPLETED"
    BY <1>16 DEF Archive, Begin, Goto, End, Load, Read, terms, rows, history, Idle, TypeInv, TypeOK, CallsHold, Held
  <2> QED
    BY <2>1, <2>2, <2>3, FinishKept DEF RatedInv
<1>17. ASSUME NEW c \in Call, Accept(c) PROVE FinishHolds'
  <2>1. annulled \subseteq annulled' /\ \A d \in Call : call'[d].pc \in {"finish", "finishKept", "finishWrite"}
                                                            => call'[d] = call[d]
    BY <1>17 DEF Accept, Begin, Goto, End, Load, Read, Taken, terms, rows, history, Idle, TypeInv, TypeOK
  <2>2. \A b \in Application : app[b] \notin {"NONE", "PENDING"} => app'[b] \notin {"NONE", "PENDING"}
    BY <1>17 DEF Accept, Begin, Goto, End, Load, Read, Taken, terms, rows, history, Idle, TypeInv, TypeOK
  <2>3. \A d \in Call :
          call[d].pc = "finishKept" /\ call[d].app \notin annulled' /\ call[d].status # "END"
            /\ assigned[call[d].app] = "COMPLETED" => assigned'[call[d].app] = "COMPLETED"
    BY <1>17 DEF Accept, Begin, Goto, End, Load, Read, Taken, terms, rows, history, Idle, TypeInv, TypeOK, CallsHold, Held, FinishHolds, RatedInv
  <2> QED
    BY <2>1, <2>2, <2>3, FinishKept DEF RatedInv
<1>18. ASSUME NEW c \in Call, Reject(c) PROVE FinishHolds'
  <2>1. annulled \subseteq annulled' /\ \A d \in Call : call'[d].pc \in {"finish", "finishKept", "finishWrite"}
                                                            => call'[d] = call[d]
    BY <1>18 DEF Reject, Begin, Goto, End, Load, Read, RejectAll, terms, rows, history, Idle, TypeInv, TypeOK
  <2>2. \A b \in Application : app[b] \notin {"NONE", "PENDING"} => app'[b] \notin {"NONE", "PENDING"}
    BY <1>18 DEF Reject, Begin, Goto, End, Load, Read, RejectAll, terms, rows, history, Idle, TypeInv, TypeOK
  <2>3. \A d \in Call :
          call[d].pc = "finishKept" /\ call[d].app \notin annulled' /\ call[d].status # "END"
            /\ assigned[call[d].app] = "COMPLETED" => assigned'[call[d].app] = "COMPLETED"
    BY <1>18 DEF Reject, Begin, Goto, End, Load, Read, RejectAll, terms, rows, history, Idle, TypeInv, TypeOK, CallsHold, Held
  <2> QED
    BY <2>1, <2>2, <2>3, FinishKept DEF RatedInv
<1>19. ASSUME NEW c \in Call, Withdraw(c) PROVE FinishHolds'
  <2>1. annulled \subseteq annulled' /\ \A d \in Call : call'[d].pc \in {"finish", "finishKept", "finishWrite"}
                                                            => call'[d] = call[d]
    BY <1>19 DEF Withdraw, Begin, Goto, End, Load, Read, terms, rows, history, Idle, TypeInv, TypeOK
  <2>2. \A b \in Application : app[b] \notin {"NONE", "PENDING"} => app'[b] \notin {"NONE", "PENDING"}
    BY <1>19 DEF Withdraw, Begin, Goto, End, Load, Read, terms, rows, history, Idle, TypeInv, TypeOK
  <2>3. \A d \in Call :
          call[d].pc = "finishKept" /\ call[d].app \notin annulled' /\ call[d].status # "END"
            /\ assigned[call[d].app] = "COMPLETED" => assigned'[call[d].app] = "COMPLETED"
    BY <1>19 DEF Withdraw, Begin, Goto, End, Load, Read, terms, rows, history, Idle, TypeInv, TypeOK, CallsHold, Held
  <2> QED
    BY <2>1, <2>2, <2>3, FinishKept DEF RatedInv
<1>20. ASSUME NEW c \in Call, LockCancel(c) PROVE FinishHolds'
  <2>1. annulled \subseteq annulled' /\ \A d \in Call : call'[d].pc \in {"finish", "finishKept", "finishWrite"}
                                                            => call'[d] = call[d]
    BY <1>20 DEF LockCancel, Begin, Goto, End, Load, Read, terms, rows, history, Idle, TypeInv, TypeOK, CallState
  <2>2. \A b \in Application : app[b] \notin {"NONE", "PENDING"} => app'[b] \notin {"NONE", "PENDING"}
    BY <1>20 DEF LockCancel, Begin, Goto, End, Load, Read, terms, rows, history, Idle, TypeInv, TypeOK
  <2>3. \A d \in Call :
          call[d].pc = "finishKept" /\ call[d].app \notin annulled' /\ call[d].status # "END"
            /\ assigned[call[d].app] = "COMPLETED" => assigned'[call[d].app] = "COMPLETED"
    BY <1>20 DEF LockCancel, Begin, Goto, End, Load, Read, terms, rows, history, Idle, TypeInv, TypeOK, CallsHold, Held
  <2> QED
    BY <2>1, <2>2, <2>3, FinishKept DEF RatedInv
<1>21. ASSUME NEW c \in Call, CommitCancel(c) PROVE FinishHolds'
  <2>1. annulled \subseteq annulled' /\ \A d \in Call : call'[d].pc \in {"finish", "finishKept", "finishWrite"}
                                                            => call'[d] = call[d]
    BY <1>21 DEF CommitCancel, CancelHire, Begin, Goto, End, Load, Read, Reopened, terms, rows, history, Idle, TypeInv, TypeOK
  <2>2. \A b \in Application : app[b] \notin {"NONE", "PENDING"} => app'[b] \notin {"NONE", "PENDING"}
    BY <1>21 DEF CommitCancel, CancelHire, Begin, Goto, End, Load, Read, Reopened, terms, rows, history, Idle, TypeInv, TypeOK
  <2>3. \A d \in Call :
          call[d].pc = "finishKept" /\ call[d].app \notin annulled' /\ call[d].status # "END"
            /\ assigned[call[d].app] = "COMPLETED" => assigned'[call[d].app] = "COMPLETED"
    BY <1>21 DEF CommitCancel, CancelHire, Begin, Goto, End, Load, Read, Reopened, terms, rows, history, Idle, TypeInv, TypeOK, CallsHold, Held, TakenForCompleted
  <2> QED
    BY <2>1, <2>2, <2>3, FinishKept DEF RatedInv
<1>22. ASSUME NEW c \in Call, Lapse(c) PROVE FinishHolds'
  <2>1. annulled \subseteq annulled' /\ \A d \in Call : call'[d].pc \in {"finish", "finishKept", "finishWrite"}
                                                            => call'[d] = call[d]
    BY <1>22 DEF Lapse, CancelHire, Begin, Goto, End, Load, Read, terms, rows, history, Idle, TypeInv, TypeOK
  <2>2. \A b \in Application : app[b] \notin {"NONE", "PENDING"} => app'[b] \notin {"NONE", "PENDING"}
    BY <1>22 DEF Lapse, CancelHire, Begin, Goto, End, Load, Read, terms, rows, history, Idle, TypeInv, TypeOK
  <2>3. \A d \in Call :
          call[d].pc = "finishKept" /\ call[d].app \notin annulled' /\ call[d].status # "END"
            /\ assigned[call[d].app] = "COMPLETED" => assigned'[call[d].app] = "COMPLETED"
    BY <1>22 DEF Lapse, CancelHire, Begin, Goto, End, Load, Read, terms, rows, history, Idle, TypeInv, TypeOK, CallsHold, Held, TakenForCompleted
  <2> QED
    BY <2>1, <2>2, <2>3, FinishKept DEF RatedInv
<1>23. ASSUME NEW c \in Call, RejectLeftovers(c) PROVE FinishHolds'
  <2>1. annulled \subseteq annulled' /\ \A d \in Call : call'[d].pc \in {"finish", "finishKept", "finishWrite"}
                                                            => call'[d] = call[d]
    BY <1>23 DEF RejectLeftovers, Begin, Goto, End, Load, Read, RejectAll, terms, rows, history, Idle, TypeInv, TypeOK
  <2>2. \A b \in Application : app[b] \notin {"NONE", "PENDING"} => app'[b] \notin {"NONE", "PENDING"}
    BY <1>23 DEF RejectLeftovers, Begin, Goto, End, Load, Read, RejectAll, terms, rows, history, Idle, TypeInv, TypeOK
  <2>3. \A d \in Call :
          call[d].pc = "finishKept" /\ call[d].app \notin annulled' /\ call[d].status # "END"
            /\ assigned[call[d].app] = "COMPLETED" => assigned'[call[d].app] = "COMPLETED"
    BY <1>23 DEF RejectLeftovers, Begin, Goto, End, Load, Read, RejectAll, terms, rows, history, Idle, TypeInv, TypeOK, CallsHold, Held
  <2> QED
    BY <2>1, <2>2, <2>3, FinishKept DEF RatedInv
<1>24. ASSUME NEW c \in Call, Confirm(c) PROVE FinishHolds'
  <2>1. annulled \subseteq annulled' /\ \A d \in Call : call'[d].pc \in {"finish", "finishKept", "finishWrite"}
                                                            => call'[d] = call[d]
    BY <1>24 DEF Confirm, Begin, Goto, End, Load, Read, CloseRecruitedOffer, Closed, Completed, terms, rows, history, Idle, TypeInv, TypeOK
  <2>2. \A b \in Application : app[b] \notin {"NONE", "PENDING"} => app'[b] \notin {"NONE", "PENDING"}
    BY <1>24 DEF Confirm, Begin, Goto, End, Load, Read, CloseRecruitedOffer, Closed, Completed, terms, rows, history, Idle, TypeInv, TypeOK
  <2>3. \A d \in Call :
          call[d].pc = "finishKept" /\ call[d].app \notin annulled' /\ call[d].status # "END"
            /\ assigned[call[d].app] = "COMPLETED" => assigned'[call[d].app] = "COMPLETED"
    BY <1>24 DEF Confirm, Begin, Goto, End, Load, Read, CloseRecruitedOffer, Closed, Completed, terms, rows, history, Idle, TypeInv, TypeOK, CallsHold, Held
  <2> QED
    BY <2>1, <2>2, <2>3, FinishKept DEF RatedInv
<1>25. ASSUME NEW c \in Call, Finish(c) PROVE FinishHolds'
  <2>1. annulled \subseteq annulled' /\ \A d \in Call : call'[d].pc \in {"finish", "finishKept", "finishWrite"}
                                                            => call'[d] = call[d]
    BY <1>25 DEF Finish, Begin, Goto, End, Load, Read, terms, rows, history, Idle, TypeInv, TypeOK
  <2>2. \A b \in Application : app[b] \notin {"NONE", "PENDING"} => app'[b] \notin {"NONE", "PENDING"}
    BY <1>25 DEF Finish, Begin, Goto, End, Load, Read, terms, rows, history, Idle, TypeInv, TypeOK
  <2>3. \A d \in Call :
          call[d].pc = "finishKept" /\ call[d].app \notin annulled' /\ call[d].status # "END"
            /\ assigned[call[d].app] = "COMPLETED" => assigned'[call[d].app] = "COMPLETED"
    BY <1>25 DEF Finish, Begin, Goto, End, Load, Read, terms, rows, history, Idle, TypeInv, TypeOK, CallsHold, Held
  <2> QED
    BY <2>1, <2>2, <2>3, FinishKept DEF RatedInv
<1>26. ASSUME NEW c \in Call, ReadClose(c) PROVE FinishHolds'
  <2>1. annulled \subseteq annulled' /\ \A d \in Call : call'[d].pc \in {"finish", "finishKept", "finishWrite"}
                                                            => call'[d] = call[d]
    BY <1>26 DEF ReadClose, Begin, Goto, End, Load, Read, terms, rows, history, Idle, TypeInv, TypeOK
  <2>2. \A b \in Application : app[b] \notin {"NONE", "PENDING"} => app'[b] \notin {"NONE", "PENDING"}
    BY <1>26 DEF ReadClose, Begin, Goto, End, Load, Read, terms, rows, history, Idle, TypeInv, TypeOK
  <2>3. \A d \in Call :
          call[d].pc = "finishKept" /\ call[d].app \notin annulled' /\ call[d].status # "END"
            /\ assigned[call[d].app] = "COMPLETED" => assigned'[call[d].app] = "COMPLETED"
    BY <1>26 DEF ReadClose, Begin, Goto, End, Load, Read, terms, rows, history, Idle, TypeInv, TypeOK, CallsHold, Held
  <2> QED
    BY <2>1, <2>2, <2>3, FinishKept DEF RatedInv
<1>27. ASSUME NEW c \in Call, WriteClose(c) PROVE FinishHolds'
  <2>1. annulled \subseteq annulled' /\ \A d \in Call : call'[d].pc \in {"finish", "finishKept", "finishWrite"}
                                                            => call'[d] = call[d]
    BY <1>27 DEF WriteClose, Begin, Goto, End, Load, Read, RejectAll, terms, rows, history, Idle, TypeInv, TypeOK
  <2>2. \A b \in Application : app[b] \notin {"NONE", "PENDING"} => app'[b] \notin {"NONE", "PENDING"}
    BY <1>27 DEF WriteClose, Begin, Goto, End, Load, Read, RejectAll, terms, rows, history, Idle, TypeInv, TypeOK
  <2>3. \A d \in Call :
          call[d].pc = "finishKept" /\ call[d].app \notin annulled' /\ call[d].status # "END"
            /\ assigned[call[d].app] = "COMPLETED" => assigned'[call[d].app] = "COMPLETED"
    BY <1>27 DEF WriteClose, Begin, Goto, End, Load, Read, RejectAll, terms, rows, history, Idle, TypeInv, TypeOK, CallsHold, Held
  <2> QED
    BY <2>1, <2>2, <2>3, FinishKept DEF RatedInv
<1>28. ASSUME NEW c \in Call, ReadDelete(c) PROVE FinishHolds'
  <2>1. annulled \subseteq annulled' /\ \A d \in Call : call'[d].pc \in {"finish", "finishKept", "finishWrite"}
                                                            => call'[d] = call[d]
    BY <1>28 DEF ReadDelete, Begin, Goto, End, Load, Read, terms, rows, history, Idle, TypeInv, TypeOK
  <2>2. \A b \in Application : app[b] \notin {"NONE", "PENDING"} => app'[b] \notin {"NONE", "PENDING"}
    BY <1>28 DEF ReadDelete, Begin, Goto, End, Load, Read, terms, rows, history, Idle, TypeInv, TypeOK
  <2>3. \A d \in Call :
          call[d].pc = "finishKept" /\ call[d].app \notin annulled' /\ call[d].status # "END"
            /\ assigned[call[d].app] = "COMPLETED" => assigned'[call[d].app] = "COMPLETED"
    BY <1>28 DEF ReadDelete, Begin, Goto, End, Load, Read, terms, rows, history, Idle, TypeInv, TypeOK, CallsHold, Held
  <2> QED
    BY <2>1, <2>2, <2>3, FinishKept DEF RatedInv
<1>29. ASSUME NEW c \in Call, WriteDelete(c) PROVE FinishHolds'
  <2>1. annulled \subseteq annulled' /\ \A d \in Call : call'[d].pc \in {"finish", "finishKept", "finishWrite"}
                                                            => call'[d] = call[d]
    BY <1>29 DEF WriteDelete, Begin, Goto, End, Load, Read, RejectAll, terms, rows, history, Idle, TypeInv, TypeOK
  <2>2. \A b \in Application : app[b] \notin {"NONE", "PENDING"} => app'[b] \notin {"NONE", "PENDING"}
    BY <1>29 DEF WriteDelete, Begin, Goto, End, Load, Read, RejectAll, terms, rows, history, Idle, TypeInv, TypeOK
  <2>3. \A d \in Call :
          call[d].pc = "finishKept" /\ call[d].app \notin annulled' /\ call[d].status # "END"
            /\ assigned[call[d].app] = "COMPLETED" => assigned'[call[d].app] = "COMPLETED"
    BY <1>29 DEF WriteDelete, Begin, Goto, End, Load, Read, RejectAll, terms, rows, history, Idle, TypeInv, TypeOK, CallsHold, Held
  <2> QED
    BY <2>1, <2>2, <2>3, FinishKept DEF RatedInv
<1>30. ASSUME NEW c \in Call, WriteAdmin(c) PROVE FinishHolds'
  <2>1. annulled \subseteq annulled' /\ \A d \in Call : call'[d].pc \in {"finish", "finishKept", "finishWrite"}
                                                            => call'[d] = call[d]
    <3>1. annulled' = annulled
      BY <1>30 DEF WriteAdmin
    <3>2. PICK r : call' = [call EXCEPT ![c] = r] /\ r.pc \in {"idle", "rejectFind"}
      <4>1. CASE offer' \in Terminal
        <5>1. call' = [call EXCEPT ![c] = [Idle EXCEPT !.pc = "rejectFind", !.which = Waiting]]
          BY <1>30, <4>1 DEF WriteAdmin, Goto
        <5>2. [Idle EXCEPT !.pc = "rejectFind", !.which = Waiting].pc \in {"idle", "rejectFind"}
          BY DEF Idle
        <5> QED
          BY <5>1, <5>2
      <4>2. CASE offer' \notin Terminal
        <5>1. call' = [call EXCEPT ![c] = Idle]
          BY <1>30, <4>2 DEF WriteAdmin, End, Goto
        <5>2. Idle.pc \in {"idle", "rejectFind"}
          BY DEF Idle
        <5> QED
          BY <5>1, <5>2
      <4> QED
        BY <4>1, <4>2
    <3> QED
      BY <3>1, <3>2 DEF TypeInv, TypeOK
  <2>2. \A b \in Application : app[b] \notin {"NONE", "PENDING"} => app'[b] \notin {"NONE", "PENDING"}
    BY <1>30 DEF WriteAdmin, Begin, Goto, End, Load, Read, terms, rows, history, Idle, TypeInv, TypeOK
  <2>3. \A d \in Call :
          call[d].pc = "finishKept" /\ call[d].app \notin annulled' /\ call[d].status # "END"
            /\ assigned[call[d].app] = "COMPLETED" => assigned'[call[d].app] = "COMPLETED"
    BY <1>30 DEF WriteAdmin, Begin, Goto, End, Load, Read, terms, rows, history, Idle, TypeInv, TypeOK, CallsHold, Held
  <2> QED
    BY <2>1, <2>2, <2>3, FinishKept DEF RatedInv
<1>31. ASSUME NEW c \in Call, FindWaiting(c) PROVE FinishHolds'
  <2>1. annulled \subseteq annulled' /\ \A d \in Call : call'[d].pc \in {"finish", "finishKept", "finishWrite"}
                                                            => call'[d] = call[d]
    BY <1>31 DEF FindWaiting, Begin, Goto, End, Load, Read, terms, rows, history, Idle, TypeInv, TypeOK
  <2>2. \A b \in Application : app[b] \notin {"NONE", "PENDING"} => app'[b] \notin {"NONE", "PENDING"}
    BY <1>31 DEF FindWaiting, Begin, Goto, End, Load, Read, terms, rows, history, Idle, TypeInv, TypeOK
  <2>3. \A d \in Call :
          call[d].pc = "finishKept" /\ call[d].app \notin annulled' /\ call[d].status # "END"
            /\ assigned[call[d].app] = "COMPLETED" => assigned'[call[d].app] = "COMPLETED"
    BY <1>31 DEF FindWaiting, Begin, Goto, End, Load, Read, terms, rows, history, Idle, TypeInv, TypeOK, CallsHold, Held
  <2> QED
    BY <2>1, <2>2, <2>3, FinishKept DEF RatedInv
<1>32. ASSUME NEW c \in Call, RejectWaiting(c) PROVE FinishHolds'
  <2>1. annulled \subseteq annulled' /\ \A d \in Call : call'[d].pc \in {"finish", "finishKept", "finishWrite"}
                                                            => call'[d] = call[d]
    BY <1>32 DEF RejectWaiting, Begin, Goto, End, Load, Read, RejectAll, terms, rows, history, Idle, TypeInv, TypeOK
  <2>2. \A b \in Application : app[b] \notin {"NONE", "PENDING"} => app'[b] \notin {"NONE", "PENDING"}
    BY <1>32 DEF RejectWaiting, Begin, Goto, End, Load, Read, RejectAll, terms, rows, history, Idle, TypeInv, TypeOK
  <2>3. \A d \in Call :
          call[d].pc = "finishKept" /\ call[d].app \notin annulled' /\ call[d].status # "END"
            /\ assigned[call[d].app] = "COMPLETED" => assigned'[call[d].app] = "COMPLETED"
    BY <1>32 DEF RejectWaiting, Begin, Goto, End, Load, Read, RejectAll, terms, rows, history, Idle, TypeInv, TypeOK, CallsHold, Held
  <2> QED
    BY <2>1, <2>2, <2>3, FinishKept DEF RatedInv
<1>33. ASSUME NEW c \in Call, ReadEdit(c) PROVE FinishHolds'
  <2>1. annulled \subseteq annulled' /\ \A d \in Call : call'[d].pc \in {"finish", "finishKept", "finishWrite"}
                                                            => call'[d] = call[d]
    BY <1>33 DEF ReadEdit, Begin, Goto, End, Load, Read, terms, rows, history, Idle, TypeInv, TypeOK
  <2>2. \A b \in Application : app[b] \notin {"NONE", "PENDING"} => app'[b] \notin {"NONE", "PENDING"}
    BY <1>33 DEF ReadEdit, Begin, Goto, End, Load, Read, terms, rows, history, Idle, TypeInv, TypeOK
  <2>3. \A d \in Call :
          call[d].pc = "finishKept" /\ call[d].app \notin annulled' /\ call[d].status # "END"
            /\ assigned[call[d].app] = "COMPLETED" => assigned'[call[d].app] = "COMPLETED"
    BY <1>33 DEF ReadEdit, Begin, Goto, End, Load, Read, terms, rows, history, Idle, TypeInv, TypeOK, CallsHold, Held
  <2> QED
    BY <2>1, <2>2, <2>3, FinishKept DEF RatedInv
<1>34. ASSUME NEW c \in Call, WriteEdit(c) PROVE FinishHolds'
  <2>1. annulled \subseteq annulled' /\ \A d \in Call : call'[d].pc \in {"finish", "finishKept", "finishWrite"}
                                                            => call'[d] = call[d]
    BY <1>34 DEF WriteEdit, Begin, Goto, End, Load, Read, terms, rows, history, Idle, TypeInv, TypeOK
  <2>2. \A b \in Application : app[b] \notin {"NONE", "PENDING"} => app'[b] \notin {"NONE", "PENDING"}
    BY <1>34 DEF WriteEdit, Begin, Goto, End, Load, Read, terms, rows, history, Idle, TypeInv, TypeOK
  <2>3. \A d \in Call :
          call[d].pc = "finishKept" /\ call[d].app \notin annulled' /\ call[d].status # "END"
            /\ assigned[call[d].app] = "COMPLETED" => assigned'[call[d].app] = "COMPLETED"
    BY <1>34 DEF WriteEdit, Begin, Goto, End, Load, Read, terms, rows, history, Idle, TypeInv, TypeOK, CallsHold, Held
  <2> QED
    BY <2>1, <2>2, <2>3, FinishKept DEF RatedInv
<1>35. ASSUME NEW c \in Call, Republish(c) PROVE FinishHolds'
  <2>1. annulled \subseteq annulled' /\ \A d \in Call : call'[d].pc \in {"finish", "finishKept", "finishWrite"}
                                                            => call'[d] = call[d]
    BY <1>35 DEF Republish, Begin, Goto, End, Load, Read, terms, rows, history, Idle, TypeInv, TypeOK
  <2>2. \A b \in Application : app[b] \notin {"NONE", "PENDING"} => app'[b] \notin {"NONE", "PENDING"}
    BY <1>35 DEF Republish, Begin, Goto, End, Load, Read, terms, rows, history, Idle, TypeInv, TypeOK
  <2>3. \A d \in Call :
          call[d].pc = "finishKept" /\ call[d].app \notin annulled' /\ call[d].status # "END"
            /\ assigned[call[d].app] = "COMPLETED" => assigned'[call[d].app] = "COMPLETED"
    BY <1>35 DEF Republish, Begin, Goto, End, Load, Read, terms, rows, history, Idle, TypeInv, TypeOK, CallsHold, Held
  <2> QED
    BY <2>1, <2>2, <2>3, FinishKept DEF RatedInv
<1>36. ASSUME NEW c \in Call, Start(c) PROVE FinishHolds'
  <2>1. annulled \subseteq annulled' /\ \A d \in Call : call'[d].pc \in {"finish", "finishKept", "finishWrite"}
                                                            => call'[d] = call[d]
    BY <1>36 DEF Start, Begin, Goto, End, Load, Read, terms, rows, history, Idle, TypeInv, TypeOK
  <2>2. \A b \in Application : app[b] \notin {"NONE", "PENDING"} => app'[b] \notin {"NONE", "PENDING"}
    BY <1>36 DEF Start, Begin, Goto, End, Load, Read, terms, rows, history, Idle, TypeInv, TypeOK
  <2>3. \A d \in Call :
          call[d].pc = "finishKept" /\ call[d].app \notin annulled' /\ call[d].status # "END"
            /\ assigned[call[d].app] = "COMPLETED" => assigned'[call[d].app] = "COMPLETED"
    BY <1>36 DEF Start, Begin, Goto, End, Load, Read, terms, rows, history, Idle, TypeInv, TypeOK, CallsHold, Held
  <2> QED
    BY <2>1, <2>2, <2>3, FinishKept DEF RatedInv
<1>37. ASSUME NEW c \in Call, UndoStart(c) PROVE FinishHolds'
  <2>1. annulled \subseteq annulled' /\ \A d \in Call : call'[d].pc \in {"finish", "finishKept", "finishWrite"}
                                                            => call'[d] = call[d]
    BY <1>37 DEF UndoStart, Begin, Goto, End, Load, Read, Reopened, terms, rows, history, Idle, TypeInv, TypeOK
  <2>2. \A b \in Application : app[b] \notin {"NONE", "PENDING"} => app'[b] \notin {"NONE", "PENDING"}
    BY <1>37 DEF UndoStart, Begin, Goto, End, Load, Read, Reopened, terms, rows, history, Idle, TypeInv, TypeOK
  <2>3. \A d \in Call :
          call[d].pc = "finishKept" /\ call[d].app \notin annulled' /\ call[d].status # "END"
            /\ assigned[call[d].app] = "COMPLETED" => assigned'[call[d].app] = "COMPLETED"
    BY <1>37 DEF UndoStart, Begin, Goto, End, Load, Read, Reopened, terms, rows, history, Idle, TypeInv, TypeOK, CallsHold, Held
  <2> QED
    BY <2>1, <2>2, <2>3, FinishKept DEF RatedInv
<1>38. ASSUME NEW c \in Call, Abort(c) PROVE FinishHolds'
  <2>1. annulled \subseteq annulled' /\ \A d \in Call : call'[d].pc \in {"finish", "finishKept", "finishWrite"}
                                                            => call'[d] = call[d]
    BY <1>38 DEF Abort, Begin, Goto, End, Load, Read, terms, rows, history, Idle, TypeInv, TypeOK
  <2>2. \A b \in Application : app[b] \notin {"NONE", "PENDING"} => app'[b] \notin {"NONE", "PENDING"}
    BY <1>38 DEF Abort, Begin, Goto, End, Load, Read, terms, rows, history, Idle, TypeInv, TypeOK
  <2>3. \A d \in Call :
          call[d].pc = "finishKept" /\ call[d].app \notin annulled' /\ call[d].status # "END"
            /\ assigned[call[d].app] = "COMPLETED" => assigned'[call[d].app] = "COMPLETED"
    BY <1>38 DEF Abort, Begin, Goto, End, Load, Read, terms, rows, history, Idle, TypeInv, TypeOK, CallsHold, Held
  <2> QED
    BY <2>1, <2>2, <2>3, FinishKept DEF RatedInv
<1>39. ASSUME ToggleDeleted PROVE FinishHolds'
  <2>1. annulled \subseteq annulled' /\ \A d \in Call : call'[d].pc \in {"finish", "finishKept", "finishWrite"}
                                                            => call'[d] = call[d]
    BY <1>39 DEF ToggleDeleted, Begin, Goto, End, Load, Read, ScanEnds, terms, rows, history, Idle, TypeInv, TypeOK
  <2>2. \A b \in Application : app[b] \notin {"NONE", "PENDING"} => app'[b] \notin {"NONE", "PENDING"}
    BY <1>39 DEF ToggleDeleted, Begin, Goto, End, Load, Read, ScanEnds, terms, rows, history, Idle, TypeInv, TypeOK
  <2>3. \A d \in Call :
          call[d].pc = "finishKept" /\ call[d].app \notin annulled' /\ call[d].status # "END"
            /\ assigned[call[d].app] = "COMPLETED" => assigned'[call[d].app] = "COMPLETED"
    BY <1>39 DEF ToggleDeleted, Begin, Goto, End, Load, Read, ScanEnds, terms, rows, history, Idle, TypeInv, TypeOK, CallsHold, Held
  <2> QED
    BY <2>1, <2>2, <2>3, FinishKept DEF RatedInv
<1>40. ASSUME TimePasses PROVE FinishHolds'
  <2>1. annulled \subseteq annulled' /\ \A d \in Call : call'[d].pc \in {"finish", "finishKept", "finishWrite"}
                                                            => call'[d] = call[d]
    BY <1>40 DEF TimePasses, Begin, Goto, End, Load, Read, ScanEnds, terms, rows, history, Idle, TypeInv, TypeOK
  <2>2. \A b \in Application : app[b] \notin {"NONE", "PENDING"} => app'[b] \notin {"NONE", "PENDING"}
    BY <1>40 DEF TimePasses, Begin, Goto, End, Load, Read, ScanEnds, terms, rows, history, Idle, TypeInv, TypeOK
  <2>3. \A d \in Call :
          call[d].pc = "finishKept" /\ call[d].app \notin annulled' /\ call[d].status # "END"
            /\ assigned[call[d].app] = "COMPLETED" => assigned'[call[d].app] = "COMPLETED"
    BY <1>40 DEF TimePasses, Begin, Goto, End, Load, Read, ScanEnds, terms, rows, history, Idle, TypeInv, TypeOK, CallsHold, Held
  <2> QED
    BY <2>1, <2>2, <2>3, FinishKept DEF RatedInv
<1>41. ASSUME ScanFind PROVE FinishHolds'
  <2>1. annulled \subseteq annulled' /\ \A d \in Call : call'[d].pc \in {"finish", "finishKept", "finishWrite"}
                                                            => call'[d] = call[d]
    BY <1>41 DEF ScanFind, Begin, Goto, End, Load, Read, ScanEnds, Find, terms, rows, history, Idle, TypeInv, TypeOK
  <2>2. \A b \in Application : app[b] \notin {"NONE", "PENDING"} => app'[b] \notin {"NONE", "PENDING"}
    BY <1>41 DEF ScanFind, Begin, Goto, End, Load, Read, ScanEnds, Find, terms, rows, history, Idle, TypeInv, TypeOK
  <2>3. \A d \in Call :
          call[d].pc = "finishKept" /\ call[d].app \notin annulled' /\ call[d].status # "END"
            /\ assigned[call[d].app] = "COMPLETED" => assigned'[call[d].app] = "COMPLETED"
    BY <1>41 DEF ScanFind, Begin, Goto, End, Load, Read, ScanEnds, Find, terms, rows, history, Idle, TypeInv, TypeOK, CallsHold, Held
  <2> QED
    BY <2>1, <2>2, <2>3, FinishKept DEF RatedInv
<1>42. ASSUME ExpireEmpty PROVE FinishHolds'
  <2>1. annulled \subseteq annulled' /\ \A d \in Call : call'[d].pc \in {"finish", "finishKept", "finishWrite"}
                                                            => call'[d] = call[d]
    BY <1>42 DEF ExpireEmpty, Begin, Goto, End, Load, Read, ScanEnds, terms, rows, history, Idle, TypeInv, TypeOK
  <2>2. \A b \in Application : app[b] \notin {"NONE", "PENDING"} => app'[b] \notin {"NONE", "PENDING"}
    BY <1>42 DEF ExpireEmpty, Begin, Goto, End, Load, Read, ScanEnds, terms, rows, history, Idle, TypeInv, TypeOK
  <2>3. \A d \in Call :
          call[d].pc = "finishKept" /\ call[d].app \notin annulled' /\ call[d].status # "END"
            /\ assigned[call[d].app] = "COMPLETED" => assigned'[call[d].app] = "COMPLETED"
    BY <1>42 DEF ExpireEmpty, Begin, Goto, End, Load, Read, ScanEnds, terms, rows, history, Idle, TypeInv, TypeOK, CallsHold, Held
  <2> QED
    BY <2>1, <2>2, <2>3, FinishKept DEF RatedInv
<1>43. ASSUME AutoStart PROVE FinishHolds'
  <2>1. annulled \subseteq annulled' /\ \A d \in Call : call'[d].pc \in {"finish", "finishKept", "finishWrite"}
                                                            => call'[d] = call[d]
    BY <1>43 DEF AutoStart, Begin, Goto, End, Load, Read, ScanEnds, terms, rows, history, Idle, TypeInv, TypeOK
  <2>2. \A b \in Application : app[b] \notin {"NONE", "PENDING"} => app'[b] \notin {"NONE", "PENDING"}
    BY <1>43 DEF AutoStart, Begin, Goto, End, Load, Read, ScanEnds, terms, rows, history, Idle, TypeInv, TypeOK
  <2>3. \A d \in Call :
          call[d].pc = "finishKept" /\ call[d].app \notin annulled' /\ call[d].status # "END"
            /\ assigned[call[d].app] = "COMPLETED" => assigned'[call[d].app] = "COMPLETED"
    BY <1>43 DEF AutoStart, Begin, Goto, End, Load, Read, ScanEnds, terms, rows, history, Idle, TypeInv, TypeOK, CallsHold, Held
  <2> QED
    BY <2>1, <2>2, <2>3, FinishKept DEF RatedInv
<1>44. ASSUME StopRecruiting PROVE FinishHolds'
  <2>1. annulled \subseteq annulled' /\ \A d \in Call : call'[d].pc \in {"finish", "finishKept", "finishWrite"}
                                                            => call'[d] = call[d]
    BY <1>44 DEF StopRecruiting, Begin, Goto, End, Load, Read, RejectAll, ScanEnds, terms, rows, history, Idle, TypeInv, TypeOK
  <2>2. \A b \in Application : app[b] \notin {"NONE", "PENDING"} => app'[b] \notin {"NONE", "PENDING"}
    BY <1>44 DEF StopRecruiting, Begin, Goto, End, Load, Read, RejectAll, ScanEnds, terms, rows, history, Idle, TypeInv, TypeOK
  <2>3. \A d \in Call :
          call[d].pc = "finishKept" /\ call[d].app \notin annulled' /\ call[d].status # "END"
            /\ assigned[call[d].app] = "COMPLETED" => assigned'[call[d].app] = "COMPLETED"
    BY <1>44 DEF StopRecruiting, Begin, Goto, End, Load, Read, RejectAll, ScanEnds, terms, rows, history, Idle, TypeInv, TypeOK, CallsHold, Held
  <2> QED
    BY <2>1, <2>2, <2>3, FinishKept DEF RatedInv
<1>45. ASSUME CloseAfterGrace PROVE FinishHolds'
  <2>1. annulled \subseteq annulled' /\ \A d \in Call : call'[d].pc \in {"finish", "finishKept", "finishWrite"}
                                                            => call'[d] = call[d]
    BY <1>45 DEF CloseAfterGrace, Begin, Goto, End, Load, Read, CloseRecruitedOffer, Closed, Completed, ScanEnds, terms, rows, history, Idle, TypeInv, TypeOK
  <2>2. \A b \in Application : app[b] \notin {"NONE", "PENDING"} => app'[b] \notin {"NONE", "PENDING"}
    BY <1>45 DEF CloseAfterGrace, Begin, Goto, End, Load, Read, CloseRecruitedOffer, Closed, Completed, ScanEnds, terms, rows, history, Idle, TypeInv, TypeOK
  <2>3. \A d \in Call :
          call[d].pc = "finishKept" /\ call[d].app \notin annulled' /\ call[d].status # "END"
            /\ assigned[call[d].app] = "COMPLETED" => assigned'[call[d].app] = "COMPLETED"
    BY <1>45 DEF CloseAfterGrace, Begin, Goto, End, Load, Read, CloseRecruitedOffer, Closed, Completed, ScanEnds, terms, rows, history, Idle, TypeInv, TypeOK, CallsHold, Held
  <2> QED
    BY <2>1, <2>2, <2>3, FinishKept DEF RatedInv
<1>46. ASSUME UNCHANGED vars PROVE FinishHolds'
  <2>1. annulled \subseteq annulled' /\ \A d \in Call : call'[d].pc \in {"finish", "finishKept", "finishWrite"}
                                                            => call'[d] = call[d]
    BY <1>46 DEF vars, terms, rows, history, Idle, TypeInv, TypeOK
  <2>2. \A b \in Application : app[b] \notin {"NONE", "PENDING"} => app'[b] \notin {"NONE", "PENDING"}
    BY <1>46 DEF vars, terms, rows, history, Idle, TypeInv, TypeOK
  <2>3. \A d \in Call :
          call[d].pc = "finishKept" /\ call[d].app \notin annulled' /\ call[d].status # "END"
            /\ assigned[call[d].app] = "COMPLETED" => assigned'[call[d].app] = "COMPLETED"
    BY <1>46 DEF vars, terms, rows, history, Idle, TypeInv, TypeOK, CallsHold, Held
  <2> QED
    BY <2>1, <2>2, <2>3, FinishKept DEF RatedInv
<1>47. ASSUME NEW c \in Call, ReadFinish(c) PROVE FinishHolds'
  BY <1>47 DEF ReadFinish, Begin, Goto, End, Load, Read, vars, TypeInv, TypeOK, RatedInv, KindHolds, FinishHolds, ApplicationStatus, Idle, terms, rows, history
<1> QED
  BY <1>1, <1>2, <1>3, <1>4, <1>5, <1>6, <1>7, <1>8, <1>9, <1>10, <1>11,
     <1>12, <1>13, <1>14, <1>15, <1>16, <1>17, <1>18, <1>19, <1>20, <1>21,
     <1>22, <1>23, <1>24, <1>25, <1>26, <1>27, <1>28, <1>29, <1>30, <1>31,
     <1>32, <1>33, <1>34, <1>35, <1>36, <1>37, <1>38, <1>39, <1>40, <1>41,
     <1>42, <1>43, <1>44, <1>45, <1>46, <1>47
     DEF Next, Loads, Writes, ScanWrite

\* An application ends with its assignment completed.
LEMMA RatedStep ==
  ASSUME TypeInv, RatedInv, [Next]_vars
  PROVE  EndedCanBeRated'
<1> USE DEF vars, TypeInv, TypeOK, RatedInv, HiresAssigned, FinishHolds, EndedCanBeRated, ApplicationStatus, KindHolds, With, Hired, Waiting, terms, rows, history
<1>1. ASSUME NEW a \in Application, Apply(a) PROVE EndedCanBeRated'
  BY <1>1 DEF Apply, Begin, Goto, End, Load, Read
<1>2. ASSUME NEW c \in Call, NEW a \in Application, LoadAccept(c, a) PROVE EndedCanBeRated'
  BY <1>2 DEF LoadAccept, Begin, Goto, End, Load, Read
<1>3. ASSUME NEW c \in Call, NEW a \in Application, LoadReject(c, a) PROVE EndedCanBeRated'
  BY <1>3 DEF LoadReject, Begin, Goto, End, Load, Read
<1>4. ASSUME NEW c \in Call, NEW a \in Application, LoadCancel(c, a) PROVE EndedCanBeRated'
  BY <1>4 DEF LoadCancel, Begin, Goto, End, Load, Read
<1>5. ASSUME NEW c \in Call, NEW a \in Application, LoadLapse(c, a) PROVE EndedCanBeRated'
  BY <1>5 DEF LoadLapse, Begin, Goto, End, Load, Read
<1>6. ASSUME NEW c \in Call, NEW a \in Application, LoadFinish(c, a) PROVE EndedCanBeRated'
  BY <1>6 DEF LoadFinish, Begin, Goto, End, Load, Read
<1>7. ASSUME NEW c \in Call, NEW a \in Application, LoadStart(c, a) PROVE EndedCanBeRated'
  BY <1>7 DEF LoadStart, Begin, Goto, End, Load, Read
<1>8. ASSUME NEW c \in Call, NEW S \in SUBSET Application, Unlock(c, S) PROVE EndedCanBeRated'
  BY <1>8 DEF Unlock, Begin, Goto, End, Load, Read
<1>9. ASSUME NEW c \in Call, NEW s \in ForcedStatuses, LoadAdmin(c, s) PROVE EndedCanBeRated'
  BY <1>9 DEF LoadAdmin, Begin, Goto, End, Load, Read
<1>10. ASSUME NEW c \in Call, NEW q \in Quantities, LoadEdit(c, q) PROVE EndedCanBeRated'
  BY <1>10 DEF LoadEdit, Begin, Goto, End, Load, Read
<1>11. ASSUME NEW c \in Call, NEW q \in Quantities, LoadEditByAdmin(c, q) PROVE EndedCanBeRated'
  BY <1>11 DEF LoadEditByAdmin, Begin, Goto, End, Load, Read
<1>12. ASSUME NEW c \in Call, LoadConfirm(c) PROVE EndedCanBeRated'
  BY <1>12 DEF LoadConfirm, Begin, Goto, End, Load, Read
<1>13. ASSUME NEW c \in Call, LoadClose(c) PROVE EndedCanBeRated'
  BY <1>13 DEF LoadClose, Begin, Goto, End, Load, Read
<1>14. ASSUME NEW c \in Call, LoadDelete(c) PROVE EndedCanBeRated'
  BY <1>14 DEF LoadDelete, Begin, Goto, End, Load, Read
<1>15. ASSUME NEW c \in Call, LoadRepublish(c) PROVE EndedCanBeRated'
  BY <1>15 DEF LoadRepublish, Begin, Goto, End, Load, Read
<1>16. ASSUME NEW c \in Call, Archive(c) PROVE EndedCanBeRated'
  BY <1>16 DEF Archive, Begin, Goto, End, Load, Read
<1>17. ASSUME NEW c \in Call, Accept(c) PROVE EndedCanBeRated'
  <2>1. call[c] \in CallState /\ Held(call[c], maxQuantity)
    BY DEF TypeInv, TypeOK, CallsHold
  <2> QED
    BY <1>17, <2>1 DEF Held, CallState, Accept, Begin, Goto, End, Load, Read, Taken
<1>18. ASSUME NEW c \in Call, Reject(c) PROVE EndedCanBeRated'
  <2>1. call[c] \in CallState /\ Held(call[c], maxQuantity)
    BY DEF TypeInv, TypeOK, CallsHold
  <2> QED
    BY <1>18, <2>1 DEF Held, CallState, Reject, Begin, Goto, End, Load, Read, RejectAll
<1>19. ASSUME NEW c \in Call, Withdraw(c) PROVE EndedCanBeRated'
  <2>1. call[c] \in CallState /\ Held(call[c], maxQuantity)
    BY DEF TypeInv, TypeOK, CallsHold
  <2> QED
    BY <1>19, <2>1 DEF Held, CallState, Withdraw, Begin, Goto, End, Load, Read
<1>20. ASSUME NEW c \in Call, LockCancel(c) PROVE EndedCanBeRated'
  BY <1>20 DEF LockCancel, Begin, Goto, End, Load, Read
<1>21. ASSUME NEW c \in Call, CommitCancel(c) PROVE EndedCanBeRated'
  <2>1. call[c] \in CallState /\ Held(call[c], maxQuantity)
    BY DEF TypeInv, TypeOK, CallsHold
  <2> QED
    BY <1>21, <2>1 DEF Held, CallState, CommitCancel, CancelHire, Begin, Goto, End, Load, Read, Reopened
<1>22. ASSUME NEW c \in Call, Lapse(c) PROVE EndedCanBeRated'
  <2>1. call[c] \in CallState /\ Held(call[c], maxQuantity)
    BY DEF TypeInv, TypeOK, CallsHold
  <2> QED
    BY <1>22, <2>1 DEF Held, CallState, Lapse, CancelHire, Begin, Goto, End, Load, Read
<1>23. ASSUME NEW c \in Call, RejectLeftovers(c) PROVE EndedCanBeRated'
  BY <1>23 DEF RejectLeftovers, Begin, Goto, End, Load, Read, RejectAll
<1>24. ASSUME NEW c \in Call, Confirm(c) PROVE EndedCanBeRated'
  BY <1>24 DEF Confirm, Begin, Goto, End, Load, Read, CloseRecruitedOffer, Closed, Completed
<1>25. ASSUME NEW c \in Call, Finish(c) PROVE EndedCanBeRated'
  <2>1. call[c] \in CallState /\ Held(call[c], maxQuantity)
    BY DEF TypeInv, TypeOK, CallsHold
  <2> QED
    BY <1>25, <2>1 DEF Held, CallState, Finish, Begin, Goto, End, Load, Read
<1>26. ASSUME NEW c \in Call, ReadClose(c) PROVE EndedCanBeRated'
  BY <1>26 DEF ReadClose, Begin, Goto, End, Load, Read
<1>27. ASSUME NEW c \in Call, WriteClose(c) PROVE EndedCanBeRated'
  BY <1>27 DEF WriteClose, Begin, Goto, End, Load, Read, RejectAll
<1>28. ASSUME NEW c \in Call, ReadDelete(c) PROVE EndedCanBeRated'
  BY <1>28 DEF ReadDelete, Begin, Goto, End, Load, Read
<1>29. ASSUME NEW c \in Call, WriteDelete(c) PROVE EndedCanBeRated'
  BY <1>29 DEF WriteDelete, Begin, Goto, End, Load, Read, RejectAll
<1>30. ASSUME NEW c \in Call, WriteAdmin(c) PROVE EndedCanBeRated'
  <2>1. call[c] \in CallState /\ Held(call[c], maxQuantity)
    BY DEF TypeInv, TypeOK, CallsHold
  <2> QED
    BY <1>30, <2>1 DEF Held, CallState, WriteAdmin, Begin, Goto, End, Load, Read
<1>31. ASSUME NEW c \in Call, FindWaiting(c) PROVE EndedCanBeRated'
  BY <1>31 DEF FindWaiting, Begin, Goto, End, Load, Read
<1>32. ASSUME NEW c \in Call, RejectWaiting(c) PROVE EndedCanBeRated'
  BY <1>32 DEF RejectWaiting, Begin, Goto, End, Load, Read, RejectAll
<1>33. ASSUME NEW c \in Call, ReadEdit(c) PROVE EndedCanBeRated'
  BY <1>33 DEF ReadEdit, Begin, Goto, End, Load, Read
<1>34. ASSUME NEW c \in Call, WriteEdit(c) PROVE EndedCanBeRated'
  <2>1. call[c] \in CallState /\ Held(call[c], maxQuantity)
    BY DEF TypeInv, TypeOK, CallsHold
  <2> QED
    BY <1>34, <2>1 DEF Held, CallState, WriteEdit, Begin, Goto, End, Load, Read
<1>35. ASSUME NEW c \in Call, Republish(c) PROVE EndedCanBeRated'
  BY <1>35 DEF Republish, Begin, Goto, End, Load, Read
<1>36. ASSUME NEW c \in Call, Start(c) PROVE EndedCanBeRated'
  <2>1. call[c] \in CallState /\ Held(call[c], maxQuantity)
    BY DEF TypeInv, TypeOK, CallsHold
  <2> QED
    BY <1>36, <2>1 DEF Held, CallState, Start, Begin, Goto, End, Load, Read
<1>37. ASSUME NEW c \in Call, UndoStart(c) PROVE EndedCanBeRated'
  <2>1. call[c] \in CallState /\ Held(call[c], maxQuantity)
    BY DEF TypeInv, TypeOK, CallsHold
  <2> QED
    BY <1>37, <2>1 DEF Held, CallState, UndoStart, Begin, Goto, End, Load, Read, Reopened
<1>38. ASSUME NEW c \in Call, Abort(c) PROVE EndedCanBeRated'
  BY <1>38 DEF Abort, Begin, Goto, End, Load, Read
<1>39. ASSUME ToggleDeleted PROVE EndedCanBeRated'
  BY <1>39 DEF ToggleDeleted, Begin, Goto, End, Load, Read, ScanEnds
<1>40. ASSUME TimePasses PROVE EndedCanBeRated'
  BY <1>40 DEF TimePasses, Begin, Goto, End, Load, Read, ScanEnds
<1>41. ASSUME ScanFind PROVE EndedCanBeRated'
  BY <1>41 DEF ScanFind, Begin, Goto, End, Load, Read, ScanEnds, Find
<1>42. ASSUME ExpireEmpty PROVE EndedCanBeRated'
  BY <1>42 DEF ExpireEmpty, Begin, Goto, End, Load, Read, ScanEnds
<1>43. ASSUME AutoStart PROVE EndedCanBeRated'
  BY <1>43 DEF AutoStart, Begin, Goto, End, Load, Read, ScanEnds
<1>44. ASSUME StopRecruiting PROVE EndedCanBeRated'
  BY <1>44 DEF StopRecruiting, Begin, Goto, End, Load, Read, RejectAll, ScanEnds
<1>45. ASSUME CloseAfterGrace PROVE EndedCanBeRated'
  BY <1>45 DEF CloseAfterGrace, Begin, Goto, End, Load, Read, CloseRecruitedOffer, Closed, Completed, ScanEnds
<1>46. ASSUME UNCHANGED vars PROVE EndedCanBeRated'
  BY <1>46 DEF vars
<1>47. ASSUME NEW c \in Call, ReadFinish(c) PROVE EndedCanBeRated'
  BY <1>47 DEF ReadFinish, Begin, Goto, End, Load, Read
<1> QED
  BY <1>1, <1>2, <1>3, <1>4, <1>5, <1>6, <1>7, <1>8, <1>9, <1>10, <1>11,
     <1>12, <1>13, <1>14, <1>15, <1>16, <1>17, <1>18, <1>19, <1>20, <1>21,
     <1>22, <1>23, <1>24, <1>25, <1>26, <1>27, <1>28, <1>29, <1>30, <1>31,
     <1>32, <1>33, <1>34, <1>35, <1>36, <1>37, <1>38, <1>39, <1>40, <1>41,
     <1>42, <1>43, <1>44, <1>45, <1>46, <1>47
     DEF Next, Loads, Writes, ScanWrite

\* A hire that ended, by the worker's word or by the end of the recruitment, has
\* its assignment completed, whatever overlaps, unless it was cancelled while a
\* second finish of it took the assignment for completed: ratings hang on it.
THEOREM EndedHiresCanBeRated == Spec => []EndedCanBeRated
<1>1. Init => RatedInv
  BY DEF Init, RatedInv, KindHolds, HiresAssigned, FinishHolds, EndedCanBeRated, Idle
<1>2. TypeInv /\ RatedInv /\ [Next]_vars => RatedInv'
  <2> SUFFICES ASSUME TypeInv, RatedInv, [Next]_vars PROVE RatedInv'
    OBVIOUS
  <2>1. KindHolds' /\ HiresAssigned' /\ FinishHolds' /\ EndedCanBeRated'
    BY KindStep, AssignedStep, FinishStep, RatedStep DEF RatedInv
  <2> QED
    BY <2>1 DEF RatedInv
<1>3. RatedInv => EndedCanBeRated
  BY DEF RatedInv
<1> QED
  BY <1>1, <1>2, <1>3, TypeInvariant, PTL DEF Spec

\* The largest quantity so far does not fall.
LEMMA LargestStep ==
  ASSUME TypeInv, [Next]_vars
  PROVE  (maxQuantity' \in Nat /\ maxQuantity <= maxQuantity')
<1> USE DEF vars, TypeInv, TypeOK, terms, rows, history
<1>1. ASSUME NEW a \in Application, Apply(a) PROVE (maxQuantity' \in Nat /\ maxQuantity <= maxQuantity')
  BY <1>1, HiringAssumption DEF Apply, Begin, Goto, End, Load, Read
<1>2. ASSUME NEW c \in Call, NEW a \in Application, LoadAccept(c, a) PROVE (maxQuantity' \in Nat /\ maxQuantity <= maxQuantity')
  BY <1>2, HiringAssumption DEF LoadAccept, Begin, Goto, End, Load, Read
<1>3. ASSUME NEW c \in Call, NEW a \in Application, LoadReject(c, a) PROVE (maxQuantity' \in Nat /\ maxQuantity <= maxQuantity')
  BY <1>3, HiringAssumption DEF LoadReject, Begin, Goto, End, Load, Read
<1>4. ASSUME NEW c \in Call, NEW a \in Application, LoadCancel(c, a) PROVE (maxQuantity' \in Nat /\ maxQuantity <= maxQuantity')
  BY <1>4, HiringAssumption DEF LoadCancel, Begin, Goto, End, Load, Read
<1>5. ASSUME NEW c \in Call, NEW a \in Application, LoadLapse(c, a) PROVE (maxQuantity' \in Nat /\ maxQuantity <= maxQuantity')
  BY <1>5, HiringAssumption DEF LoadLapse, Begin, Goto, End, Load, Read
<1>6. ASSUME NEW c \in Call, NEW a \in Application, LoadFinish(c, a) PROVE (maxQuantity' \in Nat /\ maxQuantity <= maxQuantity')
  BY <1>6, HiringAssumption DEF LoadFinish, Begin, Goto, End, Load, Read
<1>7. ASSUME NEW c \in Call, NEW a \in Application, LoadStart(c, a) PROVE (maxQuantity' \in Nat /\ maxQuantity <= maxQuantity')
  BY <1>7, HiringAssumption DEF LoadStart, Begin, Goto, End, Load, Read
<1>8. ASSUME NEW c \in Call, NEW S \in SUBSET Application, Unlock(c, S) PROVE (maxQuantity' \in Nat /\ maxQuantity <= maxQuantity')
  BY <1>8, HiringAssumption DEF Unlock, Begin, Goto, End, Load, Read
<1>9. ASSUME NEW c \in Call, NEW s \in ForcedStatuses, LoadAdmin(c, s) PROVE (maxQuantity' \in Nat /\ maxQuantity <= maxQuantity')
  BY <1>9, HiringAssumption DEF LoadAdmin, Begin, Goto, End, Load, Read
<1>10. ASSUME NEW c \in Call, NEW q \in Quantities, LoadEdit(c, q) PROVE (maxQuantity' \in Nat /\ maxQuantity <= maxQuantity')
  BY <1>10, HiringAssumption DEF LoadEdit, Begin, Goto, End, Load, Read
<1>11. ASSUME NEW c \in Call, NEW q \in Quantities, LoadEditByAdmin(c, q) PROVE (maxQuantity' \in Nat /\ maxQuantity <= maxQuantity')
  BY <1>11, HiringAssumption DEF LoadEditByAdmin, Begin, Goto, End, Load, Read
<1>12. ASSUME NEW c \in Call, LoadConfirm(c) PROVE (maxQuantity' \in Nat /\ maxQuantity <= maxQuantity')
  BY <1>12, HiringAssumption DEF LoadConfirm, Begin, Goto, End, Load, Read
<1>13. ASSUME NEW c \in Call, LoadClose(c) PROVE (maxQuantity' \in Nat /\ maxQuantity <= maxQuantity')
  BY <1>13, HiringAssumption DEF LoadClose, Begin, Goto, End, Load, Read
<1>14. ASSUME NEW c \in Call, LoadDelete(c) PROVE (maxQuantity' \in Nat /\ maxQuantity <= maxQuantity')
  BY <1>14, HiringAssumption DEF LoadDelete, Begin, Goto, End, Load, Read
<1>15. ASSUME NEW c \in Call, LoadRepublish(c) PROVE (maxQuantity' \in Nat /\ maxQuantity <= maxQuantity')
  BY <1>15, HiringAssumption DEF LoadRepublish, Begin, Goto, End, Load, Read
<1>16. ASSUME NEW c \in Call, Archive(c) PROVE (maxQuantity' \in Nat /\ maxQuantity <= maxQuantity')
  BY <1>16, HiringAssumption DEF Archive, Begin, Goto, End, Load, Read
<1>17. ASSUME NEW c \in Call, Accept(c) PROVE (maxQuantity' \in Nat /\ maxQuantity <= maxQuantity')
  <2>1. call[c] \in CallState /\ Held(call[c], maxQuantity)
    BY DEF TypeInv, TypeOK, CallsHold
  <2> QED
    BY <1>17, <2>1, HiringAssumption DEF Held, CallState, Accept, Begin, Goto, End, Load, Read, Taken
<1>18. ASSUME NEW c \in Call, Reject(c) PROVE (maxQuantity' \in Nat /\ maxQuantity <= maxQuantity')
  <2>1. call[c] \in CallState /\ Held(call[c], maxQuantity)
    BY DEF TypeInv, TypeOK, CallsHold
  <2> QED
    BY <1>18, <2>1, HiringAssumption DEF Held, CallState, Reject, Begin, Goto, End, Load, Read, RejectAll
<1>19. ASSUME NEW c \in Call, Withdraw(c) PROVE (maxQuantity' \in Nat /\ maxQuantity <= maxQuantity')
  <2>1. call[c] \in CallState /\ Held(call[c], maxQuantity)
    BY DEF TypeInv, TypeOK, CallsHold
  <2> QED
    BY <1>19, <2>1, HiringAssumption DEF Held, CallState, Withdraw, Begin, Goto, End, Load, Read
<1>20. ASSUME NEW c \in Call, LockCancel(c) PROVE (maxQuantity' \in Nat /\ maxQuantity <= maxQuantity')
  BY <1>20, HiringAssumption DEF LockCancel, Begin, Goto, End, Load, Read
<1>21. ASSUME NEW c \in Call, CommitCancel(c) PROVE (maxQuantity' \in Nat /\ maxQuantity <= maxQuantity')
  <2>1. call[c] \in CallState /\ Held(call[c], maxQuantity)
    BY DEF TypeInv, TypeOK, CallsHold
  <2> QED
    BY <1>21, <2>1, HiringAssumption DEF Held, CallState, CommitCancel, CancelHire, Begin, Goto, End, Load, Read, Reopened
<1>22. ASSUME NEW c \in Call, Lapse(c) PROVE (maxQuantity' \in Nat /\ maxQuantity <= maxQuantity')
  <2>1. call[c] \in CallState /\ Held(call[c], maxQuantity)
    BY DEF TypeInv, TypeOK, CallsHold
  <2> QED
    BY <1>22, <2>1, HiringAssumption DEF Held, CallState, Lapse, CancelHire, Begin, Goto, End, Load, Read
<1>23. ASSUME NEW c \in Call, RejectLeftovers(c) PROVE (maxQuantity' \in Nat /\ maxQuantity <= maxQuantity')
  BY <1>23, HiringAssumption DEF RejectLeftovers, Begin, Goto, End, Load, Read, RejectAll
<1>24. ASSUME NEW c \in Call, Confirm(c) PROVE (maxQuantity' \in Nat /\ maxQuantity <= maxQuantity')
  BY <1>24, HiringAssumption DEF Confirm, Begin, Goto, End, Load, Read, CloseRecruitedOffer, Closed, Completed
<1>25. ASSUME NEW c \in Call, Finish(c) PROVE (maxQuantity' \in Nat /\ maxQuantity <= maxQuantity')
  <2>1. call[c] \in CallState /\ Held(call[c], maxQuantity)
    BY DEF TypeInv, TypeOK, CallsHold
  <2> QED
    BY <1>25, <2>1, HiringAssumption DEF Held, CallState, Finish, Begin, Goto, End, Load, Read
<1>26. ASSUME NEW c \in Call, ReadClose(c) PROVE (maxQuantity' \in Nat /\ maxQuantity <= maxQuantity')
  BY <1>26, HiringAssumption DEF ReadClose, Begin, Goto, End, Load, Read
<1>27. ASSUME NEW c \in Call, WriteClose(c) PROVE (maxQuantity' \in Nat /\ maxQuantity <= maxQuantity')
  BY <1>27, HiringAssumption DEF WriteClose, Begin, Goto, End, Load, Read, RejectAll
<1>28. ASSUME NEW c \in Call, ReadDelete(c) PROVE (maxQuantity' \in Nat /\ maxQuantity <= maxQuantity')
  BY <1>28, HiringAssumption DEF ReadDelete, Begin, Goto, End, Load, Read
<1>29. ASSUME NEW c \in Call, WriteDelete(c) PROVE (maxQuantity' \in Nat /\ maxQuantity <= maxQuantity')
  BY <1>29, HiringAssumption DEF WriteDelete, Begin, Goto, End, Load, Read, RejectAll
<1>30. ASSUME NEW c \in Call, WriteAdmin(c) PROVE (maxQuantity' \in Nat /\ maxQuantity <= maxQuantity')
  <2>1. call[c] \in CallState /\ Held(call[c], maxQuantity)
    BY DEF TypeInv, TypeOK, CallsHold
  <2> QED
    BY <1>30, <2>1, HiringAssumption DEF Held, CallState, WriteAdmin, Begin, Goto, End, Load, Read
<1>31. ASSUME NEW c \in Call, FindWaiting(c) PROVE (maxQuantity' \in Nat /\ maxQuantity <= maxQuantity')
  BY <1>31, HiringAssumption DEF FindWaiting, Begin, Goto, End, Load, Read
<1>32. ASSUME NEW c \in Call, RejectWaiting(c) PROVE (maxQuantity' \in Nat /\ maxQuantity <= maxQuantity')
  BY <1>32, HiringAssumption DEF RejectWaiting, Begin, Goto, End, Load, Read, RejectAll
<1>33. ASSUME NEW c \in Call, ReadEdit(c) PROVE (maxQuantity' \in Nat /\ maxQuantity <= maxQuantity')
  BY <1>33, HiringAssumption DEF ReadEdit, Begin, Goto, End, Load, Read
<1>34. ASSUME NEW c \in Call, WriteEdit(c) PROVE (maxQuantity' \in Nat /\ maxQuantity <= maxQuantity')
  <2>1. call[c] \in CallState /\ Held(call[c], maxQuantity)
    BY DEF TypeInv, TypeOK, CallsHold
  <2> QED
    BY <1>34, <2>1, HiringAssumption DEF Held, CallState, WriteEdit, Begin, Goto, End, Load, Read
<1>35. ASSUME NEW c \in Call, Republish(c) PROVE (maxQuantity' \in Nat /\ maxQuantity <= maxQuantity')
  BY <1>35, HiringAssumption DEF Republish, Begin, Goto, End, Load, Read
<1>36. ASSUME NEW c \in Call, Start(c) PROVE (maxQuantity' \in Nat /\ maxQuantity <= maxQuantity')
  <2>1. call[c] \in CallState /\ Held(call[c], maxQuantity)
    BY DEF TypeInv, TypeOK, CallsHold
  <2> QED
    BY <1>36, <2>1, HiringAssumption DEF Held, CallState, Start, Begin, Goto, End, Load, Read
<1>37. ASSUME NEW c \in Call, UndoStart(c) PROVE (maxQuantity' \in Nat /\ maxQuantity <= maxQuantity')
  <2>1. call[c] \in CallState /\ Held(call[c], maxQuantity)
    BY DEF TypeInv, TypeOK, CallsHold
  <2> QED
    BY <1>37, <2>1, HiringAssumption DEF Held, CallState, UndoStart, Begin, Goto, End, Load, Read, Reopened
<1>38. ASSUME NEW c \in Call, Abort(c) PROVE (maxQuantity' \in Nat /\ maxQuantity <= maxQuantity')
  BY <1>38, HiringAssumption DEF Abort, Begin, Goto, End, Load, Read
<1>39. ASSUME ToggleDeleted PROVE (maxQuantity' \in Nat /\ maxQuantity <= maxQuantity')
  BY <1>39, HiringAssumption DEF ToggleDeleted, Begin, Goto, End, Load, Read, ScanEnds
<1>40. ASSUME TimePasses PROVE (maxQuantity' \in Nat /\ maxQuantity <= maxQuantity')
  BY <1>40, HiringAssumption DEF TimePasses, Begin, Goto, End, Load, Read, ScanEnds
<1>41. ASSUME ScanFind PROVE (maxQuantity' \in Nat /\ maxQuantity <= maxQuantity')
  BY <1>41, HiringAssumption DEF ScanFind, Begin, Goto, End, Load, Read, ScanEnds, Find
<1>42. ASSUME ExpireEmpty PROVE (maxQuantity' \in Nat /\ maxQuantity <= maxQuantity')
  BY <1>42, HiringAssumption DEF ExpireEmpty, Begin, Goto, End, Load, Read, ScanEnds
<1>43. ASSUME AutoStart PROVE (maxQuantity' \in Nat /\ maxQuantity <= maxQuantity')
  BY <1>43, HiringAssumption DEF AutoStart, Begin, Goto, End, Load, Read, ScanEnds
<1>44. ASSUME StopRecruiting PROVE (maxQuantity' \in Nat /\ maxQuantity <= maxQuantity')
  BY <1>44, HiringAssumption DEF StopRecruiting, Begin, Goto, End, Load, Read, RejectAll, ScanEnds
<1>45. ASSUME CloseAfterGrace PROVE (maxQuantity' \in Nat /\ maxQuantity <= maxQuantity')
  BY <1>45, HiringAssumption DEF CloseAfterGrace, Begin, Goto, End, Load, Read, CloseRecruitedOffer, Closed, Completed, ScanEnds
<1>46. ASSUME UNCHANGED vars PROVE (maxQuantity' \in Nat /\ maxQuantity <= maxQuantity')
  BY <1>46, HiringAssumption DEF vars
<1>47. ASSUME NEW c \in Call, ReadFinish(c) PROVE (maxQuantity' \in Nat /\ maxQuantity <= maxQuantity')
  BY <1>47, HiringAssumption DEF ReadFinish, Begin, Goto, End, Load, Read
<1> QED
  BY <1>1, <1>2, <1>3, <1>4, <1>5, <1>6, <1>7, <1>8, <1>9, <1>10, <1>11,
     <1>12, <1>13, <1>14, <1>15, <1>16, <1>17, <1>18, <1>19, <1>20, <1>21,
     <1>22, <1>23, <1>24, <1>25, <1>26, <1>27, <1>28, <1>29, <1>30, <1>31,
     <1>32, <1>33, <1>34, <1>35, <1>36, <1>37, <1>38, <1>39, <1>40, <1>41,
     <1>42, <1>43, <1>44, <1>45, <1>46, <1>47
     DEF Next, Loads, Writes, ScanWrite

\* The hires that hold a place, without those put back after their start.
Placed == With(Slot) \ rolledBack

\* Nobody takes a place: there are no more of them than before.
LEMMA NoNewPlace ==
  ASSUME TypeInv, SlotsRespected, [Next]_vars, Placed' \subseteq Placed
  PROVE  SlotsRespected'
<1>1. IsFiniteSet(Placed)
  <2>1. Placed \subseteq Application
    BY DEF Placed, With
  <2> QED
    BY <2>1, HiringAssumption, FS_Subset
<1>2. Cardinality(Placed') <= Cardinality(Placed)
      /\ Cardinality(Placed) \in Nat /\ Cardinality(Placed') \in Nat
  BY <1>1, FS_Subset, FS_CardinalityType
<1>3. Cardinality(Placed) <= maxQuantity
  BY DEF SlotsRespected, Placed
<1>4. maxQuantity \in Nat /\ maxQuantity' \in Nat /\ maxQuantity <= maxQuantity'
  BY LargestStep, HiringAssumption DEF TypeInv, TypeOK
<1>5. Cardinality(Placed') <= maxQuantity'
  BY <1>2, <1>3, <1>4
<1> QED
  BY <1>5 DEF SlotsRespected, Placed

\* An accept takes one place, having counted fewer than the quantity it loaded.
LEMMA AcceptPlace ==
  ASSUME TypeInv, SlotsRespected, [Next]_vars, NEW c \in Call, Accept(c)
  PROVE  SlotsRespected'
<1> DEFINE a == call[c].app
<1>1. /\ a \in Application /\ call[c].quantity \in Nat
      /\ call[c].quantity <= maxQuantity
  <2>1. Held(call[c], maxQuantity)
    BY DEF TypeInv, CallsHold
  <2> QED
    BY <2>1, HiringAssumption DEF Accept, Held
<1>2. IsFiniteSet(With(Slot)) /\ With(Slot) \subseteq Application
  <2>1. With(Slot) \subseteq Application
    BY DEF With
  <2> QED
    BY <2>1, HiringAssumption, FS_Subset
<1>3. Cardinality(With(Slot)) \in Nat /\ Cardinality(With(Slot)) < call[c].quantity
  BY <1>2, FS_CardinalityType DEF Accept, Taken
<1>4. a \notin With(Slot)
  BY DEF Accept, With, Slot
<1>5. Cardinality(With(Slot) \cup {a}) = Cardinality(With(Slot)) + 1
      /\ IsFiniteSet(With(Slot) \cup {a})
  BY <1>2, <1>4, FS_AddElement
<1>6. Placed' \subseteq With(Slot) \cup {a}
  BY DEF Accept, Placed, With, Slot, TypeInv, TypeOK
<1>7. Cardinality(Placed') \in Nat /\ Cardinality(Placed') <= Cardinality(With(Slot)) + 1
  BY <1>5, <1>6, FS_Subset, FS_CardinalityType
<1>8. maxQuantity' = maxQuantity /\ maxQuantity \in Nat
  BY HiringAssumption DEF Accept, history, TypeInv, TypeOK
<1>9. Cardinality(Placed') <= maxQuantity'
  BY <1>1, <1>3, <1>7, <1>8
<1> QED
  BY <1>9 DEF SlotsRespected, Placed

\* Every step keeps the places within the largest quantity so far.
LEMMA SlotsStep ==
  ASSUME TypeInv, SlotsRespected, [Next]_vars
  PROVE  SlotsRespected'
<1>1. ASSUME NEW a \in Application, Apply(a) PROVE SlotsRespected'
  <2>1. Placed' \subseteq Placed
    BY <1>1 DEF Placed, With, Slot, Waiting, Hired, ApplicationStatus, TypeInv, TypeOK, Apply, Begin, Goto, End, Load, Read, terms, rows, history
  <2> QED
    BY <2>1, NoNewPlace
<1>2. ASSUME NEW c \in Call, NEW a \in Application, LoadAccept(c, a) PROVE SlotsRespected'
  <2>1. Placed' \subseteq Placed
    BY <1>2 DEF Placed, With, Slot, Waiting, Hired, ApplicationStatus, TypeInv, TypeOK, LoadAccept, Begin, Goto, End, Load, Read, terms, rows, history
  <2> QED
    BY <2>1, NoNewPlace
<1>3. ASSUME NEW c \in Call, NEW a \in Application, LoadReject(c, a) PROVE SlotsRespected'
  <2>1. Placed' \subseteq Placed
    BY <1>3 DEF Placed, With, Slot, Waiting, Hired, ApplicationStatus, TypeInv, TypeOK, LoadReject, Begin, Goto, End, Load, Read, terms, rows, history
  <2> QED
    BY <2>1, NoNewPlace
<1>4. ASSUME NEW c \in Call, NEW a \in Application, LoadCancel(c, a) PROVE SlotsRespected'
  <2>1. Placed' \subseteq Placed
    BY <1>4 DEF Placed, With, Slot, Waiting, Hired, ApplicationStatus, TypeInv, TypeOK, LoadCancel, Begin, Goto, End, Load, Read, terms, rows, history
  <2> QED
    BY <2>1, NoNewPlace
<1>5. ASSUME NEW c \in Call, NEW a \in Application, LoadLapse(c, a) PROVE SlotsRespected'
  <2>1. Placed' \subseteq Placed
    BY <1>5 DEF Placed, With, Slot, Waiting, Hired, ApplicationStatus, TypeInv, TypeOK, LoadLapse, Begin, Goto, End, Load, Read, terms, rows, history
  <2> QED
    BY <2>1, NoNewPlace
<1>6. ASSUME NEW c \in Call, NEW a \in Application, LoadFinish(c, a) PROVE SlotsRespected'
  <2>1. Placed' \subseteq Placed
    BY <1>6 DEF Placed, With, Slot, Waiting, Hired, ApplicationStatus, TypeInv, TypeOK, LoadFinish, Begin, Goto, End, Load, Read, terms, rows, history
  <2> QED
    BY <2>1, NoNewPlace
<1>7. ASSUME NEW c \in Call, NEW a \in Application, LoadStart(c, a) PROVE SlotsRespected'
  <2>1. Placed' \subseteq Placed
    BY <1>7 DEF Placed, With, Slot, Waiting, Hired, ApplicationStatus, TypeInv, TypeOK, LoadStart, Begin, Goto, End, Load, Read, terms, rows, history
  <2> QED
    BY <2>1, NoNewPlace
<1>8. ASSUME NEW c \in Call, NEW S \in SUBSET Application, Unlock(c, S) PROVE SlotsRespected'
  <2>1. Placed' \subseteq Placed
    BY <1>8 DEF Placed, With, Slot, Waiting, Hired, ApplicationStatus, TypeInv, TypeOK, Unlock, Begin, Goto, End, Load, Read, terms, rows, history
  <2> QED
    BY <2>1, NoNewPlace
<1>9. ASSUME NEW c \in Call, NEW s \in ForcedStatuses, LoadAdmin(c, s) PROVE SlotsRespected'
  <2>1. Placed' \subseteq Placed
    BY <1>9 DEF Placed, With, Slot, Waiting, Hired, ApplicationStatus, TypeInv, TypeOK, LoadAdmin, Begin, Goto, End, Load, Read, terms, rows, history
  <2> QED
    BY <2>1, NoNewPlace
<1>10. ASSUME NEW c \in Call, NEW q \in Quantities, LoadEdit(c, q) PROVE SlotsRespected'
  <2>1. Placed' \subseteq Placed
    BY <1>10 DEF Placed, With, Slot, Waiting, Hired, ApplicationStatus, TypeInv, TypeOK, LoadEdit, Begin, Goto, End, Load, Read, terms, rows, history
  <2> QED
    BY <2>1, NoNewPlace
<1>11. ASSUME NEW c \in Call, NEW q \in Quantities, LoadEditByAdmin(c, q) PROVE SlotsRespected'
  <2>1. Placed' \subseteq Placed
    BY <1>11 DEF Placed, With, Slot, Waiting, Hired, ApplicationStatus, TypeInv, TypeOK, LoadEditByAdmin, Begin, Goto, End, Load, Read, terms, rows, history
  <2> QED
    BY <2>1, NoNewPlace
<1>12. ASSUME NEW c \in Call, LoadConfirm(c) PROVE SlotsRespected'
  <2>1. Placed' \subseteq Placed
    BY <1>12 DEF Placed, With, Slot, Waiting, Hired, ApplicationStatus, TypeInv, TypeOK, LoadConfirm, Begin, Goto, End, Load, Read, terms, rows, history
  <2> QED
    BY <2>1, NoNewPlace
<1>13. ASSUME NEW c \in Call, LoadClose(c) PROVE SlotsRespected'
  <2>1. Placed' \subseteq Placed
    BY <1>13 DEF Placed, With, Slot, Waiting, Hired, ApplicationStatus, TypeInv, TypeOK, LoadClose, Begin, Goto, End, Load, Read, terms, rows, history
  <2> QED
    BY <2>1, NoNewPlace
<1>14. ASSUME NEW c \in Call, LoadDelete(c) PROVE SlotsRespected'
  <2>1. Placed' \subseteq Placed
    BY <1>14 DEF Placed, With, Slot, Waiting, Hired, ApplicationStatus, TypeInv, TypeOK, LoadDelete, Begin, Goto, End, Load, Read, terms, rows, history
  <2> QED
    BY <2>1, NoNewPlace
<1>15. ASSUME NEW c \in Call, LoadRepublish(c) PROVE SlotsRespected'
  <2>1. Placed' \subseteq Placed
    BY <1>15 DEF Placed, With, Slot, Waiting, Hired, ApplicationStatus, TypeInv, TypeOK, LoadRepublish, Begin, Goto, End, Load, Read, terms, rows, history
  <2> QED
    BY <2>1, NoNewPlace
<1>16. ASSUME NEW c \in Call, Archive(c) PROVE SlotsRespected'
  <2>1. Placed' \subseteq Placed
    BY <1>16 DEF Placed, With, Slot, Waiting, Hired, ApplicationStatus, TypeInv, TypeOK, Archive, Begin, Goto, End, Load, Read, terms, rows, history
  <2> QED
    BY <2>1, NoNewPlace
<1>17. ASSUME NEW c \in Call, Accept(c) PROVE SlotsRespected'
  BY <1>17, AcceptPlace
<1>18. ASSUME NEW c \in Call, Reject(c) PROVE SlotsRespected'
  <2>1. call[c] \in CallState /\ Held(call[c], maxQuantity)
    BY DEF TypeInv, TypeOK, CallsHold
  <2>2. Placed' \subseteq Placed
    BY <1>18, <2>1 DEF Held, CallState, Placed, With, Slot, ApplicationStatus, TypeInv, TypeOK, Reject, Begin, Goto, End, Load, Read, RejectAll, terms, rows, history
  <2> QED
    BY <2>2, NoNewPlace
<1>19. ASSUME NEW c \in Call, Withdraw(c) PROVE SlotsRespected'
  <2>1. call[c] \in CallState /\ Held(call[c], maxQuantity)
    BY DEF TypeInv, TypeOK, CallsHold
  <2>2. Placed' \subseteq Placed
    BY <1>19, <2>1 DEF Held, CallState, Placed, With, Slot, ApplicationStatus, TypeInv, TypeOK, Withdraw, Begin, Goto, End, Load, Read, terms, rows, history
  <2> QED
    BY <2>2, NoNewPlace
<1>20. ASSUME NEW c \in Call, LockCancel(c) PROVE SlotsRespected'
  <2>1. Placed' \subseteq Placed
    BY <1>20 DEF Placed, With, Slot, Waiting, Hired, ApplicationStatus, TypeInv, TypeOK, LockCancel, Begin, Goto, End, Load, Read, terms, rows, history
  <2> QED
    BY <2>1, NoNewPlace
<1>21. ASSUME NEW c \in Call, CommitCancel(c) PROVE SlotsRespected'
  <2>1. call[c] \in CallState /\ Held(call[c], maxQuantity)
    BY DEF TypeInv, TypeOK, CallsHold
  <2>2. Placed' \subseteq Placed
    BY <1>21, <2>1 DEF Held, CallState, Placed, With, Slot, ApplicationStatus, TypeInv, TypeOK, CommitCancel, CancelHire, Begin, Goto, End, Load, Read, Reopened, terms, rows, history
  <2> QED
    BY <2>2, NoNewPlace
<1>22. ASSUME NEW c \in Call, Lapse(c) PROVE SlotsRespected'
  <2>1. call[c] \in CallState /\ Held(call[c], maxQuantity)
    BY DEF TypeInv, TypeOK, CallsHold
  <2>2. Placed' \subseteq Placed
    BY <1>22, <2>1 DEF Held, CallState, Placed, With, Slot, ApplicationStatus, TypeInv, TypeOK, Lapse, CancelHire, Begin, Goto, End, Load, Read, terms, rows, history
  <2> QED
    BY <2>2, NoNewPlace
<1>23. ASSUME NEW c \in Call, RejectLeftovers(c) PROVE SlotsRespected'
  <2>1. Placed' \subseteq Placed
    BY <1>23 DEF Placed, With, Slot, Waiting, Hired, ApplicationStatus, TypeInv, TypeOK, RejectLeftovers, Begin, Goto, End, Load, Read, RejectAll, terms, rows, history
  <2> QED
    BY <2>1, NoNewPlace
<1>24. ASSUME NEW c \in Call, Confirm(c) PROVE SlotsRespected'
  <2>1. Placed' \subseteq Placed
    BY <1>24 DEF Placed, With, Slot, Waiting, Hired, ApplicationStatus, TypeInv, TypeOK, Confirm, Begin, Goto, End, Load, Read, CloseRecruitedOffer, Closed, Completed, terms, rows, history
  <2> QED
    BY <2>1, NoNewPlace
<1>25. ASSUME NEW c \in Call, Finish(c) PROVE SlotsRespected'
  <2>1. call[c] \in CallState /\ Held(call[c], maxQuantity)
    BY DEF TypeInv, TypeOK, CallsHold
  <2>2. Placed' \subseteq Placed
    BY <1>25, <2>1 DEF Held, CallState, Placed, With, Slot, ApplicationStatus, TypeInv, TypeOK, Finish, Begin, Goto, End, Load, Read, terms, rows, history
  <2> QED
    BY <2>2, NoNewPlace
<1>26. ASSUME NEW c \in Call, ReadClose(c) PROVE SlotsRespected'
  <2>1. Placed' \subseteq Placed
    BY <1>26 DEF Placed, With, Slot, Waiting, Hired, ApplicationStatus, TypeInv, TypeOK, ReadClose, Begin, Goto, End, Load, Read, terms, rows, history
  <2> QED
    BY <2>1, NoNewPlace
<1>27. ASSUME NEW c \in Call, WriteClose(c) PROVE SlotsRespected'
  <2>1. Placed' \subseteq Placed
    BY <1>27 DEF Placed, With, Slot, Waiting, Hired, ApplicationStatus, TypeInv, TypeOK, WriteClose, Begin, Goto, End, Load, Read, RejectAll, terms, rows, history
  <2> QED
    BY <2>1, NoNewPlace
<1>28. ASSUME NEW c \in Call, ReadDelete(c) PROVE SlotsRespected'
  <2>1. Placed' \subseteq Placed
    BY <1>28 DEF Placed, With, Slot, Waiting, Hired, ApplicationStatus, TypeInv, TypeOK, ReadDelete, Begin, Goto, End, Load, Read, terms, rows, history
  <2> QED
    BY <2>1, NoNewPlace
<1>29. ASSUME NEW c \in Call, WriteDelete(c) PROVE SlotsRespected'
  <2>1. Placed' \subseteq Placed
    BY <1>29 DEF Placed, With, Slot, Waiting, Hired, ApplicationStatus, TypeInv, TypeOK, WriteDelete, Begin, Goto, End, Load, Read, RejectAll, terms, rows, history
  <2> QED
    BY <2>1, NoNewPlace
<1>30. ASSUME NEW c \in Call, WriteAdmin(c) PROVE SlotsRespected'
  <2>1. call[c] \in CallState /\ Held(call[c], maxQuantity)
    BY DEF TypeInv, TypeOK, CallsHold
  <2>2. Placed' \subseteq Placed
    BY <1>30, <2>1 DEF Held, CallState, Placed, With, Slot, ApplicationStatus, TypeInv, TypeOK, WriteAdmin, Begin, Goto, End, Load, Read, terms, rows, history
  <2> QED
    BY <2>2, NoNewPlace
<1>31. ASSUME NEW c \in Call, FindWaiting(c) PROVE SlotsRespected'
  <2>1. Placed' \subseteq Placed
    BY <1>31 DEF Placed, With, Slot, Waiting, Hired, ApplicationStatus, TypeInv, TypeOK, FindWaiting, Begin, Goto, End, Load, Read, terms, rows, history
  <2> QED
    BY <2>1, NoNewPlace
<1>32. ASSUME NEW c \in Call, RejectWaiting(c) PROVE SlotsRespected'
  <2>1. Placed' \subseteq Placed
    BY <1>32 DEF Placed, With, Slot, Waiting, Hired, ApplicationStatus, TypeInv, TypeOK, RejectWaiting, Begin, Goto, End, Load, Read, RejectAll, terms, rows, history
  <2> QED
    BY <2>1, NoNewPlace
<1>33. ASSUME NEW c \in Call, ReadEdit(c) PROVE SlotsRespected'
  <2>1. Placed' \subseteq Placed
    BY <1>33 DEF Placed, With, Slot, Waiting, Hired, ApplicationStatus, TypeInv, TypeOK, ReadEdit, Begin, Goto, End, Load, Read, terms, rows, history
  <2> QED
    BY <2>1, NoNewPlace
<1>34. ASSUME NEW c \in Call, WriteEdit(c) PROVE SlotsRespected'
  <2>1. call[c] \in CallState /\ Held(call[c], maxQuantity)
    BY DEF TypeInv, TypeOK, CallsHold
  <2>2. Placed' \subseteq Placed
    BY <1>34, <2>1 DEF Held, CallState, Placed, With, Slot, ApplicationStatus, TypeInv, TypeOK, WriteEdit, Begin, Goto, End, Load, Read, terms, rows, history
  <2> QED
    BY <2>2, NoNewPlace
<1>35. ASSUME NEW c \in Call, Republish(c) PROVE SlotsRespected'
  <2>1. Placed' \subseteq Placed
    BY <1>35 DEF Placed, With, Slot, Waiting, Hired, ApplicationStatus, TypeInv, TypeOK, Republish, Begin, Goto, End, Load, Read, terms, rows, history
  <2> QED
    BY <2>1, NoNewPlace
<1>36. ASSUME NEW c \in Call, Start(c) PROVE SlotsRespected'
  <2>1. call[c] \in CallState /\ Held(call[c], maxQuantity)
    BY DEF TypeInv, TypeOK, CallsHold
  <2>2. Placed' \subseteq Placed
    BY <1>36, <2>1 DEF Held, CallState, Placed, With, Slot, ApplicationStatus, TypeInv, TypeOK, Start, Begin, Goto, End, Load, Read, terms, rows, history
  <2> QED
    BY <2>2, NoNewPlace
<1>37. ASSUME NEW c \in Call, UndoStart(c) PROVE SlotsRespected'
  <2>1. call[c] \in CallState /\ Held(call[c], maxQuantity)
    BY DEF TypeInv, TypeOK, CallsHold
  <2>2. Placed' \subseteq Placed
    BY <1>37, <2>1 DEF Held, CallState, Placed, With, Slot, ApplicationStatus, TypeInv, TypeOK, UndoStart, Begin, Goto, End, Load, Read, Reopened, terms, rows, history
  <2> QED
    BY <2>2, NoNewPlace
<1>38. ASSUME NEW c \in Call, Abort(c) PROVE SlotsRespected'
  <2>1. Placed' \subseteq Placed
    BY <1>38 DEF Placed, With, Slot, Waiting, Hired, ApplicationStatus, TypeInv, TypeOK, Abort, Begin, Goto, End, Load, Read, terms, rows, history
  <2> QED
    BY <2>1, NoNewPlace
<1>39. ASSUME ToggleDeleted PROVE SlotsRespected'
  <2>1. Placed' \subseteq Placed
    BY <1>39 DEF Placed, With, Slot, Waiting, Hired, ApplicationStatus, TypeInv, TypeOK, ToggleDeleted, Begin, Goto, End, Load, Read, ScanEnds, terms, rows, history
  <2> QED
    BY <2>1, NoNewPlace
<1>40. ASSUME TimePasses PROVE SlotsRespected'
  <2>1. Placed' \subseteq Placed
    BY <1>40 DEF Placed, With, Slot, Waiting, Hired, ApplicationStatus, TypeInv, TypeOK, TimePasses, Begin, Goto, End, Load, Read, ScanEnds, terms, rows, history
  <2> QED
    BY <2>1, NoNewPlace
<1>41. ASSUME ScanFind PROVE SlotsRespected'
  <2>1. Placed' \subseteq Placed
    BY <1>41 DEF Placed, With, Slot, Waiting, Hired, ApplicationStatus, TypeInv, TypeOK, ScanFind, Begin, Goto, End, Load, Read, ScanEnds, Find, terms, rows, history
  <2> QED
    BY <2>1, NoNewPlace
<1>42. ASSUME ExpireEmpty PROVE SlotsRespected'
  <2>1. Placed' \subseteq Placed
    BY <1>42 DEF Placed, With, Slot, Waiting, Hired, ApplicationStatus, TypeInv, TypeOK, ExpireEmpty, Begin, Goto, End, Load, Read, ScanEnds, terms, rows, history
  <2> QED
    BY <2>1, NoNewPlace
<1>43. ASSUME AutoStart PROVE SlotsRespected'
  <2>1. Placed' \subseteq Placed
    BY <1>43 DEF Placed, With, Slot, Waiting, Hired, ApplicationStatus, TypeInv, TypeOK, AutoStart, Begin, Goto, End, Load, Read, ScanEnds, terms, rows, history
  <2> QED
    BY <2>1, NoNewPlace
<1>44. ASSUME StopRecruiting PROVE SlotsRespected'
  <2>1. Placed' \subseteq Placed
    BY <1>44 DEF Placed, With, Slot, Waiting, Hired, ApplicationStatus, TypeInv, TypeOK, StopRecruiting, Begin, Goto, End, Load, Read, RejectAll, ScanEnds, terms, rows, history
  <2> QED
    BY <2>1, NoNewPlace
<1>45. ASSUME CloseAfterGrace PROVE SlotsRespected'
  <2>1. Placed' \subseteq Placed
    BY <1>45 DEF Placed, With, Slot, Waiting, Hired, ApplicationStatus, TypeInv, TypeOK, CloseAfterGrace, Begin, Goto, End, Load, Read, CloseRecruitedOffer, Closed, Completed, ScanEnds, terms, rows, history
  <2> QED
    BY <2>1, NoNewPlace
<1>46. ASSUME UNCHANGED vars PROVE SlotsRespected'
  <2>1. Placed' \subseteq Placed
    BY <1>46 DEF vars, rows, history, Placed, With
  <2> QED
    BY <2>1, NoNewPlace
<1>47. ASSUME NEW c \in Call, ReadFinish(c) PROVE SlotsRespected'
  <2>1. Placed' \subseteq Placed
    BY <1>47 DEF Placed, With, Slot, Waiting, Hired, ApplicationStatus, TypeInv, TypeOK, ReadFinish, Begin, Goto, End, Load, Read, terms, rows, history
  <2> QED
    BY <2>1, NoNewPlace
<1> QED
  BY <1>1, <1>2, <1>3, <1>4, <1>5, <1>6, <1>7, <1>8, <1>9, <1>10, <1>11,
     <1>12, <1>13, <1>14, <1>15, <1>16, <1>17, <1>18, <1>19, <1>20, <1>21,
     <1>22, <1>23, <1>24, <1>25, <1>26, <1>27, <1>28, <1>29, <1>30, <1>31,
     <1>32, <1>33, <1>34, <1>35, <1>36, <1>37, <1>38, <1>39, <1>40, <1>41,
     <1>42, <1>43, <1>44, <1>45, <1>46, <1>47
     DEF Next, Loads, Writes, ScanWrite

\* The promise of accept's count under the offer's row lock: no more people
\* hold a place they have not started on than the offer ever asked for,
\* whatever overlaps, however many calls run and whatever is forced.
THEOREM PlacesNeverGivenTwice == Spec => []SlotsRespected
<1>1. Init => SlotsRespected
  <2> SUFFICES ASSUME Init PROVE SlotsRespected
    OBVIOUS
  <2>1. With(Slot) \ rolledBack = {}
    BY DEF Init, With, Slot
  <2>2. maxQuantity \in Nat
    BY HiringAssumption DEF Init
  <2> QED
    BY <2>1, <2>2, FS_EmptySet DEF SlotsRespected
<1>2. TypeInv /\ SlotsRespected /\ [Next]_vars => SlotsRespected'
  BY SlotsStep
<1> QED
  BY <1>1, <1>2, TypeInvariant, PTL DEF Spec

\* One operation at a time, none of them an administrator's status, and no scan
\* that closed the offer while an ended hire was undone.
InSequence == overlaps = 0 /\ forced = {} /\ ~crossed

\* A history that is in sequence has always been.
LEMMA InSequenceStays ==
  ASSUME TypeInv, InSequence', [Next]_vars
  PROVE  InSequence
<1> USE HiringAssumption DEF vars, TypeInv, TypeOK, InSequence, terms, rows, history
<1>1. ASSUME NEW a \in Application, Apply(a) PROVE InSequence
  BY <1>1 DEF Apply, Begin, Goto, End, Load, Read
<1>2. ASSUME NEW c \in Call, NEW a \in Application, LoadAccept(c, a) PROVE InSequence
  BY <1>2 DEF LoadAccept, Begin, Goto, End, Load, Read
<1>3. ASSUME NEW c \in Call, NEW a \in Application, LoadReject(c, a) PROVE InSequence
  BY <1>3 DEF LoadReject, Begin, Goto, End, Load, Read
<1>4. ASSUME NEW c \in Call, NEW a \in Application, LoadCancel(c, a) PROVE InSequence
  BY <1>4 DEF LoadCancel, Begin, Goto, End, Load, Read
<1>5. ASSUME NEW c \in Call, NEW a \in Application, LoadLapse(c, a) PROVE InSequence
  BY <1>5 DEF LoadLapse, Begin, Goto, End, Load, Read
<1>6. ASSUME NEW c \in Call, NEW a \in Application, LoadFinish(c, a) PROVE InSequence
  BY <1>6 DEF LoadFinish, Begin, Goto, End, Load, Read
<1>7. ASSUME NEW c \in Call, NEW a \in Application, LoadStart(c, a) PROVE InSequence
  BY <1>7 DEF LoadStart, Begin, Goto, End, Load, Read
<1>8. ASSUME NEW c \in Call, NEW S \in SUBSET Application, Unlock(c, S) PROVE InSequence
  BY <1>8 DEF Unlock, Begin, Goto, End, Load, Read
<1>9. ASSUME NEW c \in Call, NEW s \in ForcedStatuses, LoadAdmin(c, s) PROVE InSequence
  BY <1>9 DEF LoadAdmin, Begin, Goto, End, Load, Read
<1>10. ASSUME NEW c \in Call, NEW q \in Quantities, LoadEdit(c, q) PROVE InSequence
  BY <1>10 DEF LoadEdit, Begin, Goto, End, Load, Read
<1>11. ASSUME NEW c \in Call, NEW q \in Quantities, LoadEditByAdmin(c, q) PROVE InSequence
  BY <1>11 DEF LoadEditByAdmin, Begin, Goto, End, Load, Read
<1>12. ASSUME NEW c \in Call, LoadConfirm(c) PROVE InSequence
  BY <1>12 DEF LoadConfirm, Begin, Goto, End, Load, Read
<1>13. ASSUME NEW c \in Call, LoadClose(c) PROVE InSequence
  BY <1>13 DEF LoadClose, Begin, Goto, End, Load, Read
<1>14. ASSUME NEW c \in Call, LoadDelete(c) PROVE InSequence
  BY <1>14 DEF LoadDelete, Begin, Goto, End, Load, Read
<1>15. ASSUME NEW c \in Call, LoadRepublish(c) PROVE InSequence
  BY <1>15 DEF LoadRepublish, Begin, Goto, End, Load, Read
<1>16. ASSUME NEW c \in Call, Archive(c) PROVE InSequence
  BY <1>16 DEF Archive, Begin, Goto, End, Load, Read
<1>17. ASSUME NEW c \in Call, Accept(c) PROVE InSequence
  BY <1>17 DEF Accept, Begin, Goto, End, Load, Read, Taken
<1>18. ASSUME NEW c \in Call, Reject(c) PROVE InSequence
  BY <1>18 DEF Reject, Begin, Goto, End, Load, Read, RejectAll
<1>19. ASSUME NEW c \in Call, Withdraw(c) PROVE InSequence
  BY <1>19 DEF Withdraw, Begin, Goto, End, Load, Read
<1>20. ASSUME NEW c \in Call, LockCancel(c) PROVE InSequence
  BY <1>20 DEF LockCancel, Begin, Goto, End, Load, Read
<1>21. ASSUME NEW c \in Call, CommitCancel(c) PROVE InSequence
  BY <1>21 DEF CommitCancel, CancelHire, Begin, Goto, End, Load, Read, Reopened
<1>22. ASSUME NEW c \in Call, Lapse(c) PROVE InSequence
  BY <1>22 DEF Lapse, CancelHire, Begin, Goto, End, Load, Read
<1>23. ASSUME NEW c \in Call, RejectLeftovers(c) PROVE InSequence
  BY <1>23 DEF RejectLeftovers, Begin, Goto, End, Load, Read, RejectAll
<1>24. ASSUME NEW c \in Call, Confirm(c) PROVE InSequence
  BY <1>24 DEF Confirm, Begin, Goto, End, Load, Read, CloseRecruitedOffer, Closed, Completed
<1>25. ASSUME NEW c \in Call, Finish(c) PROVE InSequence
  BY <1>25 DEF Finish, Begin, Goto, End, Load, Read
<1>26. ASSUME NEW c \in Call, ReadClose(c) PROVE InSequence
  BY <1>26 DEF ReadClose, Begin, Goto, End, Load, Read
<1>27. ASSUME NEW c \in Call, WriteClose(c) PROVE InSequence
  BY <1>27 DEF WriteClose, Begin, Goto, End, Load, Read, RejectAll
<1>28. ASSUME NEW c \in Call, ReadDelete(c) PROVE InSequence
  BY <1>28 DEF ReadDelete, Begin, Goto, End, Load, Read
<1>29. ASSUME NEW c \in Call, WriteDelete(c) PROVE InSequence
  BY <1>29 DEF WriteDelete, Begin, Goto, End, Load, Read, RejectAll
<1>30. ASSUME NEW c \in Call, WriteAdmin(c) PROVE InSequence
  BY <1>30 DEF WriteAdmin, Begin, Goto, End, Load, Read
<1>31. ASSUME NEW c \in Call, FindWaiting(c) PROVE InSequence
  BY <1>31 DEF FindWaiting, Begin, Goto, End, Load, Read
<1>32. ASSUME NEW c \in Call, RejectWaiting(c) PROVE InSequence
  BY <1>32 DEF RejectWaiting, Begin, Goto, End, Load, Read, RejectAll
<1>33. ASSUME NEW c \in Call, ReadEdit(c) PROVE InSequence
  BY <1>33 DEF ReadEdit, Begin, Goto, End, Load, Read
<1>34. ASSUME NEW c \in Call, WriteEdit(c) PROVE InSequence
  BY <1>34 DEF WriteEdit, Begin, Goto, End, Load, Read
<1>35. ASSUME NEW c \in Call, Republish(c) PROVE InSequence
  BY <1>35 DEF Republish, Begin, Goto, End, Load, Read
<1>36. ASSUME NEW c \in Call, Start(c) PROVE InSequence
  BY <1>36 DEF Start, Begin, Goto, End, Load, Read
<1>37. ASSUME NEW c \in Call, UndoStart(c) PROVE InSequence
  BY <1>37 DEF UndoStart, Begin, Goto, End, Load, Read, Reopened
<1>38. ASSUME NEW c \in Call, Abort(c) PROVE InSequence
  BY <1>38 DEF Abort, Begin, Goto, End, Load, Read
<1>39. ASSUME ToggleDeleted PROVE InSequence
  BY <1>39 DEF ToggleDeleted, Begin, Goto, End, Load, Read, ScanEnds
<1>40. ASSUME TimePasses PROVE InSequence
  BY <1>40 DEF TimePasses, Begin, Goto, End, Load, Read, ScanEnds
<1>41. ASSUME ScanFind PROVE InSequence
  BY <1>41 DEF ScanFind, Begin, Goto, End, Load, Read, ScanEnds, Find
<1>42. ASSUME ExpireEmpty PROVE InSequence
  BY <1>42 DEF ExpireEmpty, Begin, Goto, End, Load, Read, ScanEnds
<1>43. ASSUME AutoStart PROVE InSequence
  BY <1>43 DEF AutoStart, Begin, Goto, End, Load, Read, ScanEnds
<1>44. ASSUME StopRecruiting PROVE InSequence
  BY <1>44 DEF StopRecruiting, Begin, Goto, End, Load, Read, RejectAll, ScanEnds
<1>45. ASSUME CloseAfterGrace PROVE InSequence
  BY <1>45 DEF CloseAfterGrace, Begin, Goto, End, Load, Read, CloseRecruitedOffer, Closed, Completed, ScanEnds
<1>46. ASSUME UNCHANGED vars PROVE InSequence
  BY <1>46 DEF vars
<1>47. ASSUME NEW c \in Call, ReadFinish(c) PROVE InSequence
  BY <1>47 DEF ReadFinish, Begin, Goto, End, Load, Read
<1> QED
  BY <1>1, <1>2, <1>3, <1>4, <1>5, <1>6, <1>7, <1>8, <1>9, <1>10, <1>11,
     <1>12, <1>13, <1>14, <1>15, <1>16, <1>17, <1>18, <1>19, <1>20, <1>21,
     <1>22, <1>23, <1>24, <1>25, <1>26, <1>27, <1>28, <1>29, <1>30, <1>31,
     <1>32, <1>33, <1>34, <1>35, <1>36, <1>37, <1>38, <1>39, <1>40, <1>41,
     <1>42, <1>43, <1>44, <1>45, <1>46, <1>47
     DEF Next, Loads, Writes, ScanWrite

\* At most one call is in progress.
OneCall == \A c, d \in Call : call[c].pc # "idle" /\ call[d].pc # "idle" => c = d

\* The offer's status tells whether anyone holds a place: the property, and an
\* expired offer, which may be republished, has nobody either.
StatusTells ==
  /\ offer \in {"ACTIVE", "EXPIRED"} => With(Slot) = {}
  /\ offer = "PARTIALLY_FILLED" /\ ~past => With(Engaged) # {}

\* What a scan has found is still so, and the date has passed under the call that
\* it found in progress.
ScanTells ==
  /\ scan = "expire" => With({"ACCEPTED", "STARTED", "END"}) = {}
  /\ scan \in {"expire", "start", "stop"} /\ (\E c \in Call : call[c].pc # "idle") => past

\* What the call in progress has loaded still tells what it needs to: the answers
\* disturb no hire, a cancellation knows the hires it leaves, an expiry or a
\* republication that nobody is hired, a start that its own worker is.
CallTells(c) ==
  LET a == call[c].app
      loaded == call[c].offer
  IN /\ call[c].pc = "reject" => app[a] \notin Engaged
     /\ call[c].pc = "cancel" /\ call[c].status = "PENDING" => app[a] \notin Engaged
     /\ call[c].pc = "rejectFind" => call[c].which = {"PENDING"}
     /\ call[c].pc = "rejectWrite" => \A b \in call[c].ids : app[b] \notin Engaged
     /\ call[c].pc = "cancel" => call[c].status \in Waiting \cup {"ACCEPTED", "END"}
     /\ call[c].pc = "cancel" /\ call[c].status \in {"WAITING_PAYMENT", "ACCEPTED"}
          => app[a] \in Hired \cup Waiting \/ offer \in Terminal \/ past
     /\ call[c].pc = "reopen" =>
          /\ loaded = "ACTIVE" => With(Slot) \subseteq {a}
          /\ loaded = "none" => offer # "PARTIALLY_FILLED"
          /\ loaded = "PARTIALLY_FILLED" /\ ~past =>
               /\ With(Engaged) \ {a} # {}
               /\ call[c].status = "END" \/ app[a] \in Hired \cup Waiting
     /\ call[c].pc = "lapse" /\ loaded = "none" => past \/ offer # "PARTIALLY_FILLED"
     /\ call[c].pc \in {"close", "closeWrite"} /\ loaded # "PARTIALLY_FILLED" => With(Slot) = {}
     /\ call[c].pc \in {"delete", "deleteWrite", "edit", "editWrite"} => offer # "PARTIALLY_FILLED"
     /\ call[c].pc = "republish" => With(Slot) = {}
     /\ call[c].pc \in {"finish", "finishKept", "finishWrite"} => app[a] \in {"ACCEPTED", "STARTED", "END"}
     /\ call[c].pc \in {"start", "notify"} =>
          /\ app[a] \in Hired
          /\ loaded \notin {"ACTIVE", "EXPIRED"} /\ offer \notin {"ACTIVE", "EXPIRED"}

CallsTell == \A c \in Call : CallTells(c)

\* In sequence, calls and scans tell the truth and so does the status.
Sequential == InSequence => OneCall /\ StatusTells /\ ScanTells /\ CallsTell

\* A call that begins without overlapping finds nothing in progress.
LEMMA BeginsAlone ==
  ASSUME TypeInv, NEW c \in Call, NEW r, Begin(c, r), InSequence'
  PROVE  /\ scan = "idle" /\ \A d \in Call : call[d].pc = "idle"
         /\ call' = [call EXCEPT ![c] = r] /\ scan' = scan /\ call'[c] = r
<1>1. overlaps \in Nat /\ call \in [Call -> CallState]
  BY HiringAssumption DEF TypeInv, TypeOK
<1>2. ~Busy
  BY <1>1 DEF Begin, InSequence
<1> QED
  BY <1>1, <1>2 DEF Begin, Busy

\* Only one record changes, of the one call that was in progress.
LEMMA OneCallKept ==
  ASSUME TypeInv, NEW c \in Call, NEW r, call' = [call EXCEPT ![c] = r],
         \A d \in Call \ {c} : call[d].pc = "idle"
  PROVE  OneCall'
<1>1. \A d \in Call \ {c} : call'[d].pc = "idle"
  BY DEF TypeInv, TypeOK
<1> QED
  BY <1>1 DEF OneCall

\* The others are idle.
LEMMA OthersIdle ==
  ASSUME OneCall, NEW c \in Call, call[c].pc # "idle"
  PROVE  \A d \in Call \ {c} : call[d].pc = "idle"
  BY DEF OneCall

\* In sequence no call begins while another is in progress.
LEMMA OneCallStep ==
  ASSUME TypeInv, InSequence', OneCall, [Next]_vars
  PROVE  OneCall'
<1>1. ASSUME NEW a \in Application, Apply(a) PROVE OneCall'
  <2>1. call' = call
    BY <1>1 DEF Apply, Find, ScanEnds
  <2> QED
    BY <2>1 DEF OneCall
<1>2. ASSUME NEW c \in Call, NEW a \in Application, LoadAccept(c, a) PROVE OneCall'
  <2>1. PICK r : Begin(c, r)
    BY <1>2 DEF LoadAccept, Load
  <2> QED
    BY <2>1, BeginsAlone, OneCallKept
<1>3. ASSUME NEW c \in Call, NEW a \in Application, LoadReject(c, a) PROVE OneCall'
  <2>1. PICK r : Begin(c, r)
    BY <1>3 DEF LoadReject, Load
  <2> QED
    BY <2>1, BeginsAlone, OneCallKept
<1>4. ASSUME NEW c \in Call, NEW a \in Application, LoadCancel(c, a) PROVE OneCall'
  <2>1. PICK r : Begin(c, r)
    BY <1>4 DEF LoadCancel, Load
  <2> QED
    BY <2>1, BeginsAlone, OneCallKept
<1>5. ASSUME NEW c \in Call, NEW a \in Application, LoadLapse(c, a) PROVE OneCall'
  <2>1. PICK r : Begin(c, r)
    BY <1>5 DEF LoadLapse, Load
  <2> QED
    BY <2>1, BeginsAlone, OneCallKept
<1>6. ASSUME NEW c \in Call, NEW a \in Application, LoadFinish(c, a) PROVE OneCall'
  <2>1. PICK r : Begin(c, r)
    BY <1>6 DEF LoadFinish, Load
  <2> QED
    BY <2>1, BeginsAlone, OneCallKept
<1>7. ASSUME NEW c \in Call, NEW a \in Application, LoadStart(c, a) PROVE OneCall'
  <2>1. PICK r : Begin(c, r)
    BY <1>7 DEF LoadStart, Load
  <2> QED
    BY <2>1, BeginsAlone, OneCallKept
<1>8. ASSUME NEW c \in Call, NEW S \in SUBSET Application, Unlock(c, S) PROVE OneCall'
  <2>1. PICK r : Begin(c, r)
    BY <1>8 DEF Unlock, Load
  <2> QED
    BY <2>1, BeginsAlone, OneCallKept
<1>9. ASSUME NEW c \in Call, NEW s \in ForcedStatuses, LoadAdmin(c, s) PROVE OneCall'
  <2>1. PICK r : Begin(c, r)
    BY <1>9 DEF LoadAdmin, Load
  <2> QED
    BY <2>1, BeginsAlone, OneCallKept
<1>10. ASSUME NEW c \in Call, NEW q \in Quantities, LoadEdit(c, q) PROVE OneCall'
  <2>1. PICK r : Begin(c, r)
    BY <1>10 DEF LoadEdit, Load
  <2> QED
    BY <2>1, BeginsAlone, OneCallKept
<1>11. ASSUME NEW c \in Call, NEW q \in Quantities, LoadEditByAdmin(c, q) PROVE OneCall'
  <2>1. PICK r : Begin(c, r)
    BY <1>11 DEF LoadEditByAdmin, Load
  <2> QED
    BY <2>1, BeginsAlone, OneCallKept
<1>12. ASSUME NEW c \in Call, LoadConfirm(c) PROVE OneCall'
  <2>1. PICK r : Begin(c, r)
    BY <1>12 DEF LoadConfirm, Load
  <2> QED
    BY <2>1, BeginsAlone, OneCallKept
<1>13. ASSUME NEW c \in Call, LoadClose(c) PROVE OneCall'
  <2>1. PICK r : Begin(c, r)
    BY <1>13 DEF LoadClose, Load
  <2> QED
    BY <2>1, BeginsAlone, OneCallKept
<1>14. ASSUME NEW c \in Call, LoadDelete(c) PROVE OneCall'
  <2>1. PICK r : Begin(c, r)
    BY <1>14 DEF LoadDelete, Load
  <2> QED
    BY <2>1, BeginsAlone, OneCallKept
<1>15. ASSUME NEW c \in Call, LoadRepublish(c) PROVE OneCall'
  <2>1. PICK r : Begin(c, r)
    BY <1>15 DEF LoadRepublish, Load
  <2> QED
    BY <2>1, BeginsAlone, OneCallKept
<1>16. ASSUME NEW c \in Call, Archive(c) PROVE OneCall'
  <2>1. PICK r : Begin(c, r)
    BY <1>16 DEF Archive, Load
  <2> QED
    BY <2>1, BeginsAlone, OneCallKept
<1>17. ASSUME NEW c \in Call, Accept(c) PROVE OneCall'
  <2>1. PICK r : call[c].pc # "idle" /\ call' = [call EXCEPT ![c] = r]
    BY <1>17 DEF Accept, Read, Goto, End
  <2> QED
    BY <2>1, OthersIdle, OneCallKept
<1>18. ASSUME NEW c \in Call, Reject(c) PROVE OneCall'
  <2>1. PICK r : call[c].pc # "idle" /\ call' = [call EXCEPT ![c] = r]
    BY <1>18 DEF Reject, Read, Goto, End
  <2> QED
    BY <2>1, OthersIdle, OneCallKept
<1>19. ASSUME NEW c \in Call, Withdraw(c) PROVE OneCall'
  <2>1. PICK r : call[c].pc # "idle" /\ call' = [call EXCEPT ![c] = r]
    BY <1>19 DEF Withdraw, Read, Goto, End
  <2> QED
    BY <2>1, OthersIdle, OneCallKept
<1>20. ASSUME NEW c \in Call, LockCancel(c) PROVE OneCall'
  <2>1. PICK r : call[c].pc # "idle" /\ call' = [call EXCEPT ![c] = r]
    BY <1>20 DEF LockCancel, Read, Goto, End
  <2> QED
    BY <2>1, OthersIdle, OneCallKept
<1>21. ASSUME NEW c \in Call, CommitCancel(c) PROVE OneCall'
  <2>1. PICK r : call[c].pc # "idle" /\ call' = [call EXCEPT ![c] = r]
    BY <1>21 DEF CommitCancel, CancelHire, Read, Goto, End
  <2> QED
    BY <2>1, OthersIdle, OneCallKept
<1>22. ASSUME NEW c \in Call, Lapse(c) PROVE OneCall'
  <2>1. PICK r : call[c].pc # "idle" /\ call' = [call EXCEPT ![c] = r]
    BY <1>22 DEF Lapse, CancelHire, Read, Goto, End
  <2> QED
    BY <2>1, OthersIdle, OneCallKept
<1>23. ASSUME NEW c \in Call, RejectLeftovers(c) PROVE OneCall'
  <2>1. PICK r : call[c].pc # "idle" /\ call' = [call EXCEPT ![c] = r]
    BY <1>23 DEF RejectLeftovers, Read, Goto, End
  <2> QED
    BY <2>1, OthersIdle, OneCallKept
<1>24. ASSUME NEW c \in Call, Confirm(c) PROVE OneCall'
  <2>1. PICK r : call[c].pc # "idle" /\ call' = [call EXCEPT ![c] = r]
    BY <1>24 DEF Confirm, Read, Goto, End
  <2> QED
    BY <2>1, OthersIdle, OneCallKept
<1>25. ASSUME NEW c \in Call, Finish(c) PROVE OneCall'
  <2>1. PICK r : call[c].pc # "idle" /\ call' = [call EXCEPT ![c] = r]
    BY <1>25 DEF Finish, Read, Goto, End
  <2> QED
    BY <2>1, OthersIdle, OneCallKept
<1>26. ASSUME NEW c \in Call, ReadClose(c) PROVE OneCall'
  <2>1. PICK r : call[c].pc # "idle" /\ call' = [call EXCEPT ![c] = r]
    BY <1>26 DEF ReadClose, Read, Goto, End
  <2> QED
    BY <2>1, OthersIdle, OneCallKept
<1>27. ASSUME NEW c \in Call, WriteClose(c) PROVE OneCall'
  <2>1. PICK r : call[c].pc # "idle" /\ call' = [call EXCEPT ![c] = r]
    BY <1>27 DEF WriteClose, Read, Goto, End
  <2> QED
    BY <2>1, OthersIdle, OneCallKept
<1>28. ASSUME NEW c \in Call, ReadDelete(c) PROVE OneCall'
  <2>1. PICK r : call[c].pc # "idle" /\ call' = [call EXCEPT ![c] = r]
    BY <1>28 DEF ReadDelete, Read, Goto, End
  <2> QED
    BY <2>1, OthersIdle, OneCallKept
<1>29. ASSUME NEW c \in Call, WriteDelete(c) PROVE OneCall'
  <2>1. PICK r : call[c].pc # "idle" /\ call' = [call EXCEPT ![c] = r]
    BY <1>29 DEF WriteDelete, Read, Goto, End
  <2> QED
    BY <2>1, OthersIdle, OneCallKept
<1>30. ASSUME NEW c \in Call, WriteAdmin(c) PROVE OneCall'
  <2>1. PICK r : call[c].pc # "idle" /\ call' = [call EXCEPT ![c] = r]
    BY <1>30 DEF WriteAdmin, Read, Goto, End
  <2> QED
    BY <2>1, OthersIdle, OneCallKept
<1>31. ASSUME NEW c \in Call, FindWaiting(c) PROVE OneCall'
  <2>1. PICK r : call[c].pc # "idle" /\ call' = [call EXCEPT ![c] = r]
    BY <1>31 DEF FindWaiting, Read, Goto, End
  <2> QED
    BY <2>1, OthersIdle, OneCallKept
<1>32. ASSUME NEW c \in Call, RejectWaiting(c) PROVE OneCall'
  <2>1. PICK r : call[c].pc # "idle" /\ call' = [call EXCEPT ![c] = r]
    BY <1>32 DEF RejectWaiting, Read, Goto, End
  <2> QED
    BY <2>1, OthersIdle, OneCallKept
<1>33. ASSUME NEW c \in Call, ReadEdit(c) PROVE OneCall'
  <2>1. PICK r : call[c].pc # "idle" /\ call' = [call EXCEPT ![c] = r]
    BY <1>33 DEF ReadEdit, Read, Goto, End
  <2> QED
    BY <2>1, OthersIdle, OneCallKept
<1>34. ASSUME NEW c \in Call, WriteEdit(c) PROVE OneCall'
  <2>1. PICK r : call[c].pc # "idle" /\ call' = [call EXCEPT ![c] = r]
    BY <1>34 DEF WriteEdit, Read, Goto, End
  <2> QED
    BY <2>1, OthersIdle, OneCallKept
<1>35. ASSUME NEW c \in Call, Republish(c) PROVE OneCall'
  <2>1. PICK r : call[c].pc # "idle" /\ call' = [call EXCEPT ![c] = r]
    BY <1>35 DEF Republish, Read, Goto, End
  <2> QED
    BY <2>1, OthersIdle, OneCallKept
<1>36. ASSUME NEW c \in Call, Start(c) PROVE OneCall'
  <2>1. PICK r : call[c].pc # "idle" /\ call' = [call EXCEPT ![c] = r]
    BY <1>36 DEF Start, Read, Goto, End
  <2> QED
    BY <2>1, OthersIdle, OneCallKept
<1>37. ASSUME NEW c \in Call, UndoStart(c) PROVE OneCall'
  <2>1. PICK r : call[c].pc # "idle" /\ call' = [call EXCEPT ![c] = r]
    BY <1>37 DEF UndoStart, Read, Goto, End
  <2> QED
    BY <2>1, OthersIdle, OneCallKept
<1>38. ASSUME NEW c \in Call, Abort(c) PROVE OneCall'
  <2>1. PICK r : call[c].pc # "idle" /\ call' = [call EXCEPT ![c] = r]
    BY <1>38 DEF Abort, Read, Goto, End
  <2> QED
    BY <2>1, OthersIdle, OneCallKept
<1>39. ASSUME ToggleDeleted PROVE OneCall'
  <2>1. call' = call
    BY <1>39 DEF ToggleDeleted, Find, ScanEnds
  <2> QED
    BY <2>1 DEF OneCall
<1>40. ASSUME TimePasses PROVE OneCall'
  <2>1. call' = call
    BY <1>40 DEF TimePasses, Find, ScanEnds
  <2> QED
    BY <2>1 DEF OneCall
<1>41. ASSUME ScanFind PROVE OneCall'
  <2>1. call' = call
    BY <1>41 DEF ScanFind, Find, ScanEnds
  <2> QED
    BY <2>1 DEF OneCall
<1>42. ASSUME ExpireEmpty PROVE OneCall'
  <2>1. call' = call
    BY <1>42 DEF ExpireEmpty, Find, ScanEnds
  <2> QED
    BY <2>1 DEF OneCall
<1>43. ASSUME AutoStart PROVE OneCall'
  <2>1. call' = call
    BY <1>43 DEF AutoStart, Find, ScanEnds
  <2> QED
    BY <2>1 DEF OneCall
<1>44. ASSUME StopRecruiting PROVE OneCall'
  <2>1. call' = call
    BY <1>44 DEF StopRecruiting, Find, ScanEnds
  <2> QED
    BY <2>1 DEF OneCall
<1>45. ASSUME CloseAfterGrace PROVE OneCall'
  <2>1. call' = call
    BY <1>45 DEF CloseAfterGrace, Find, ScanEnds
  <2> QED
    BY <2>1 DEF OneCall
<1>46. ASSUME UNCHANGED vars PROVE OneCall'
  BY <1>46 DEF vars, OneCall
<1>47. ASSUME NEW c \in Call, ReadFinish(c) PROVE OneCall'
  <2>1. PICK r : call[c].pc # "idle" /\ call' = [call EXCEPT ![c] = r]
    BY <1>47 DEF ReadFinish, Read, Goto, End
  <2> QED
    BY <2>1, OthersIdle, OneCallKept
<1> QED
  BY <1>1, <1>2, <1>3, <1>4, <1>5, <1>6, <1>7, <1>8, <1>9, <1>10, <1>11,
     <1>12, <1>13, <1>14, <1>15, <1>16, <1>17, <1>18, <1>19, <1>20, <1>21,
     <1>22, <1>23, <1>24, <1>25, <1>26, <1>27, <1>28, <1>29, <1>30, <1>31,
     <1>32, <1>33, <1>34, <1>35, <1>36, <1>37, <1>38, <1>39, <1>40, <1>41,
     <1>42, <1>43, <1>44, <1>45, <1>46, <1>47
     DEF Next, Loads, Writes, ScanWrite

\* Nobody takes a place and nobody who was hired is dropped.
LEMMA StatusKept ==
  ASSUME StatusTells, offer' = offer, past => past',
         \A b \in Application : app'[b] \in Slot => app[b] \in Slot,
         \A b \in Application : app[b] \in Engaged => app'[b] \in Engaged
  PROVE  StatusTells'
  BY DEF StatusTells, With

\* The status no longer says whether anyone is hired.
LEMMA StatusSilent ==
  ASSUME offer' \notin {"ACTIVE", "EXPIRED", "PARTIALLY_FILLED"}
  PROVE  StatusTells'
  BY DEF StatusTells

\* The closing of a recruited offer leaves its rows or completes it.
LEMMA ClosingSilent ==
  ASSUME StatusTells, CloseRecruitedOffer, past' = past
  PROVE  StatusTells'
<1>1. CASE offer = "COMPLETED"
  BY <1>1, StatusSilent DEF CloseRecruitedOffer, rows
<1>2. CASE offer # "COMPLETED"
  BY <1>2, StatusSilent DEF CloseRecruitedOffer
<1> QED
  BY <1>1, <1>2

\* In sequence the status goes on telling the truth.
LEMMA StatusStep ==
  ASSUME TypeInv, InSequence', StatusTells, ScanTells, CallsTell, [Next]_vars
  PROVE  StatusTells'
<1>1. ASSUME NEW a \in Application, Apply(a) PROVE StatusTells'
  <2>0. app \in [Application -> ApplicationStatus]
    BY DEF TypeInv, TypeOK
  <2>1. offer' = offer /\ past' = past
    BY <1>1 DEF Apply, terms
  <2>2. \A b \in Application : app'[b] \in Slot => app[b] \in Slot
    BY <1>1, <2>0 DEF Apply, Slot
  <2>3. \A b \in Application : app[b] \in Engaged => app'[b] \in Engaged
    BY <1>1, <2>0 DEF Apply, Engaged
  <2> QED
    BY <2>1, <2>2, <2>3, StatusKept
<1>2. ASSUME NEW c \in Call, NEW a \in Application, LoadAccept(c, a) PROVE StatusTells'
  <2>1. UNCHANGED <<app, offer>> /\ (past => past')
    BY <1>2 DEF LoadAccept, Load, Read, Find, terms, rows
  <2> QED
    BY <2>1, StatusKept
<1>3. ASSUME NEW c \in Call, NEW a \in Application, LoadReject(c, a) PROVE StatusTells'
  <2>1. UNCHANGED <<app, offer>> /\ (past => past')
    BY <1>3 DEF LoadReject, Load, Read, Find, terms, rows
  <2> QED
    BY <2>1, StatusKept
<1>4. ASSUME NEW c \in Call, NEW a \in Application, LoadCancel(c, a) PROVE StatusTells'
  <2>1. UNCHANGED <<app, offer>> /\ (past => past')
    BY <1>4 DEF LoadCancel, Load, Read, Find, terms, rows
  <2> QED
    BY <2>1, StatusKept
<1>5. ASSUME NEW c \in Call, NEW a \in Application, LoadLapse(c, a) PROVE StatusTells'
  <2>1. UNCHANGED <<app, offer>> /\ (past => past')
    BY <1>5 DEF LoadLapse, Load, Read, Find, terms, rows
  <2> QED
    BY <2>1, StatusKept
<1>6. ASSUME NEW c \in Call, NEW a \in Application, LoadFinish(c, a) PROVE StatusTells'
  <2>1. UNCHANGED <<app, offer>> /\ (past => past')
    BY <1>6 DEF LoadFinish, Load, Read, Find, terms, rows
  <2> QED
    BY <2>1, StatusKept
<1>7. ASSUME NEW c \in Call, NEW a \in Application, LoadStart(c, a) PROVE StatusTells'
  <2>1. UNCHANGED <<app, offer>> /\ (past => past')
    BY <1>7 DEF LoadStart, Load, Read, Find, terms, rows
  <2> QED
    BY <2>1, StatusKept
<1>8. ASSUME NEW c \in Call, NEW S \in SUBSET Application, Unlock(c, S) PROVE StatusTells'
  <2>0. app \in [Application -> ApplicationStatus]
    BY DEF TypeInv, TypeOK
  <2>1. offer' = offer /\ past' = past
    BY <1>8 DEF Unlock, terms
  <2>2. \A b \in Application : app'[b] \in Slot => app[b] \in Slot
    BY <1>8, <2>0 DEF Unlock, Slot
  <2>3. \A b \in Application : app[b] \in Engaged => app'[b] \in Engaged
    BY <1>8, <2>0 DEF Unlock, Engaged
  <2> QED
    BY <2>1, <2>2, <2>3, StatusKept
<1>9. ASSUME NEW c \in Call, NEW s \in ForcedStatuses, LoadAdmin(c, s) PROVE StatusTells'
  <2>1. UNCHANGED <<app, offer>> /\ (past => past')
    BY <1>9 DEF LoadAdmin, Load, Read, Find, terms, rows
  <2> QED
    BY <2>1, StatusKept
<1>10. ASSUME NEW c \in Call, NEW q \in Quantities, LoadEdit(c, q) PROVE StatusTells'
  <2>1. UNCHANGED <<app, offer>> /\ (past => past')
    BY <1>10 DEF LoadEdit, Load, Read, Find, terms, rows
  <2> QED
    BY <2>1, StatusKept
<1>11. ASSUME NEW c \in Call, NEW q \in Quantities, LoadEditByAdmin(c, q) PROVE StatusTells'
  <2>1. UNCHANGED <<app, offer>> /\ (past => past')
    BY <1>11 DEF LoadEditByAdmin, Load, Read, Find, terms, rows
  <2> QED
    BY <2>1, StatusKept
<1>12. ASSUME NEW c \in Call, LoadConfirm(c) PROVE StatusTells'
  <2>1. UNCHANGED <<app, offer>> /\ (past => past')
    BY <1>12 DEF LoadConfirm, Load, Read, Find, terms, rows
  <2> QED
    BY <2>1, StatusKept
<1>13. ASSUME NEW c \in Call, LoadClose(c) PROVE StatusTells'
  <2>1. UNCHANGED <<app, offer>> /\ (past => past')
    BY <1>13 DEF LoadClose, Load, Read, Find, terms, rows
  <2> QED
    BY <2>1, StatusKept
<1>14. ASSUME NEW c \in Call, LoadDelete(c) PROVE StatusTells'
  <2>1. UNCHANGED <<app, offer>> /\ (past => past')
    BY <1>14 DEF LoadDelete, Load, Read, Find, terms, rows
  <2> QED
    BY <2>1, StatusKept
<1>15. ASSUME NEW c \in Call, LoadRepublish(c) PROVE StatusTells'
  <2>1. UNCHANGED <<app, offer>> /\ (past => past')
    BY <1>15 DEF LoadRepublish, Load, Read, Find, terms, rows
  <2> QED
    BY <2>1, StatusKept
<1>16. ASSUME NEW c \in Call, Archive(c) PROVE StatusTells'
  <2>1. UNCHANGED <<app, offer>> /\ (past => past')
    BY <1>16 DEF Archive, Load, Read, Find, terms, rows
  <2> QED
    BY <2>1, StatusKept
<1>17. ASSUME NEW c \in Call, Accept(c) PROVE StatusTells'
  <2>1. /\ app \in [Application -> ApplicationStatus] /\ call[c].app \in Application
        /\ offer' \in {"FILLED", "PARTIALLY_FILLED"}
    BY <1>17 DEF TypeInv, TypeOK, CallsHold, Held, Accept
  <2>2. app'[call[c].app] = "WAITING_PAYMENT"
    BY <1>17, <2>1 DEF Accept
  <2> QED
    BY <2>1, <2>2 DEF StatusTells, With, Engaged
<1>18. ASSUME NEW c \in Call, Reject(c) PROVE StatusTells'
  <2>0. app \in [Application -> ApplicationStatus] /\ call[c].app \in Application
    BY <1>18 DEF TypeInv, TypeOK, CallsHold, Held, Reject
  <2>1. offer' = offer /\ past' = past
    BY <1>18 DEF Reject, terms
  <2>2. \A b \in Application : app'[b] \in Slot => app[b] \in Slot
    BY <1>18, <2>0 DEF Reject, Slot, RejectAll, CallTells, CallsTell
  <2>3. \A b \in Application : app[b] \in Engaged => app'[b] \in Engaged
    BY <1>18, <2>0 DEF Reject, Engaged, RejectAll, CallTells, CallsTell
  <2> QED
    BY <2>1, <2>2, <2>3, StatusKept
<1>19. ASSUME NEW c \in Call, Withdraw(c) PROVE StatusTells'
  <2>0. app \in [Application -> ApplicationStatus] /\ call[c].app \in Application
    BY <1>19 DEF TypeInv, TypeOK, CallsHold, Held, Withdraw
  <2>1. offer' = offer /\ past' = past
    BY <1>19 DEF Withdraw, terms
  <2>2. \A b \in Application : app'[b] \in Slot => app[b] \in Slot
    BY <1>19, <2>0 DEF Withdraw, Slot, CallTells, CallsTell
  <2>3. \A b \in Application : app[b] \in Engaged => app'[b] \in Engaged
    BY <1>19, <2>0 DEF Withdraw, Engaged, CallTells, CallsTell
  <2> QED
    BY <2>1, <2>2, <2>3, StatusKept
<1>20. ASSUME NEW c \in Call, LockCancel(c) PROVE StatusTells'
  <2>1. UNCHANGED <<app, offer>> /\ (past => past')
    BY <1>20 DEF LockCancel, Load, Read, Find, terms, rows
  <2> QED
    BY <2>1, StatusKept
<1>21. ASSUME NEW c \in Call, CommitCancel(c) PROVE StatusTells'
  <2>0. app \in [Application -> ApplicationStatus] /\ call[c].app \in Application
    BY <1>21 DEF TypeInv, TypeOK, CallsHold, Held, CommitCancel, CancelHire
  <2>1. /\ call[c].pc = "reopen" /\ past' = past /\ app' = [app EXCEPT ![call[c].app] = "CANCELLED"]
        /\ offer' = IF call[c].offer = "none" THEN offer ELSE call[c].offer
        /\ call[c].offer \in {"none", "ACTIVE", "PARTIALLY_FILLED"}
    BY <1>21 DEF CommitCancel, CancelHire, Reopened, terms, TypeInv, CallsHold, Held
  <2>2. \A b \in Application : app'[b] \in Slot => app[b] \in Slot /\ b # call[c].app
    BY <2>0, <2>1 DEF Slot
  <2>3. With(Slot)' = With(Slot) \ {call[c].app} /\ With(Engaged)' = With(Engaged) \ {call[c].app}
    BY <2>0, <2>1 DEF With, Slot, Engaged
  <2>4. CASE call[c].offer = "none"
    BY <2>1, <2>3, <2>4 DEF StatusTells, CallsTell, CallTells
  <2>5. CASE call[c].offer = "ACTIVE"
    BY <2>1, <2>3, <2>5 DEF StatusTells, CallsTell, CallTells
  <2>6. CASE call[c].offer = "PARTIALLY_FILLED"
    BY <2>1, <2>3, <2>6 DEF StatusTells, CallsTell, CallTells
  <2> QED
    BY <2>1, <2>4, <2>5, <2>6
<1>22. ASSUME NEW c \in Call, Lapse(c) PROVE StatusTells'
  <2>0. app \in [Application -> ApplicationStatus] /\ call[c].app \in Application
    BY <1>22 DEF TypeInv, TypeOK, CallsHold, Held, Lapse, CancelHire
  <2> DEFINE left == With(Slot) \ {call[c].app}
  <2>1. /\ call[c].pc = "lapse" /\ past' = past /\ app' = [app EXCEPT ![call[c].app] = "CANCELLED"]
        /\ offer' = IF call[c].offer = "none" THEN offer
                    ELSE IF Cardinality(left) >= call[c].quantity THEN "FILLED"
                    ELSE IF Cardinality(left) > 0 THEN "PARTIALLY_FILLED" ELSE "ACTIVE"
    BY <1>22 DEF Lapse, CancelHire, terms
  <2>2. With(Slot)' = left /\ With(Engaged)' = With(Engaged) \ {call[c].app}
    BY <2>0, <2>1 DEF With, Slot, Engaged
  <2>3. left \subseteq With(Engaged)'
    BY <2>2 DEF With, Slot, Engaged
  <2>4. IsFiniteSet(left)
    BY HiringAssumption, FS_Subset DEF With
  <2>5. Cardinality(left) \in Nat /\ (Cardinality(left) = 0 <=> left = {})
    BY <2>4, FS_CardinalityType, FS_EmptySet
  <2>6. CASE call[c].offer = "none"
    BY <2>1, <2>2, <2>6 DEF StatusTells, CallsTell, CallTells
  <2>7. CASE call[c].offer # "none" /\ Cardinality(left) > 0
    <3>1. offer' \in {"FILLED", "PARTIALLY_FILLED"}
      BY <2>1, <2>7
    <3>2. With(Engaged)' # {}
      BY <2>3, <2>5, <2>7
    <3> QED
      BY <3>1, <3>2 DEF StatusTells
  <2>8. CASE call[c].offer # "none" /\ Cardinality(left) = 0
    <3>1. offer' \in {"FILLED", "ACTIVE"}
      BY <2>1, <2>8
    <3> QED
      BY <2>2, <2>5, <2>8, <3>1 DEF StatusTells
  <2> QED
    BY <2>5, <2>6, <2>7, <2>8
<1>23. ASSUME NEW c \in Call, RejectLeftovers(c) PROVE StatusTells'
  <2>1. CASE offer' = "FILLED"
    BY <2>1, StatusSilent
  <2>2. CASE offer' # "FILLED"
    <3>1. UNCHANGED <<offer, app, past>>
      BY <1>23, <2>2 DEF RejectLeftovers, terms
    <3> QED
      BY <3>1, StatusKept
  <2> QED
    BY <2>1, <2>2
<1>24. ASSUME NEW c \in Call, Confirm(c) PROVE StatusTells'
  BY <1>24, ClosingSilent DEF Confirm, terms
<1>25. ASSUME NEW c \in Call, Finish(c) PROVE StatusTells'
  <2>0. app \in [Application -> ApplicationStatus] /\ call[c].app \in Application
    BY <1>25 DEF TypeInv, TypeOK, CallsHold, Held, Finish
  <2>1. CASE offer' = "COMPLETED"
    BY <2>1, StatusSilent
  <2>2. CASE offer' # "COMPLETED"
    <3>1. /\ offer' = offer /\ past' = past
          /\ app' = IF call[c].status = "END" THEN app ELSE [app EXCEPT ![call[c].app] = "END"]
      BY <1>25, <2>2 DEF Finish, terms
    <3>2. app[call[c].app] \in {"ACCEPTED", "STARTED", "END"}
      BY <1>25 DEF Finish, CallsTell, CallTells
    <3>3. \A b \in Application : app'[b] \in Slot => app[b] \in Slot
      BY <2>0, <3>1 DEF Slot
    <3>4. \A b \in Application : app[b] \in Engaged => app'[b] \in Engaged
      BY <2>0, <3>1, <3>2 DEF Engaged
    <3> QED
      BY <3>1, <3>3, <3>4, StatusKept
  <2> QED
    BY <2>1, <2>2
<1>26. ASSUME NEW c \in Call, ReadClose(c) PROVE StatusTells'
  <2>1. UNCHANGED <<app, offer>> /\ (past => past')
    BY <1>26 DEF ReadClose, Load, Read, Find, terms, rows
  <2> QED
    BY <2>1, StatusKept
<1>27. ASSUME NEW c \in Call, WriteClose(c) PROVE StatusTells'
  <2>1. offer' \in {"FILLED", "EXPIRED"} /\ (offer' = "EXPIRED" => With(Slot) = {})
    BY <1>27 DEF WriteClose, CallsTell, CallTells
  <2>2. \A b \in Application : app'[b] \in Slot => app[b] \in Slot
    BY <1>27 DEF WriteClose, RejectAll, Slot
  <2> QED
    BY <2>1, <2>2 DEF StatusTells, With
<1>28. ASSUME NEW c \in Call, ReadDelete(c) PROVE StatusTells'
  <2>1. UNCHANGED <<app, offer>> /\ (past => past')
    BY <1>28 DEF ReadDelete, Load, Read, Find, terms, rows
  <2> QED
    BY <2>1, StatusKept
<1>29. ASSUME NEW c \in Call, WriteDelete(c) PROVE StatusTells'
  <2>1. offer' = offer /\ offer # "PARTIALLY_FILLED"
    BY <1>29 DEF WriteDelete, CallsTell, CallTells
  <2>2. \A b \in Application : app'[b] \in Slot => app[b] \in Slot
    BY <1>29 DEF WriteDelete, RejectAll, Slot
  <2> QED
    BY <2>1, <2>2 DEF StatusTells, With
<1>30. ASSUME NEW c \in Call, WriteAdmin(c) PROVE StatusTells'
  <2>1. forced' # {}
    BY <1>30 DEF WriteAdmin
  <2> QED
    BY <2>1 DEF InSequence
<1>31. ASSUME NEW c \in Call, FindWaiting(c) PROVE StatusTells'
  <2>1. UNCHANGED <<app, offer>> /\ (past => past')
    BY <1>31 DEF FindWaiting, Load, Read, Find, terms, rows
  <2> QED
    BY <2>1, StatusKept
<1>32. ASSUME NEW c \in Call, RejectWaiting(c) PROVE StatusTells'
  <2>0. app \in [Application -> ApplicationStatus]
    BY DEF TypeInv, TypeOK
  <2>1. offer' = offer /\ past' = past
    BY <1>32 DEF RejectWaiting, terms
  <2>2. \A b \in Application : app'[b] \in Slot => app[b] \in Slot
    BY <1>32, <2>0 DEF RejectWaiting, Slot, RejectAll, CallTells, CallsTell
  <2>3. \A b \in Application : app[b] \in Engaged => app'[b] \in Engaged
    BY <1>32, <2>0 DEF RejectWaiting, Engaged, RejectAll, CallTells, CallsTell
  <2> QED
    BY <2>1, <2>2, <2>3, StatusKept
<1>33. ASSUME NEW c \in Call, ReadEdit(c) PROVE StatusTells'
  <2>1. UNCHANGED <<app, offer>> /\ (past => past')
    BY <1>33 DEF ReadEdit, Load, Read, Find, terms, rows
  <2> QED
    BY <2>1, StatusKept
<1>34. ASSUME NEW c \in Call, WriteEdit(c) PROVE StatusTells'
  <2>1. UNCHANGED <<app, offer>> /\ offer # "PARTIALLY_FILLED"
    BY <1>34 DEF WriteEdit, rows, CallsTell, CallTells
  <2> QED
    BY <2>1 DEF StatusTells, With
<1>35. ASSUME NEW c \in Call, Republish(c) PROVE StatusTells'
  <2>1. offer' = "ACTIVE" /\ app' = app /\ With(Slot) = {}
    BY <1>35 DEF Republish, CallsTell, CallTells
  <2> QED
    BY <2>1 DEF StatusTells, With
<1>36. ASSUME NEW c \in Call, Start(c) PROVE StatusTells'
  <2>0. app \in [Application -> ApplicationStatus] /\ call[c].app \in Application
    BY <1>36 DEF TypeInv, TypeOK, CallsHold, Held, Start
  <2>1. CASE offer' = "IN_PROGRESS"
    BY <2>1, StatusSilent
  <2>2. CASE offer' # "IN_PROGRESS"
    <3>1. /\ offer' = offer /\ past' = past
          /\ app' = [app EXCEPT ![call[c].app] = "STARTED"]
      BY <1>36, <2>2 DEF Start, terms
    <3>2. \A b \in Application : app'[b] \in Slot => app[b] \in Slot
      BY <2>0, <3>1 DEF Slot
    <3>3. \A b \in Application : app[b] \in Engaged => app'[b] \in Engaged
      BY <2>0, <3>1 DEF Engaged
    <3> QED
      BY <3>1, <3>2, <3>3, StatusKept
  <2> QED
    BY <2>1, <2>2
<1>37. ASSUME NEW c \in Call, UndoStart(c) PROVE StatusTells'
  <2>0. app \in [Application -> ApplicationStatus] /\ call[c].app \in Application
    BY <1>37 DEF TypeInv, TypeOK, CallsHold, Held, UndoStart
  <2>1. /\ call[c].pc = "notify" /\ app' = [app EXCEPT ![call[c].app] = "ACCEPTED"]
        /\ offer' = IF call[c].offer = "none" THEN offer ELSE call[c].offer
    BY <1>37 DEF UndoStart, Reopened
  <2>2. offer' \notin {"ACTIVE", "EXPIRED"}
    BY <2>1 DEF CallsTell, CallTells
  <2>3. app'[call[c].app] = "ACCEPTED"
    BY <2>0, <2>1
  <2> QED
    BY <2>0, <2>2, <2>3 DEF StatusTells, With, Engaged
<1>38. ASSUME NEW c \in Call, Abort(c) PROVE StatusTells'
  <2>1. UNCHANGED <<app, offer>> /\ (past => past')
    BY <1>38 DEF Abort, Load, Read, Find, terms, rows
  <2> QED
    BY <2>1, StatusKept
<1>39. ASSUME ToggleDeleted PROVE StatusTells'
  <2>1. UNCHANGED <<app, offer>> /\ (past => past')
    BY <1>39 DEF ToggleDeleted, Load, Read, Find, terms, rows
  <2> QED
    BY <2>1, StatusKept
<1>40. ASSUME TimePasses PROVE StatusTells'
  <2>1. UNCHANGED <<app, offer>> /\ (past => past')
    BY <1>40 DEF TimePasses, Load, Read, Find, terms, rows
  <2> QED
    BY <2>1, StatusKept
<1>41. ASSUME ScanFind PROVE StatusTells'
  <2>1. UNCHANGED <<app, offer>> /\ (past => past')
    BY <1>41 DEF ScanFind, Load, Read, Find, terms, rows
  <2> QED
    BY <2>1, StatusKept
<1>42. ASSUME ExpireEmpty PROVE StatusTells'
  <2>1. offer' = "EXPIRED" /\ With({"ACCEPTED", "STARTED", "END"}) = {}
    BY <1>42 DEF ExpireEmpty, ScanTells
  <2>2. \A b \in Application : app'[b] \notin Slot
    BY <1>42, <2>1 DEF ExpireEmpty, With, Slot, Waiting
  <2> QED
    BY <2>1, <2>2 DEF StatusTells, With
<1>43. ASSUME AutoStart PROVE StatusTells'
  BY <1>43, StatusSilent DEF AutoStart
<1>44. ASSUME StopRecruiting PROVE StatusTells'
  BY <1>44, StatusSilent DEF StopRecruiting
<1>45. ASSUME CloseAfterGrace PROVE StatusTells'
  BY <1>45, ClosingSilent DEF CloseAfterGrace, ScanEnds, terms
<1>46. ASSUME UNCHANGED vars PROVE StatusTells'
  BY <1>46, StatusKept DEF vars, terms, rows
<1>47. ASSUME NEW c \in Call, ReadFinish(c) PROVE StatusTells'
  <2>1. UNCHANGED <<app, offer>> /\ (past => past')
    BY <1>47 DEF ReadFinish, Load, Read, Find, terms, rows
  <2> QED
    BY <2>1, StatusKept
<1> QED
  BY <1>1, <1>2, <1>3, <1>4, <1>5, <1>6, <1>7, <1>8, <1>9, <1>10, <1>11,
     <1>12, <1>13, <1>14, <1>15, <1>16, <1>17, <1>18, <1>19, <1>20, <1>21,
     <1>22, <1>23, <1>24, <1>25, <1>26, <1>27, <1>28, <1>29, <1>30, <1>31,
     <1>32, <1>33, <1>34, <1>35, <1>36, <1>37, <1>38, <1>39, <1>40, <1>41,
     <1>42, <1>43, <1>44, <1>45, <1>46, <1>47
     DEF Next, Loads, Writes, ScanWrite

\* Nobody is hired, and the date and the call in progress do not change.
LEMMA ScanKept ==
  ASSUME ScanTells, scan' = scan, past => past',
         \A d \in Call : call'[d].pc # "idle" => \E e \in Call : call[e].pc # "idle",
         scan = "expire" =>
           \A b \in Application :
             app'[b] \in {"ACCEPTED", "STARTED", "END"} => app[b] \in {"ACCEPTED", "STARTED", "END"}
  PROVE  ScanTells'
  BY DEF ScanTells, With

\* A scan that has nothing to write.
LEMMA ScanSilent ==
  ASSUME scan' \in {"idle", "close"} PROVE ScanTells'
  BY DEF ScanTells

\* The scan's write may be about to come when the call that it found ends.
LEMMA ScanOutlivesCall ==
  ASSUME TypeInv, OneCall, ScanTells, scan' = scan, NEW c \in Call, call[c].pc # "idle",
         call' = [call EXCEPT ![c] = Idle],
         scan = "expire" =>
           \A b \in Application :
             app'[b] \in {"ACCEPTED", "STARTED", "END"} => app[b] \in {"ACCEPTED", "STARTED", "END"}
  PROVE  ScanTells'
<1>1. \A d \in Call : call'[d].pc = "idle"
  BY OthersIdle DEF TypeInv, TypeOK, Idle
<1>2. scan = "expire" => With({"ACCEPTED", "STARTED", "END"})' = {}
  BY DEF ScanTells, With
<1> QED
  BY <1>1, <1>2 DEF ScanTells

\* In sequence the scan's finding stays true until its write.
LEMMA ScanStep ==
  ASSUME TypeInv, InSequence', OneCall, ScanTells, CallsTell, [Next]_vars
  PROVE  ScanTells'
<1>1. ASSUME NEW a \in Application, Apply(a) PROVE ScanTells'
  <2>1. app \in [Application -> ApplicationStatus] /\ UNCHANGED <<scan, past, call>>
    BY <1>1 DEF Apply, terms, TypeInv, TypeOK
  <2>2. \A b \in Application :
          app'[b] \in {"ACCEPTED", "STARTED", "END"} => app[b] \in {"ACCEPTED", "STARTED", "END"}
    BY <1>1, <2>1 DEF Apply
  <2> QED
    BY <2>1, <2>2, ScanKept
<1>2. ASSUME NEW c \in Call, NEW a \in Application, LoadAccept(c, a) PROVE ScanTells'
  <2>1. PICK r : Begin(c, r)
    BY <1>2 DEF LoadAccept, Load
  <2> QED
    BY <2>1, BeginsAlone, ScanSilent
<1>3. ASSUME NEW c \in Call, NEW a \in Application, LoadReject(c, a) PROVE ScanTells'
  <2>1. PICK r : Begin(c, r)
    BY <1>3 DEF LoadReject, Load
  <2> QED
    BY <2>1, BeginsAlone, ScanSilent
<1>4. ASSUME NEW c \in Call, NEW a \in Application, LoadCancel(c, a) PROVE ScanTells'
  <2>1. PICK r : Begin(c, r)
    BY <1>4 DEF LoadCancel, Load
  <2> QED
    BY <2>1, BeginsAlone, ScanSilent
<1>5. ASSUME NEW c \in Call, NEW a \in Application, LoadLapse(c, a) PROVE ScanTells'
  <2>1. PICK r : Begin(c, r)
    BY <1>5 DEF LoadLapse, Load
  <2> QED
    BY <2>1, BeginsAlone, ScanSilent
<1>6. ASSUME NEW c \in Call, NEW a \in Application, LoadFinish(c, a) PROVE ScanTells'
  <2>1. PICK r : Begin(c, r)
    BY <1>6 DEF LoadFinish, Load
  <2> QED
    BY <2>1, BeginsAlone, ScanSilent
<1>7. ASSUME NEW c \in Call, NEW a \in Application, LoadStart(c, a) PROVE ScanTells'
  <2>1. PICK r : Begin(c, r)
    BY <1>7 DEF LoadStart, Load
  <2> QED
    BY <2>1, BeginsAlone, ScanSilent
<1>8. ASSUME NEW c \in Call, NEW S \in SUBSET Application, Unlock(c, S) PROVE ScanTells'
  <2>1. PICK r : Begin(c, r)
    BY <1>8 DEF Unlock, Load
  <2> QED
    BY <2>1, BeginsAlone, ScanSilent
<1>9. ASSUME NEW c \in Call, NEW s \in ForcedStatuses, LoadAdmin(c, s) PROVE ScanTells'
  <2>1. PICK r : Begin(c, r)
    BY <1>9 DEF LoadAdmin, Load
  <2> QED
    BY <2>1, BeginsAlone, ScanSilent
<1>10. ASSUME NEW c \in Call, NEW q \in Quantities, LoadEdit(c, q) PROVE ScanTells'
  <2>1. PICK r : Begin(c, r)
    BY <1>10 DEF LoadEdit, Load
  <2> QED
    BY <2>1, BeginsAlone, ScanSilent
<1>11. ASSUME NEW c \in Call, NEW q \in Quantities, LoadEditByAdmin(c, q) PROVE ScanTells'
  <2>1. PICK r : Begin(c, r)
    BY <1>11 DEF LoadEditByAdmin, Load
  <2> QED
    BY <2>1, BeginsAlone, ScanSilent
<1>12. ASSUME NEW c \in Call, LoadConfirm(c) PROVE ScanTells'
  <2>1. PICK r : Begin(c, r)
    BY <1>12 DEF LoadConfirm, Load
  <2> QED
    BY <2>1, BeginsAlone, ScanSilent
<1>13. ASSUME NEW c \in Call, LoadClose(c) PROVE ScanTells'
  <2>1. PICK r : Begin(c, r)
    BY <1>13 DEF LoadClose, Load
  <2> QED
    BY <2>1, BeginsAlone, ScanSilent
<1>14. ASSUME NEW c \in Call, LoadDelete(c) PROVE ScanTells'
  <2>1. PICK r : Begin(c, r)
    BY <1>14 DEF LoadDelete, Load
  <2> QED
    BY <2>1, BeginsAlone, ScanSilent
<1>15. ASSUME NEW c \in Call, LoadRepublish(c) PROVE ScanTells'
  <2>1. PICK r : Begin(c, r)
    BY <1>15 DEF LoadRepublish, Load
  <2> QED
    BY <2>1, BeginsAlone, ScanSilent
<1>16. ASSUME NEW c \in Call, Archive(c) PROVE ScanTells'
  <2>1. PICK r : Begin(c, r)
    BY <1>16 DEF Archive, Load
  <2> QED
    BY <2>1, BeginsAlone, ScanSilent
<1>17. ASSUME NEW c \in Call, Accept(c) PROVE ScanTells'
  <2>0. app \in [Application -> ApplicationStatus]
    BY DEF TypeInv, TypeOK
  <2>1. call[c].pc # "idle" /\ call' = [call EXCEPT ![c] = Idle] /\ scan' = scan
    BY <1>17 DEF Accept, End, Goto
  <2>2. \A b \in Application :
          app'[b] \in {"ACCEPTED", "STARTED", "END"} => app[b] \in {"ACCEPTED", "STARTED", "END"}
    BY <1>17, <2>0 DEF Accept, RejectAll, rows
  <2> QED
    BY <2>1, <2>2, ScanOutlivesCall
<1>18. ASSUME NEW c \in Call, Reject(c) PROVE ScanTells'
  <2>0. app \in [Application -> ApplicationStatus]
    BY DEF TypeInv, TypeOK
  <2>1. call[c].pc # "idle" /\ call' = [call EXCEPT ![c] = Idle] /\ scan' = scan
    BY <1>18 DEF Reject, End, Goto
  <2>2. \A b \in Application :
          app'[b] \in {"ACCEPTED", "STARTED", "END"} => app[b] \in {"ACCEPTED", "STARTED", "END"}
    BY <1>18, <2>0 DEF Reject, RejectAll, rows
  <2> QED
    BY <2>1, <2>2, ScanOutlivesCall
<1>19. ASSUME NEW c \in Call, Withdraw(c) PROVE ScanTells'
  <2>0. app \in [Application -> ApplicationStatus]
    BY DEF TypeInv, TypeOK
  <2>1. call[c].pc # "idle" /\ call' = [call EXCEPT ![c] = Idle] /\ scan' = scan
    BY <1>19 DEF Withdraw, End, Goto
  <2>2. \A b \in Application :
          app'[b] \in {"ACCEPTED", "STARTED", "END"} => app[b] \in {"ACCEPTED", "STARTED", "END"}
    BY <1>19, <2>0 DEF Withdraw, RejectAll, rows
  <2> QED
    BY <2>1, <2>2, ScanOutlivesCall
<1>20. ASSUME NEW c \in Call, LockCancel(c) PROVE ScanTells'
  <2>1. /\ call[c].pc # "idle" /\ scan' = scan /\ past' = past
        /\ \E r : call' = [call EXCEPT ![c] = r]
    BY <1>20 DEF LockCancel, Read, Goto, End, terms
  <2>2. \A b \in Application :
          app'[b] \in {"ACCEPTED", "STARTED", "END"} => app[b] \in {"ACCEPTED", "STARTED", "END"}
    BY <1>20 DEF LockCancel, Read, rows
  <2> QED
    BY <2>1, <2>2, ScanKept
<1>21. ASSUME NEW c \in Call, CommitCancel(c) PROVE ScanTells'
  <2>0. app \in [Application -> ApplicationStatus]
    BY DEF TypeInv, TypeOK
  <2>1. call[c].pc # "idle" /\ call' = [call EXCEPT ![c] = Idle] /\ scan' = scan
    BY <1>21 DEF CommitCancel, CancelHire, End, Goto
  <2>2. \A b \in Application :
          app'[b] \in {"ACCEPTED", "STARTED", "END"} => app[b] \in {"ACCEPTED", "STARTED", "END"}
    BY <1>21, <2>0 DEF CommitCancel, CancelHire, RejectAll, rows
  <2> QED
    BY <2>1, <2>2, ScanOutlivesCall
<1>22. ASSUME NEW c \in Call, Lapse(c) PROVE ScanTells'
  <2>0. app \in [Application -> ApplicationStatus]
    BY DEF TypeInv, TypeOK
  <2>1. call[c].pc # "idle" /\ call' = [call EXCEPT ![c] = Idle] /\ scan' = scan
    BY <1>22 DEF Lapse, CancelHire, End, Goto
  <2>2. \A b \in Application :
          app'[b] \in {"ACCEPTED", "STARTED", "END"} => app[b] \in {"ACCEPTED", "STARTED", "END"}
    BY <1>22, <2>0 DEF Lapse, CancelHire, RejectAll, rows
  <2> QED
    BY <2>1, <2>2, ScanOutlivesCall
<1>23. ASSUME NEW c \in Call, RejectLeftovers(c) PROVE ScanTells'
  <2>0. app \in [Application -> ApplicationStatus]
    BY DEF TypeInv, TypeOK
  <2>1. call[c].pc # "idle" /\ call' = [call EXCEPT ![c] = Idle] /\ scan' = scan
    BY <1>23 DEF RejectLeftovers, End, Goto
  <2>2. \A b \in Application :
          app'[b] \in {"ACCEPTED", "STARTED", "END"} => app[b] \in {"ACCEPTED", "STARTED", "END"}
    BY <1>23, <2>0 DEF RejectLeftovers, RejectAll, rows
  <2> QED
    BY <2>1, <2>2, ScanOutlivesCall
<1>24. ASSUME NEW c \in Call, Confirm(c) PROVE ScanTells'
  <2>0. app \in [Application -> ApplicationStatus]
    BY DEF TypeInv, TypeOK
  <2>1. call[c].pc # "idle" /\ call' = [call EXCEPT ![c] = Idle] /\ scan' = scan
    BY <1>24 DEF Confirm, End, Goto
  <2>2. \A b \in Application :
          app'[b] \in {"ACCEPTED", "STARTED", "END"} => app[b] \in {"ACCEPTED", "STARTED", "END"}
    BY <1>24, <2>0 DEF Confirm, CloseRecruitedOffer, Closed, Hired, rows
  <2> QED
    BY <2>1, <2>2, ScanOutlivesCall
<1>25. ASSUME NEW c \in Call, Finish(c) PROVE ScanTells'
  <2>0. app \in [Application -> ApplicationStatus]
    BY DEF TypeInv, TypeOK
  <2>1. call[c].pc # "idle" /\ call' = [call EXCEPT ![c] = Idle] /\ scan' = scan
    BY <1>25 DEF Finish, End, Goto
  <2>2. \A b \in Application :
          app'[b] \in {"ACCEPTED", "STARTED", "END"} => app[b] \in {"ACCEPTED", "STARTED", "END"}
    <3>1. app[call[c].app] \in {"ACCEPTED", "STARTED", "END"}
      BY <1>25 DEF Finish, CallsTell, CallTells
    <3>2. \A b \in Application : b = call[c].app \/ app'[b] = app[b] \/ app'[b] = "REJECTED"
      BY <1>25, <2>0 DEF Finish
    <3> QED
      BY <3>1, <3>2
  <2> QED
    BY <2>1, <2>2, ScanOutlivesCall
<1>26. ASSUME NEW c \in Call, ReadClose(c) PROVE ScanTells'
  <2>1. /\ call[c].pc # "idle" /\ scan' = scan /\ past' = past
        /\ \E r : call' = [call EXCEPT ![c] = r]
    BY <1>26 DEF ReadClose, Read, Goto, End, terms
  <2>2. \A b \in Application :
          app'[b] \in {"ACCEPTED", "STARTED", "END"} => app[b] \in {"ACCEPTED", "STARTED", "END"}
    BY <1>26 DEF ReadClose, Read, rows
  <2> QED
    BY <2>1, <2>2, ScanKept
<1>27. ASSUME NEW c \in Call, WriteClose(c) PROVE ScanTells'
  <2>0. app \in [Application -> ApplicationStatus]
    BY DEF TypeInv, TypeOK
  <2>1. call[c].pc # "idle" /\ call' = [call EXCEPT ![c] = Idle] /\ scan' = scan
    BY <1>27 DEF WriteClose, End, Goto
  <2>2. \A b \in Application :
          app'[b] \in {"ACCEPTED", "STARTED", "END"} => app[b] \in {"ACCEPTED", "STARTED", "END"}
    BY <1>27, <2>0 DEF WriteClose, RejectAll, rows
  <2> QED
    BY <2>1, <2>2, ScanOutlivesCall
<1>28. ASSUME NEW c \in Call, ReadDelete(c) PROVE ScanTells'
  <2>1. /\ call[c].pc # "idle" /\ scan' = scan /\ past' = past
        /\ \E r : call' = [call EXCEPT ![c] = r]
    BY <1>28 DEF ReadDelete, Read, Goto, End, terms
  <2>2. \A b \in Application :
          app'[b] \in {"ACCEPTED", "STARTED", "END"} => app[b] \in {"ACCEPTED", "STARTED", "END"}
    BY <1>28 DEF ReadDelete, Read, rows
  <2> QED
    BY <2>1, <2>2, ScanKept
<1>29. ASSUME NEW c \in Call, WriteDelete(c) PROVE ScanTells'
  <2>0. app \in [Application -> ApplicationStatus]
    BY DEF TypeInv, TypeOK
  <2>1. call[c].pc # "idle" /\ call' = [call EXCEPT ![c] = Idle] /\ scan' = scan
    BY <1>29 DEF WriteDelete, End, Goto
  <2>2. \A b \in Application :
          app'[b] \in {"ACCEPTED", "STARTED", "END"} => app[b] \in {"ACCEPTED", "STARTED", "END"}
    BY <1>29, <2>0 DEF WriteDelete, RejectAll, rows
  <2> QED
    BY <2>1, <2>2, ScanOutlivesCall
<1>30. ASSUME NEW c \in Call, WriteAdmin(c) PROVE ScanTells'
  <2>1. forced' # {}
    BY <1>30 DEF WriteAdmin
  <2> QED
    BY <2>1 DEF InSequence
<1>31. ASSUME NEW c \in Call, FindWaiting(c) PROVE ScanTells'
  <2>1. /\ call[c].pc # "idle" /\ scan' = scan /\ past' = past
        /\ \E r : call' = [call EXCEPT ![c] = r]
    BY <1>31 DEF FindWaiting, Read, Goto, End, terms
  <2>2. \A b \in Application :
          app'[b] \in {"ACCEPTED", "STARTED", "END"} => app[b] \in {"ACCEPTED", "STARTED", "END"}
    BY <1>31 DEF FindWaiting, Read, rows
  <2> QED
    BY <2>1, <2>2, ScanKept
<1>32. ASSUME NEW c \in Call, RejectWaiting(c) PROVE ScanTells'
  <2>0. app \in [Application -> ApplicationStatus]
    BY DEF TypeInv, TypeOK
  <2>1. call[c].pc # "idle" /\ call' = [call EXCEPT ![c] = Idle] /\ scan' = scan
    BY <1>32 DEF RejectWaiting, End, Goto
  <2>2. \A b \in Application :
          app'[b] \in {"ACCEPTED", "STARTED", "END"} => app[b] \in {"ACCEPTED", "STARTED", "END"}
    BY <1>32, <2>0 DEF RejectWaiting, RejectAll, rows
  <2> QED
    BY <2>1, <2>2, ScanOutlivesCall
<1>33. ASSUME NEW c \in Call, ReadEdit(c) PROVE ScanTells'
  <2>1. /\ call[c].pc # "idle" /\ scan' = scan /\ past' = past
        /\ \E r : call' = [call EXCEPT ![c] = r]
    BY <1>33 DEF ReadEdit, Read, Goto, End, terms
  <2>2. \A b \in Application :
          app'[b] \in {"ACCEPTED", "STARTED", "END"} => app[b] \in {"ACCEPTED", "STARTED", "END"}
    BY <1>33 DEF ReadEdit, Read, rows
  <2> QED
    BY <2>1, <2>2, ScanKept
<1>34. ASSUME NEW c \in Call, WriteEdit(c) PROVE ScanTells'
  <2>0. app \in [Application -> ApplicationStatus]
    BY DEF TypeInv, TypeOK
  <2>1. call[c].pc # "idle" /\ call' = [call EXCEPT ![c] = Idle] /\ scan' = scan
    BY <1>34 DEF WriteEdit, End, Goto
  <2>2. \A b \in Application :
          app'[b] \in {"ACCEPTED", "STARTED", "END"} => app[b] \in {"ACCEPTED", "STARTED", "END"}
    BY <1>34, <2>0 DEF WriteEdit, RejectAll, rows
  <2> QED
    BY <2>1, <2>2, ScanOutlivesCall
<1>35. ASSUME NEW c \in Call, Republish(c) PROVE ScanTells'
  <2>0. app \in [Application -> ApplicationStatus]
    BY DEF TypeInv, TypeOK
  <2>1. call[c].pc # "idle" /\ call' = [call EXCEPT ![c] = Idle] /\ scan' = scan
    BY <1>35 DEF Republish, End, Goto
  <2>2. \A b \in Application :
          app'[b] \in {"ACCEPTED", "STARTED", "END"} => app[b] \in {"ACCEPTED", "STARTED", "END"}
    BY <1>35, <2>0 DEF Republish, RejectAll, rows
  <2> QED
    BY <2>1, <2>2, ScanOutlivesCall
<1>36. ASSUME NEW c \in Call, Start(c) PROVE ScanTells'
  <2>1. /\ call[c].pc # "idle" /\ scan' = scan /\ past' = past
        /\ \E r : call' = [call EXCEPT ![c] = r]
    BY <1>36 DEF Start, Read, Goto, End, terms
  <2>2. \A b \in Application :
          app'[b] \in {"ACCEPTED", "STARTED", "END"} => app[b] \in {"ACCEPTED", "STARTED", "END"}
    <3>1. app[call[c].app] \in {"ACCEPTED", "STARTED", "END"}
      BY <1>36 DEF Start, CallsTell, CallTells, Hired
    <3>2. app \in [Application -> ApplicationStatus]
      BY DEF TypeInv, TypeOK
    <3> QED
      BY <1>36, <3>1, <3>2 DEF Start
  <2> QED
    BY <2>1, <2>2, ScanKept
<1>37. ASSUME NEW c \in Call, UndoStart(c) PROVE ScanTells'
  <2>0. app \in [Application -> ApplicationStatus]
    BY DEF TypeInv, TypeOK
  <2>1. call[c].pc # "idle" /\ call' = [call EXCEPT ![c] = Idle] /\ scan' = scan
    BY <1>37 DEF UndoStart, End, Goto
  <2>2. \A b \in Application :
          app'[b] \in {"ACCEPTED", "STARTED", "END"} => app[b] \in {"ACCEPTED", "STARTED", "END"}
    <3>1. app[call[c].app] \in {"ACCEPTED", "STARTED", "END"}
      BY <1>37 DEF UndoStart, CallsTell, CallTells, Hired
    <3> QED
      BY <1>37, <2>0, <3>1 DEF UndoStart
  <2> QED
    BY <2>1, <2>2, ScanOutlivesCall
<1>38. ASSUME NEW c \in Call, Abort(c) PROVE ScanTells'
  <2>0. app \in [Application -> ApplicationStatus]
    BY DEF TypeInv, TypeOK
  <2>1. call[c].pc # "idle" /\ call' = [call EXCEPT ![c] = Idle] /\ scan' = scan
    BY <1>38 DEF Abort, End, Goto
  <2>2. \A b \in Application :
          app'[b] \in {"ACCEPTED", "STARTED", "END"} => app[b] \in {"ACCEPTED", "STARTED", "END"}
    BY <1>38, <2>0 DEF Abort, RejectAll, rows
  <2> QED
    BY <2>1, <2>2, ScanOutlivesCall
<1>39. ASSUME ToggleDeleted PROVE ScanTells'
  <2>1. UNCHANGED <<scan, app, call>> /\ (past => past')
    BY <1>39 DEF ToggleDeleted, rows
  <2> QED
    BY <2>1, ScanKept
<1>40. ASSUME TimePasses PROVE ScanTells'
  <2>1. UNCHANGED <<scan, app, call>> /\ (past => past')
    BY <1>40 DEF TimePasses, rows
  <2> QED
    BY <2>1, ScanKept
<1>41. ASSUME ScanFind PROVE ScanTells'
  <2>1. UNCHANGED <<app, past, call>>
    BY <1>41 DEF ScanFind, Find, rows, terms
  <2>2. \/ scan' = "close"
        \/ scan' \in {"expire", "start", "stop"} /\ past /\ (scan' = "expire" => CanExpire)
    BY <1>41 DEF ScanFind, Find, CanExpire, CanStart, CanStop
  <2> QED
    BY <2>1, <2>2 DEF ScanTells, CanExpire, With
<1>42. ASSUME ExpireEmpty PROVE ScanTells'
  BY <1>42, ScanSilent DEF ExpireEmpty, ScanEnds
<1>43. ASSUME AutoStart PROVE ScanTells'
  BY <1>43, ScanSilent DEF AutoStart, ScanEnds
<1>44. ASSUME StopRecruiting PROVE ScanTells'
  BY <1>44, ScanSilent DEF StopRecruiting, ScanEnds
<1>45. ASSUME CloseAfterGrace PROVE ScanTells'
  BY <1>45, ScanSilent DEF CloseAfterGrace, ScanEnds
<1>46. ASSUME UNCHANGED vars PROVE ScanTells'
  BY <1>46, ScanKept DEF vars, terms, rows
<1>47. ASSUME NEW c \in Call, ReadFinish(c) PROVE ScanTells'
  <2>1. /\ call[c].pc # "idle" /\ scan' = scan /\ past' = past
        /\ \E r : call' = [call EXCEPT ![c] = r]
    BY <1>47 DEF ReadFinish, Read, Goto, End, terms
  <2>2. \A b \in Application :
          app'[b] \in {"ACCEPTED", "STARTED", "END"} => app[b] \in {"ACCEPTED", "STARTED", "END"}
    BY <1>47 DEF ReadFinish, Read, rows
  <2> QED
    BY <2>1, <2>2, ScanKept
<1> QED
  BY <1>1, <1>2, <1>3, <1>4, <1>5, <1>6, <1>7, <1>8, <1>9, <1>10, <1>11,
     <1>12, <1>13, <1>14, <1>15, <1>16, <1>17, <1>18, <1>19, <1>20, <1>21,
     <1>22, <1>23, <1>24, <1>25, <1>26, <1>27, <1>28, <1>29, <1>30, <1>31,
     <1>32, <1>33, <1>34, <1>35, <1>36, <1>37, <1>38, <1>39, <1>40, <1>41,
     <1>42, <1>43, <1>44, <1>45, <1>46, <1>47
     DEF Next, Loads, Writes, ScanWrite

\* A call that does nothing has nothing to tell.
LEMMA IdleTells ==
  ASSUME NEW c \in Call, call[c].pc = "idle" PROVE CallTells(c)
  BY DEF CallTells

\* One call goes on while the others are idle.
LEMMA CallsKept ==
  ASSUME TypeInv, NEW c \in Call, NEW r, call' = [call EXCEPT ![c] = r],
         \A d \in Call \ {c} : call[d].pc = "idle", CallTells(c)'
  PROVE  CallsTell'
<1>1. ASSUME NEW d \in Call \ {c} PROVE CallTells(d)'
  <2>1. call'[d].pc = "idle"
    BY DEF TypeInv, TypeOK
  <2> QED
    BY <2>1 DEF CallTells
<1> QED
  BY <1>1 DEF CallsTell

\* The call in progress ends.
LEMMA CallEnds ==
  ASSUME TypeInv, OneCall, NEW c \in Call, call[c].pc # "idle", call' = [call EXCEPT ![c] = Idle]
  PROVE  CallsTell'
<1>1. call'[c].pc = "idle"
  BY DEF TypeInv, TypeOK, Idle
<1>2. CallTells(c)'
  BY <1>1 DEF CallTells
<1> QED
  BY <1>2, CallsKept, OthersIdle

\* The same calls and offer: whoever was hired still is, and nobody else.
LEMMA TellingKept ==
  ASSUME TypeInv, CallsTell, call' = call, offer' = offer, past => past',
         \A b \in Application : app'[b] = app[b] \/ (app[b] = "NONE" /\ app'[b] = "PENDING")
  PROVE  CallsTell'
<1> SUFFICES ASSUME NEW d \in Call PROVE CallTells(d)'
  BY DEF CallsTell
<1>1. CallTells(d) /\ Held(call[d], maxQuantity) /\ call[d] \in CallState
  BY DEF CallsTell, TypeInv, TypeOK, CallsHold
<1>2. With(Slot)' = With(Slot) /\ With(Engaged)' = With(Engaged)
  BY DEF With, Slot, Engaged
<1>3. \A b \in Application : app[b] \notin Engaged => app'[b] \notin Engaged
  BY DEF Engaged
<1>4. \A b \in Application : app[b] # "NONE" => app'[b] = app[b]
  OBVIOUS
<1>5. call[d].pc \in {"cancel", "reject", "reopen", "finish", "finishKept", "finishWrite",
                    "start", "notify"} => call[d].app \in Application
  BY <1>1 DEF Held
<1>6. call[d].ids \subseteq Application
  BY <1>1 DEF CallState
<1> QED
  BY ONLY <1>1, <1>2, <1>3, <1>4, <1>5, <1>6, TypeInv, call' = call, offer' = offer, past => past',
     d \in Call
     DEF CallTells, Hired, Waiting

\* A timed scan writes when the date has passed, under any call in progress.
LEMMA ScanLeavesTelling ==
  ASSUME TypeInv, NEW d \in Call, CallTells(d), call' = call, past' = past, past,
         offer' \in {"EXPIRED", "IN_PROGRESS", "FILLED"},
         \A b \in Application : app'[b] \in Slot => app[b] \in Slot,
         \A b \in Application : app[b] \notin Engaged => app'[b] \notin Engaged,
         call[d].pc \in {"finish", "finishKept", "finishWrite"} => app'[call[d].app] \in {"ACCEPTED", "STARTED", "END"},
         call[d].pc \in {"start", "notify"} => app'[call[d].app] \in Hired /\ offer' # "EXPIRED"
  PROVE  CallTells(d)'
<1>1. Held(call[d], maxQuantity) /\ call[d] \in CallState
  BY DEF TypeInv, TypeOK, CallsHold
<1>2. call[d].pc \in {"cancel", "reject"} => call[d].app \in Application
  BY <1>1 DEF Held
<1>3. call[d].ids \subseteq Application
  BY <1>1 DEF CallState
<1>4. With(Slot)' \subseteq With(Slot)
  BY DEF With
<1> QED
  BY <1>2, <1>3, <1>4 DEF CallTells

\* In sequence what a call has loaded goes on telling what it needs to.
LEMMA CallsTellStep ==
  ASSUME TypeInv, KindHolds, InSequence', OneCall, StatusTells, ScanTells, CallsTell, [Next]_vars
  PROVE  CallsTell'
<1>1. ASSUME NEW a \in Application, Apply(a) PROVE CallsTell'
  <2>1. call' = call /\ offer' = offer /\ past' = past
    BY <1>1 DEF Apply, terms
  <2>2. \A b \in Application : app'[b] = app[b] \/ (app[b] = "NONE" /\ app'[b] = "PENDING")
    BY <1>1 DEF Apply, TypeInv, TypeOK
  <2> QED
    BY <2>1, <2>2, TellingKept
<1>2. ASSUME NEW c \in Call, NEW a \in Application, LoadAccept(c, a) PROVE CallsTell'
  <2>1. Begin(c, [Idle EXCEPT !.pc = "accept", !.app = a, !.quantity = quantity])
    BY <1>2 DEF LoadAccept, Load
  <2>2. call'[c].pc = "accept"
    <3>1. call'[c] = [Idle EXCEPT !.pc = "accept", !.app = a, !.quantity = quantity]
      BY <2>1, BeginsAlone
    <3> QED
      BY <3>1 DEF Idle
  <2>3. CallTells(c)'
    BY <2>2 DEF CallTells
  <2> QED
    BY <2>1, <2>3, BeginsAlone, CallsKept
<1>3. ASSUME NEW c \in Call, NEW a \in Application, LoadReject(c, a) PROVE CallsTell'
  <2>1. Begin(c, [Idle EXCEPT !.pc = "reject", !.app = a])
    BY <1>3 DEF LoadReject, Load
  <2>2. call'[c].pc = "reject" /\ call'[c].app = a
    <3>1. call'[c] = [Idle EXCEPT !.pc = "reject", !.app = a]
      BY <2>1, BeginsAlone
    <3> QED
      BY <3>1 DEF Idle
  <2>3. UNCHANGED <<app, offer, past>>
    BY <1>3 DEF LoadReject, Load, rows, terms
  <2>4. app[a] = "PENDING"
    BY <1>3 DEF LoadReject
  <2>5. CallTells(c)'
    BY <2>2, <2>3, <2>4 DEF CallTells, Engaged
  <2> QED
    BY <2>1, <2>5, BeginsAlone, CallsKept
<1>4. ASSUME NEW c \in Call, NEW a \in Application, LoadCancel(c, a) PROVE CallsTell'
  <2>1. Begin(c, [Idle EXCEPT !.pc = "cancel", !.app = a, !.status = app[a]])
    BY <1>4 DEF LoadCancel, Load
  <2>2. call'[c].pc = "cancel" /\ call'[c].app = a /\ call'[c].status = app[a]
    <3>1. call'[c] = [Idle EXCEPT !.pc = "cancel", !.app = a, !.status = app[a]]
      BY <2>1, BeginsAlone
    <3> QED
      BY <3>1 DEF Idle
  <2>3. UNCHANGED <<app, offer, past>>
    BY <1>4 DEF LoadCancel, Load, rows, terms
  <2>4. app[a] \in {"PENDING", "WAITING_PAYMENT", "ACCEPTED", "END"}
    BY <1>4 DEF LoadCancel, Waiting
  <2>5. CallTells(c)'
    BY <2>2, <2>3, <2>4 DEF CallTells, Engaged, Hired, Waiting
  <2> QED
    BY <2>1, <2>5, BeginsAlone, CallsKept
<1>5. ASSUME NEW c \in Call, NEW a \in Application, LoadLapse(c, a) PROVE CallsTell'
  <2>1. Begin(c, [Idle EXCEPT !.pc = "lapse", !.app = a, !.quantity = quantity,
                       !.offer = IF past \/ offer \in {"IN_PROGRESS", "COMPLETED"} THEN "none" ELSE offer])
    BY <1>5 DEF LoadLapse, Load
  <2>2. /\ call'[c].pc = "lapse"
        /\ call'[c].offer = "none" => past \/ offer \in {"IN_PROGRESS", "COMPLETED"}
    <3>1. call'[c] = [Idle EXCEPT !.pc = "lapse", !.app = a, !.quantity = quantity,
                       !.offer = IF past \/ offer \in {"IN_PROGRESS", "COMPLETED"} THEN "none" ELSE offer]
      BY <2>1, BeginsAlone
    <3>2. call'[c].offer = IF past \/ offer \in {"IN_PROGRESS", "COMPLETED"} THEN "none" ELSE offer
      BY <3>1 DEF Idle
    <3>3. offer # "none"
      BY DEF TypeInv, TypeOK, OfferStatus
    <3> QED
      BY <3>1, <3>2, <3>3 DEF Idle
  <2>3. UNCHANGED <<app, offer, past>>
    BY <1>5 DEF LoadLapse, Load, rows, terms
  <2>4. CallTells(c)'
    BY <2>2, <2>3 DEF CallTells
  <2> QED
    BY <2>1, <2>4, BeginsAlone, CallsKept
<1>6. ASSUME NEW c \in Call, NEW a \in Application, LoadFinish(c, a) PROVE CallsTell'
  <2>1. Begin(c, [Idle EXCEPT !.pc = "finish", !.app = a, !.status = app[a]])
    BY <1>6 DEF LoadFinish, Load
  <2>2. call'[c].pc = "finish" /\ call'[c].app = a
    <3>1. call'[c] = [Idle EXCEPT !.pc = "finish", !.app = a, !.status = app[a]]
      BY <2>1, BeginsAlone
    <3> QED
      BY <3>1 DEF Idle
  <2>3. UNCHANGED <<app, offer, past>>
    BY <1>6 DEF LoadFinish, Load, rows, terms
  <2>4. app[a] \in {"ACCEPTED", "STARTED", "END"}
    BY <1>6 DEF LoadFinish
  <2>5. CallTells(c)'
    BY <2>2, <2>3, <2>4 DEF CallTells
  <2> QED
    BY <2>1, <2>5, BeginsAlone, CallsKept
<1>7. ASSUME NEW c \in Call, NEW a \in Application, LoadStart(c, a) PROVE CallsTell'
  <2>1. Begin(c, [Idle EXCEPT !.pc = "start", !.app = a,
                       !.offer = IF offer \in Movable THEN offer ELSE "none"])
    BY <1>7 DEF LoadStart, Load
  <2>2. /\ call'[c].pc = "start" /\ call'[c].app = a
        /\ call'[c].offer \in {offer, "none"}
    <3>1. call'[c] = [Idle EXCEPT !.pc = "start", !.app = a,
                       !.offer = IF offer \in Movable THEN offer ELSE "none"]
      BY <2>1, BeginsAlone
    <3> QED
      BY <3>1 DEF Idle
  <2>3. UNCHANGED <<app, offer, past>>
    BY <1>7 DEF LoadStart, Load, rows, terms
  <2>4. app[a] = "ACCEPTED" /\ offer \notin {"ACTIVE", "EXPIRED"}
    BY <1>7 DEF LoadStart, StatusTells, With, Slot
  <2>5. CallTells(c)'
    BY <2>2, <2>3, <2>4 DEF CallTells, Hired
  <2> QED
    BY <2>1, <2>5, BeginsAlone, CallsKept
<1>8. ASSUME NEW c \in Call, NEW S \in SUBSET Application, Unlock(c, S) PROVE CallsTell'
  <2>1. Begin(c, [Idle EXCEPT !.pc = "leftovers"])
    BY <1>8 DEF Unlock, Load
  <2>2. call'[c].pc = "leftovers"
    <3>1. call'[c] = [Idle EXCEPT !.pc = "leftovers"]
      BY <2>1, BeginsAlone
    <3> QED
      BY <3>1 DEF Idle
  <2>3. CallTells(c)'
    BY <2>2 DEF CallTells
  <2> QED
    BY <2>1, <2>3, BeginsAlone, CallsKept
<1>9. ASSUME NEW c \in Call, NEW s \in ForcedStatuses, LoadAdmin(c, s) PROVE CallsTell'
  <2>1. Begin(c, [Idle EXCEPT !.pc = "admin", !.offer = s])
    BY <1>9 DEF LoadAdmin, Load
  <2>2. call'[c].pc = "admin"
    <3>1. call'[c] = [Idle EXCEPT !.pc = "admin", !.offer = s]
      BY <2>1, BeginsAlone
    <3> QED
      BY <3>1 DEF Idle
  <2>3. CallTells(c)'
    BY <2>2 DEF CallTells
  <2> QED
    BY <2>1, <2>3, BeginsAlone, CallsKept
<1>10. ASSUME NEW c \in Call, NEW q \in Quantities, LoadEdit(c, q) PROVE CallsTell'
  <2>1. Begin(c, [Idle EXCEPT !.pc = "edit", !.quantity = q])
    BY <1>10 DEF LoadEdit, Load
  <2>2. call'[c].pc = "edit"
    <3>1. call'[c] = [Idle EXCEPT !.pc = "edit", !.quantity = q]
      BY <2>1, BeginsAlone
    <3> QED
      BY <3>1 DEF Idle
  <2>3. UNCHANGED <<app, offer, past>>
    BY <1>10 DEF LoadEdit, Load, rows, terms
  <2>4. offer = "ACTIVE"
    BY <1>10 DEF LoadEdit
  <2>5. CallTells(c)'
    BY <2>2, <2>3, <2>4 DEF CallTells
  <2> QED
    BY <2>1, <2>5, BeginsAlone, CallsKept
<1>11. ASSUME NEW c \in Call, NEW q \in Quantities, LoadEditByAdmin(c, q) PROVE CallsTell'
  <2>1. Begin(c, [Idle EXCEPT !.pc = "editWrite", !.quantity = q])
    BY <1>11 DEF LoadEditByAdmin, Load
  <2>2. call'[c].pc = "editWrite"
    <3>1. call'[c] = [Idle EXCEPT !.pc = "editWrite", !.quantity = q]
      BY <2>1, BeginsAlone
    <3> QED
      BY <3>1 DEF Idle
  <2>3. UNCHANGED <<app, offer, past>>
    BY <1>11 DEF LoadEditByAdmin, Load, rows, terms
  <2>4. offer = "ACTIVE"
    BY <1>11 DEF LoadEditByAdmin
  <2>5. CallTells(c)'
    BY <2>2, <2>3, <2>4 DEF CallTells
  <2> QED
    BY <2>1, <2>5, BeginsAlone, CallsKept
<1>12. ASSUME NEW c \in Call, LoadConfirm(c) PROVE CallsTell'
  <2>1. Begin(c, [Idle EXCEPT !.pc = "confirm"])
    BY <1>12 DEF LoadConfirm, Load
  <2>2. call'[c].pc = "confirm"
    <3>1. call'[c] = [Idle EXCEPT !.pc = "confirm"]
      BY <2>1, BeginsAlone
    <3> QED
      BY <3>1 DEF Idle
  <2>3. CallTells(c)'
    BY <2>2 DEF CallTells
  <2> QED
    BY <2>1, <2>3, BeginsAlone, CallsKept
<1>13. ASSUME NEW c \in Call, LoadClose(c) PROVE CallsTell'
  <2>1. Begin(c, [Idle EXCEPT !.pc = "close", !.offer = offer])
    BY <1>13 DEF LoadClose, Load
  <2>2. call'[c].pc = "close" /\ call'[c].offer = offer
    <3>1. call'[c] = [Idle EXCEPT !.pc = "close", !.offer = offer]
      BY <2>1, BeginsAlone
    <3> QED
      BY <3>1 DEF Idle
  <2>3. UNCHANGED <<app, offer, past>>
    BY <1>13 DEF LoadClose, Load, rows, terms
  <2>4. offer \in Recruiting /\ (offer = "ACTIVE" => With(Slot) = {})
    BY <1>13 DEF LoadClose, StatusTells
  <2>5. CallTells(c)'
    BY <2>2, <2>3, <2>4 DEF CallTells, Recruiting, With
  <2> QED
    BY <2>1, <2>5, BeginsAlone, CallsKept
<1>14. ASSUME NEW c \in Call, LoadDelete(c) PROVE CallsTell'
  <2>1. Begin(c, [Idle EXCEPT !.pc = "delete"])
    BY <1>14 DEF LoadDelete, Load
  <2>2. call'[c].pc = "delete"
    <3>1. call'[c] = [Idle EXCEPT !.pc = "delete"]
      BY <2>1, BeginsAlone
    <3> QED
      BY <3>1 DEF Idle
  <2>3. UNCHANGED <<app, offer, past>>
    BY <1>14 DEF LoadDelete, Load, rows, terms
  <2>4. offer \in {"ACTIVE", "EXPIRED"}
    BY <1>14 DEF LoadDelete
  <2>5. CallTells(c)'
    BY <2>2, <2>3, <2>4 DEF CallTells
  <2> QED
    BY <2>1, <2>5, BeginsAlone, CallsKept
<1>15. ASSUME NEW c \in Call, LoadRepublish(c) PROVE CallsTell'
  <2>1. Begin(c, [Idle EXCEPT !.pc = "republish"])
    BY <1>15 DEF LoadRepublish, Load
  <2>2. call'[c].pc = "republish"
    <3>1. call'[c] = [Idle EXCEPT !.pc = "republish"]
      BY <2>1, BeginsAlone
    <3> QED
      BY <3>1 DEF Idle
  <2>3. UNCHANGED <<app, offer, past>>
    BY <1>15 DEF LoadRepublish, Load, rows, terms
  <2>4. With(Slot) = {}
    BY <1>15 DEF LoadRepublish, StatusTells
  <2>5. CallTells(c)'
    BY <2>2, <2>3, <2>4 DEF CallTells, With
  <2> QED
    BY <2>1, <2>5, BeginsAlone, CallsKept
<1>16. ASSUME NEW c \in Call, Archive(c) PROVE CallsTell'
  <2>1. Begin(c, [Idle EXCEPT !.pc = "rejectFind", !.which = {"PENDING"}])
    BY <1>16 DEF Archive, Load
  <2>2. call'[c].pc = "rejectFind" /\ call'[c].which = {"PENDING"}
    <3>1. call'[c] = [Idle EXCEPT !.pc = "rejectFind", !.which = {"PENDING"}]
      BY <2>1, BeginsAlone
    <3> QED
      BY <3>1 DEF Idle
  <2>3. CallTells(c)'
    BY <2>2 DEF CallTells
  <2> QED
    BY <2>1, <2>3, BeginsAlone, CallsKept
<1>17. ASSUME NEW c \in Call, Accept(c) PROVE CallsTell'
  <2>1. call[c].pc # "idle" /\ call' = [call EXCEPT ![c] = Idle]
    BY <1>17 DEF Accept, End, Goto
  <2> QED
    BY <2>1, CallEnds
<1>18. ASSUME NEW c \in Call, Reject(c) PROVE CallsTell'
  <2>1. call[c].pc # "idle" /\ call' = [call EXCEPT ![c] = Idle]
    BY <1>18 DEF Reject, End, Goto
  <2> QED
    BY <2>1, CallEnds
<1>19. ASSUME NEW c \in Call, Withdraw(c) PROVE CallsTell'
  <2>1. call[c].pc # "idle" /\ call' = [call EXCEPT ![c] = Idle]
    BY <1>19 DEF Withdraw, End, Goto
  <2> QED
    BY <2>1, CallEnds
<1>20. ASSUME NEW c \in Call, LockCancel(c) PROVE CallsTell'
  <2> DEFINE a == call[c].app
             undone == call[c].status = "END"
             x == IF undone \/ offer \notin Terminal
                    THEN (IF Others(a, undone) = {} THEN "ACTIVE" ELSE "PARTIALLY_FILLED") ELSE "none"
  <2>1. /\ call[c].pc = "cancel" /\ call[c].status # "PENDING"
        /\ call' = [call EXCEPT ![c] = [call[c] EXCEPT !.pc = "reopen", !.offer = x]]
        /\ UNCHANGED <<app, offer, past>>
    BY <1>20 DEF LockCancel, Read, Goto, rows, terms
  <2>2. CallTells(c) /\ call[c] \in CallState /\ call \in [Call -> CallState]
    BY DEF CallsTell, TypeInv, TypeOK
  <2>3. /\ call'[c].pc = "reopen" /\ call'[c].offer = x /\ call'[c].app = a
        /\ call'[c].status = call[c].status
    BY <2>1, <2>2 DEF CallState
  <2>4. x = "ACTIVE" => With(Slot) \subseteq {a}
    BY DEF Others, With
  <2>5. x = "none" => offer # "PARTIALLY_FILLED"
    BY DEF Terminal
  <2>6. x = "PARTIALLY_FILLED" /\ ~past =>
          /\ With(Engaged) \ {a} # {}
          /\ undone \/ app[a] \in Hired \cup Waiting
    <3> SUFFICES ASSUME x = "PARTIALLY_FILLED", ~past
                 PROVE  /\ With(Engaged) \ {a} # {}
                        /\ undone \/ app[a] \in Hired \cup Waiting
      OBVIOUS
    <3>1. Others(a, undone) # {} /\ (undone \/ offer \notin Terminal)
      OBVIOUS
    <3>2. Others(a, undone) \subseteq With(Engaged) \ {a}
      BY DEF Others, With, Slot, Engaged
    <3>3. call[c].status \in {"WAITING_PAYMENT", "ACCEPTED", "END"}
      BY <2>1, <2>2 DEF CallTells, Waiting
    <3>4. ~undone => app[a] \in Hired \cup Waiting
      BY <2>1, <2>2, <3>1, <3>3 DEF CallTells
    <3> QED
      BY <3>1, <3>2, <3>4
  <2> HIDE DEF x
  <2>8. CallTells(c)'
    BY <2>1, <2>3, <2>4, <2>5, <2>6 DEF CallTells, With
  <2>9. \A d \in Call \ {c} : call[d].pc = "idle"
    BY <2>1, OthersIdle
  <2> QED
    BY <2>1, <2>8, <2>9, CallsKept
<1>21. ASSUME NEW c \in Call, CommitCancel(c) PROVE CallsTell'
  <2>1. call[c].pc # "idle" /\ call' = [call EXCEPT ![c] = Idle]
    BY <1>21 DEF CommitCancel, CancelHire, End, Goto
  <2> QED
    BY <2>1, CallEnds
<1>22. ASSUME NEW c \in Call, Lapse(c) PROVE CallsTell'
  <2>1. call[c].pc # "idle" /\ call' = [call EXCEPT ![c] = Idle]
    BY <1>22 DEF Lapse, CancelHire, End, Goto
  <2> QED
    BY <2>1, CallEnds
<1>23. ASSUME NEW c \in Call, RejectLeftovers(c) PROVE CallsTell'
  <2>1. call[c].pc # "idle" /\ call' = [call EXCEPT ![c] = Idle]
    BY <1>23 DEF RejectLeftovers, End, Goto
  <2> QED
    BY <2>1, CallEnds
<1>24. ASSUME NEW c \in Call, Confirm(c) PROVE CallsTell'
  <2>1. call[c].pc # "idle" /\ call' = [call EXCEPT ![c] = Idle]
    BY <1>24 DEF Confirm, End, Goto
  <2> QED
    BY <2>1, CallEnds
<1>25. ASSUME NEW c \in Call, Finish(c) PROVE CallsTell'
  <2>1. call[c].pc # "idle" /\ call' = [call EXCEPT ![c] = Idle]
    BY <1>25 DEF Finish, End, Goto
  <2> QED
    BY <2>1, CallEnds
<1>26. ASSUME NEW c \in Call, ReadClose(c) PROVE CallsTell'
  <2> DEFINE r == [call[c] EXCEPT !.pc = "closeWrite", !.ids = With({"PENDING"})]
  <2>1. call[c].pc = "close" /\ call' = [call EXCEPT ![c] = r] /\ UNCHANGED <<app, offer, past>>
    BY <1>26 DEF ReadClose, Read, Goto, End, rows, terms
  <2>2. CallTells(c) /\ call[c] \in CallState /\ call \in [Call -> CallState]
    BY DEF CallsTell, TypeInv, TypeOK
  <2>3. call'[c].pc = "closeWrite" /\ call'[c].offer = call[c].offer
    BY <2>1, <2>2 DEF CallState
  <2>8. CallTells(c)'
    BY <2>1, <2>2, <2>3 DEF CallTells, With
  <2>9. \A d \in Call \ {c} : call[d].pc = "idle"
    BY <2>1, OthersIdle
  <2> HIDE DEF r
  <2> QED
    BY <2>1, <2>8, <2>9, CallsKept
<1>27. ASSUME NEW c \in Call, WriteClose(c) PROVE CallsTell'
  <2>1. call[c].pc # "idle" /\ call' = [call EXCEPT ![c] = Idle]
    BY <1>27 DEF WriteClose, End, Goto
  <2> QED
    BY <2>1, CallEnds
<1>28. ASSUME NEW c \in Call, ReadDelete(c) PROVE CallsTell'
  <2> DEFINE r == [call[c] EXCEPT !.pc = "deleteWrite", !.ids = With({"PENDING"})]
  <2>1. call[c].pc = "delete" /\ call' = [call EXCEPT ![c] = r] /\ UNCHANGED <<app, offer, past>>
    BY <1>28 DEF ReadDelete, Read, Goto, End, rows, terms
  <2>2. CallTells(c) /\ call[c] \in CallState /\ call \in [Call -> CallState]
    BY DEF CallsTell, TypeInv, TypeOK
  <2>3. call'[c].pc = "deleteWrite"
    BY <2>1, <2>2 DEF CallState
  <2>8. CallTells(c)'
    BY <2>1, <2>2, <2>3 DEF CallTells
  <2>9. \A d \in Call \ {c} : call[d].pc = "idle"
    BY <2>1, OthersIdle
  <2> HIDE DEF r
  <2> QED
    BY <2>1, <2>8, <2>9, CallsKept
<1>29. ASSUME NEW c \in Call, WriteDelete(c) PROVE CallsTell'
  <2>1. call[c].pc # "idle" /\ call' = [call EXCEPT ![c] = Idle]
    BY <1>29 DEF WriteDelete, End, Goto
  <2> QED
    BY <2>1, CallEnds
<1>30. ASSUME NEW c \in Call, WriteAdmin(c) PROVE CallsTell'
  <2>1. forced' # {}
    BY <1>30 DEF WriteAdmin
  <2> QED
    BY <2>1 DEF InSequence
<1>31. ASSUME NEW c \in Call, FindWaiting(c) PROVE CallsTell'
  <2> DEFINE r == [call[c] EXCEPT !.pc = "rejectWrite", !.ids = With(call[c].which)]
  <2>1. call[c].pc = "rejectFind" /\ call' = [call EXCEPT ![c] = r] /\ UNCHANGED <<app, offer, past>>
    BY <1>31 DEF FindWaiting, Read, Goto, End, rows, terms
  <2>2. CallTells(c) /\ call[c] \in CallState /\ call \in [Call -> CallState]
    BY DEF CallsTell, TypeInv, TypeOK
  <2>3. call'[c].pc = "rejectWrite" /\ call'[c].ids = With(call[c].which)
    BY <2>1, <2>2 DEF CallState
  <2>4. call[c].which = {"PENDING"}
    BY <2>1, <2>2 DEF CallTells
  <2>5. \A b \in call'[c].ids : app'[b] \notin Engaged
    BY <2>1, <2>3, <2>4 DEF With, Engaged
  <2>8. CallTells(c)'
    BY <2>3, <2>5 DEF CallTells
  <2>9. \A d \in Call \ {c} : call[d].pc = "idle"
    BY <2>1, OthersIdle
  <2> HIDE DEF r
  <2> QED
    BY <2>1, <2>8, <2>9, CallsKept
<1>32. ASSUME NEW c \in Call, RejectWaiting(c) PROVE CallsTell'
  <2>1. call[c].pc # "idle" /\ call' = [call EXCEPT ![c] = Idle]
    BY <1>32 DEF RejectWaiting, End, Goto
  <2> QED
    BY <2>1, CallEnds
<1>33. ASSUME NEW c \in Call, ReadEdit(c) PROVE CallsTell'
  <2> DEFINE r == [call[c] EXCEPT !.pc = "editWrite"]
  <2>1. call[c].pc = "edit" /\ call' = [call EXCEPT ![c] = r] /\ UNCHANGED <<app, offer, past>>
    BY <1>33 DEF ReadEdit, Read, Goto, End, rows, terms
  <2>2. CallTells(c) /\ call[c] \in CallState /\ call \in [Call -> CallState]
    BY DEF CallsTell, TypeInv, TypeOK
  <2>3. call'[c].pc = "editWrite"
    BY <2>1, <2>2 DEF CallState
  <2>8. CallTells(c)'
    BY <2>1, <2>2, <2>3 DEF CallTells
  <2>9. \A d \in Call \ {c} : call[d].pc = "idle"
    BY <2>1, OthersIdle
  <2> HIDE DEF r
  <2> QED
    BY <2>1, <2>8, <2>9, CallsKept
<1>34. ASSUME NEW c \in Call, WriteEdit(c) PROVE CallsTell'
  <2>1. call[c].pc # "idle" /\ call' = [call EXCEPT ![c] = Idle]
    BY <1>34 DEF WriteEdit, End, Goto
  <2> QED
    BY <2>1, CallEnds
<1>35. ASSUME NEW c \in Call, Republish(c) PROVE CallsTell'
  <2>1. call[c].pc # "idle" /\ call' = [call EXCEPT ![c] = Idle]
    BY <1>35 DEF Republish, End, Goto
  <2> QED
    BY <2>1, CallEnds
<1>36. ASSUME NEW c \in Call, Start(c) PROVE CallsTell'
  <2> DEFINE r == [call[c] EXCEPT !.pc = "notify"]
  <2>1. call[c].pc = "start" /\ call' = [call EXCEPT ![c] = r] /\ past' = past
    BY <1>36 DEF Start, Read, Goto, End, rows, terms
  <2>2. CallTells(c) /\ call[c] \in CallState /\ call \in [Call -> CallState]
    BY DEF CallsTell, TypeInv, TypeOK
  <2>3. call'[c].pc = "notify" /\ call'[c].app = call[c].app /\ call'[c].offer = call[c].offer
    BY <2>1, <2>2 DEF CallState
  <2>4. call[c].app \in Application /\ app \in [Application -> ApplicationStatus]
    BY <2>1 DEF TypeInv, TypeOK, CallsHold, Held
  <2>5. app'[call[c].app] \in Hired
    BY <1>36, <2>4 DEF Start, Hired
  <2>6. offer' \notin {"ACTIVE", "EXPIRED"} /\ call[c].offer \notin {"ACTIVE", "EXPIRED"}
    BY <1>36, <2>1, <2>2 DEF Start, CallTells
  <2>8. CallTells(c)'
    BY <2>3, <2>5, <2>6 DEF CallTells
  <2>9. \A d \in Call \ {c} : call[d].pc = "idle"
    BY <2>1, OthersIdle
  <2> HIDE DEF r
  <2> QED
    BY <2>1, <2>8, <2>9, CallsKept
<1>37. ASSUME NEW c \in Call, UndoStart(c) PROVE CallsTell'
  <2>1. call[c].pc # "idle" /\ call' = [call EXCEPT ![c] = Idle]
    BY <1>37 DEF UndoStart, End, Goto
  <2> QED
    BY <2>1, CallEnds
<1>38. ASSUME NEW c \in Call, Abort(c) PROVE CallsTell'
  <2>1. call[c].pc # "idle" /\ call' = [call EXCEPT ![c] = Idle]
    BY <1>38 DEF Abort, End, Goto
  <2> QED
    BY <2>1, CallEnds
<1>39. ASSUME ToggleDeleted PROVE CallsTell'
  <2>1. UNCHANGED <<call, app, offer>> /\ (past => past')
    BY <1>39 DEF ToggleDeleted, Find, rows, terms
  <2> QED
    BY <2>1, TellingKept
<1>40. ASSUME TimePasses PROVE CallsTell'
  <2>1. UNCHANGED <<call, app, offer>> /\ (past => past')
    BY <1>40 DEF TimePasses, Find, rows, terms
  <2> QED
    BY <2>1, TellingKept
<1>41. ASSUME ScanFind PROVE CallsTell'
  <2>1. UNCHANGED <<call, app, offer>> /\ (past => past')
    BY <1>41 DEF ScanFind, Find, rows, terms
  <2> QED
    BY <2>1, TellingKept
<1>42. ASSUME ExpireEmpty PROVE CallsTell'
  <2>1. /\ app \in [Application -> ApplicationStatus] /\ call' = call /\ past' = past
        /\ scan \in {"expire", "start", "stop"} /\ offer' \in {"EXPIRED", "IN_PROGRESS", "FILLED"}
    BY <1>42 DEF ExpireEmpty, ScanEnds, terms, TypeInv, TypeOK
  <2> SUFFICES ASSUME NEW d \in Call, call[d].pc # "idle" PROVE CallTells(d)'
    BY <2>1, IdleTells DEF CallsTell, CallTells
  <2>2. past /\ CallTells(d) /\ Held(call[d], maxQuantity)
    BY <2>1 DEF ScanTells, CallsTell, TypeInv, CallsHold
  <2>3. \A b \in Application : app'[b] \in Slot => app[b] \in Slot
    BY <1>42 DEF ExpireEmpty, RejectAll, Slot
  <2>4. \A b \in Application : app[b] \notin Engaged => app'[b] \notin Engaged
    BY <1>42 DEF ExpireEmpty, RejectAll, Engaged, Waiting
  <2>7. \A b \in Application : app[b] \notin {"ACCEPTED", "STARTED", "END"}
    BY <1>42 DEF ExpireEmpty, ScanTells, With
  <2>5. call[d].pc \in {"finish", "finishKept", "finishWrite"} => app'[call[d].app] \in {"ACCEPTED", "STARTED", "END"}
    BY <2>2, <2>7 DEF CallTells, Held
  <2>6. call[d].pc \in {"start", "notify"} => app'[call[d].app] \in Hired /\ offer' # "EXPIRED"
    BY <2>2, <2>7 DEF CallTells, Held, Hired
  <2> QED
    BY <2>1, <2>2, <2>3, <2>4, <2>5, <2>6, ScanLeavesTelling
<1>43. ASSUME AutoStart PROVE CallsTell'
  <2>1. /\ app \in [Application -> ApplicationStatus] /\ call' = call /\ past' = past
        /\ scan \in {"expire", "start", "stop"} /\ offer' \in {"EXPIRED", "IN_PROGRESS", "FILLED"}
    BY <1>43 DEF AutoStart, ScanEnds, terms, TypeInv, TypeOK
  <2> SUFFICES ASSUME NEW d \in Call, call[d].pc # "idle" PROVE CallTells(d)'
    BY <2>1, IdleTells DEF CallsTell, CallTells
  <2>2. past /\ CallTells(d) /\ Held(call[d], maxQuantity)
    BY <2>1 DEF ScanTells, CallsTell, TypeInv, CallsHold
  <2>3. \A b \in Application : app'[b] \in Slot => app[b] \in Slot
    BY <1>43 DEF AutoStart, RejectAll, Slot
  <2>4. \A b \in Application : app[b] \notin Engaged => app'[b] \notin Engaged
    BY <1>43 DEF AutoStart, RejectAll, Engaged, Waiting
  <2>5. call[d].pc \in {"finish", "finishKept", "finishWrite"} => app'[call[d].app] \in {"ACCEPTED", "STARTED", "END"}
    BY <1>43, <2>1, <2>2 DEF AutoStart, CallTells, Held
  <2>6. call[d].pc \in {"start", "notify"} => app'[call[d].app] \in Hired /\ offer' # "EXPIRED"
    BY <1>43, <2>1, <2>2 DEF AutoStart, CallTells, Held, Hired
  <2> QED
    BY <2>1, <2>2, <2>3, <2>4, <2>5, <2>6, ScanLeavesTelling
<1>44. ASSUME StopRecruiting PROVE CallsTell'
  <2>1. /\ app \in [Application -> ApplicationStatus] /\ call' = call /\ past' = past
        /\ scan \in {"expire", "start", "stop"} /\ offer' \in {"EXPIRED", "IN_PROGRESS", "FILLED"}
    BY <1>44 DEF StopRecruiting, ScanEnds, terms, TypeInv, TypeOK
  <2> SUFFICES ASSUME NEW d \in Call, call[d].pc # "idle" PROVE CallTells(d)'
    BY <2>1, IdleTells DEF CallsTell, CallTells
  <2>2. past /\ CallTells(d) /\ Held(call[d], maxQuantity)
    BY <2>1 DEF ScanTells, CallsTell, TypeInv, CallsHold
  <2>3. \A b \in Application : app'[b] \in Slot => app[b] \in Slot
    BY <1>44 DEF StopRecruiting, RejectAll, Slot
  <2>4. \A b \in Application : app[b] \notin Engaged => app'[b] \notin Engaged
    BY <1>44 DEF StopRecruiting, RejectAll, Engaged, Waiting
  <2>5. call[d].pc \in {"finish", "finishKept", "finishWrite"} => app'[call[d].app] \in {"ACCEPTED", "STARTED", "END"}
    BY <1>44, <2>1, <2>2 DEF StopRecruiting, RejectAll, With, Waiting, CallTells, Held
  <2>6. call[d].pc \in {"start", "notify"} => app'[call[d].app] \in Hired /\ offer' # "EXPIRED"
    BY <1>44, <2>1, <2>2 DEF StopRecruiting, RejectAll, With, Waiting, CallTells, Held, Hired
  <2> QED
    BY <2>1, <2>2, <2>3, <2>4, <2>5, <2>6, ScanLeavesTelling
<1>45. ASSUME CloseAfterGrace PROVE CallsTell'
  <2>1. /\ app \in [Application -> ApplicationStatus] /\ call' = call /\ past' = past
        /\ scan = "close" /\ ongoing
    BY <1>45 DEF CloseAfterGrace, ScanEnds, terms, TypeInv, TypeOK, KindHolds
  <2>2. CASE offer = "COMPLETED"
    <3>1. UNCHANGED <<app, offer>>
      BY <1>45, <2>2 DEF CloseAfterGrace, CloseRecruitedOffer, rows
    <3> QED
      BY <2>1, <3>1, TellingKept
  <2>3. CASE offer # "COMPLETED"
    <3> SUFFICES ASSUME NEW d \in Call PROVE CallTells(d)'
      BY DEF CallsTell
    <3>1. /\ Unlocked(With(Hired \cup Waiting)) /\ offer' = "COMPLETED" /\ ~Undoing
          /\ \A b \in Application : app'[b] = Closed(b)
      BY <1>45, <2>3 DEF CloseAfterGrace, CloseRecruitedOffer, InSequence
    <3>2. /\ CallTells(d) /\ Held(call[d], maxQuantity) /\ call[d] \in CallState
          /\ call[d].pc \notin {"start", "notify", "finish", "finishKept", "finishWrite"}
      BY <2>1 DEF CallsTell, TypeInv, TypeOK, CallsHold, KindHolds
    <3>3. \A b \in Application : app'[b] \in Slot => app[b] \in Slot
      BY <3>1 DEF Closed, Slot, Hired, Waiting
    <3>4. \A b \in Application : app[b] \notin Engaged => app'[b] \notin Engaged
      BY <3>1 DEF Closed, Engaged, Hired, Waiting
    <3>5. With(Slot)' \subseteq With(Slot)
      BY <3>3 DEF With
    <3>6. call[d].pc = "reopen" => call[d].status # "END" /\ app[call[d].app] \notin Hired \cup Waiting
      BY <3>1, <3>2 DEF Undoing, Unlocked, With, Held
    <3>7. call[d].pc \in {"cancel", "reject"} => call[d].app \in Application
      BY <3>2 DEF Held
    <3>8. call[d].ids \subseteq Application
      BY <3>2 DEF CallState
    <3> QED
      BY <2>1, <3>1, <3>2, <3>4, <3>5, <3>6, <3>7, <3>8 DEF CallTells, Terminal
  <2> QED
    BY <2>2, <2>3
<1>46. ASSUME UNCHANGED vars PROVE CallsTell'
  BY <1>46, TellingKept DEF vars, terms, rows
<1>47. ASSUME NEW c \in Call, ReadFinish(c) PROVE CallsTell'
  <2>1. PICK x \in {"finishKept", "finishWrite"} : call' = [call EXCEPT ![c] = [call[c] EXCEPT !.pc = x]]
    BY <1>47 DEF ReadFinish, Read, Goto
  <2>2. call[c].pc = "finish" /\ UNCHANGED <<app, offer, past>>
    BY <1>47 DEF ReadFinish, Read, Goto, rows, terms
  <2>3. CallTells(c) /\ call[c] \in CallState /\ call \in [Call -> CallState]
    BY DEF CallsTell, TypeInv, TypeOK
  <2>4. call'[c].pc = x /\ call'[c].app = call[c].app
    BY <2>1, <2>3 DEF CallState
  <2>5. CallTells(c)'
    BY <2>2, <2>3, <2>4 DEF CallTells
  <2>6. \A d \in Call \ {c} : call[d].pc = "idle"
    BY <2>2, OthersIdle
  <2> QED
    BY <2>1, <2>5, <2>6, CallsKept
<1> QED
  BY <1>1, <1>2, <1>3, <1>4, <1>5, <1>6, <1>7, <1>8, <1>9, <1>10, <1>11,
     <1>12, <1>13, <1>14, <1>15, <1>16, <1>17, <1>18, <1>19, <1>20, <1>21,
     <1>22, <1>23, <1>24, <1>25, <1>26, <1>27, <1>28, <1>29, <1>30, <1>31,
     <1>32, <1>33, <1>34, <1>35, <1>36, <1>37, <1>38, <1>39, <1>40, <1>41,
     <1>42, <1>43, <1>44, <1>45, <1>46, <1>47
     DEF Next, Loads, Writes, ScanWrite

\* Every step keeps what is true in sequence.
LEMMA SequentialStep ==
  ASSUME TypeInv, KindHolds, Sequential, [Next]_vars
  PROVE  Sequential'
<1> SUFFICES ASSUME InSequence' PROVE OneCall' /\ StatusTells' /\ ScanTells' /\ CallsTell'
  BY DEF Sequential
<1>1. OneCall /\ StatusTells /\ ScanTells /\ CallsTell
  BY InSequenceStays DEF Sequential
<1> QED
  BY <1>1, OneCallStep, StatusStep, ScanStep, CallsTellStep

\* While no call overlaps another one, nothing is forced and no scan closes the offer
\* under a call that undoes a hire, nobody is hired on an ACTIVE offer, and somebody
\* is on one that says PARTIALLY_FILLED before its date (cancel, accept, the lapses).
THEOREM StatusTellsWhoIsHired == Spec => []StatusTellsHires
<1>1. Init => KindHolds /\ Sequential
  <2> SUFFICES ASSUME Init PROVE KindHolds /\ Sequential
    OBVIOUS
  <2>1. \A c \in Call : call[c].pc = "idle"
    BY DEF Init, Idle
  <2>2. With(Slot) = {} /\ offer = "ACTIVE" /\ scan = "idle"
    BY DEF Init, With, Slot
  <2>3. KindHolds /\ OneCall /\ CallsTell
    BY <2>1, <2>2, IdleTells DEF KindHolds, OneCall, CallsTell
  <2> QED
    BY <2>2, <2>3 DEF Sequential, StatusTells, ScanTells
<1>2. TypeInv /\ KindHolds /\ Sequential /\ [Next]_vars => KindHolds' /\ Sequential'
  BY KindStep, SequentialStep
<1>3. Sequential => StatusTellsHires
  BY DEF Sequential, InSequence, StatusTells, StatusTellsHires
<1> QED
  BY <1>1, <1>2, <1>3, TypeInvariant, PTL DEF Spec
=============================================================================
