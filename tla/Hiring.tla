------------------------------ MODULE Hiring ------------------------------
(***************************************************************************)
(* One job offer and its applications, from the first candidate to the      *)
(* settlement.  Candidates apply, the employer accepts, refuses, cancels,   *)
(* edits, closes, deletes and republishes, administrators force a status,   *)
(* unlocks are paid or lapse, workers cancel and finish, reminders and the  *)
(* timed scans start, expire, stop and close.  An operation loads the offer *)
(* and the application, and writes in a transaction later: a few of them    *)
(* lock the offer's row first, the others write over whatever happened in   *)
(* between.  VIEWED is modelled as PENDING: no code tells them apart here.  *)
(***************************************************************************)
EXTENDS Integers, FiniteSets

CONSTANTS
  Application,   \* application rows, whoever they are from
  Call,          \* concurrent calls of the services
  Quantities,    \* numbers of people the offer may ask for
  ForcedStatuses,\* bound: statuses an administrator may force
  MaxOverlaps,   \* bound: calls that begin while another one is in progress
  NoApplication  \* null

OfferStatus == {"ACTIVE", "PARTIALLY_FILLED", "FILLED", "IN_PROGRESS",
                "COMPLETED", "CANCELLED", "EXPIRED"}

ASSUME HiringAssumption ==
  /\ IsFiniteSet(Application)
  /\ NoApplication \notin Application
  /\ Quantities \subseteq Nat \ {0}
  /\ ForcedStatuses \subseteq OfferStatus
  /\ MaxOverlaps \in Nat \ {0}

VARIABLES
  ongoing,      \* closesOnFill(employment_type): the offer is not a MISSION
  quantity,     \* job_offers.quantity
  past,         \* job_offers.scheduled_at has passed
  deleted,      \* job_offers.deleted_at is set
  offer,        \* job_offers.status
  app,          \* applications.status ("NONE": no row yet)
  assigned,     \* assignments.status of an application ("NONE": no row)
  call,         \* what each call of a service holds
  scan,         \* the timed scan: the write it is about to make
  maxQuantity,  \* the largest quantity the offer ever had (history)
  rolledBack,   \* applications put back to ACCEPTED after STARTED (history)
  forced,       \* statuses an administrator has forced (history)
  crossed,      \* the scan closed the offer while an ended hire was undone (history)
  annulled,     \* applications cancelled while a finish took them for completed (history)
  overlaps

terms == <<ongoing, quantity, past, deleted>>
rows == <<offer, app, assigned>>
history == <<maxQuantity, rolledBack, forced, crossed, annulled>>
vars == <<terms, rows, call, scan, history, overlaps>>

Recruiting == {"ACTIVE", "PARTIALLY_FILLED"}
Terminal == {"CANCELLED", "COMPLETED", "EXPIRED"}
Movable == {"ACTIVE", "PARTIALLY_FILLED", "FILLED", "EXPIRED"}

ApplicationStatus == {"NONE", "PENDING", "WAITING_PAYMENT", "ACCEPTED",
                      "STARTED", "END", "REJECTED", "CANCELLED"}
Waiting == {"PENDING", "WAITING_PAYMENT"}
Slot == {"WAITING_PAYMENT", "ACCEPTED"}
Engaged == {"WAITING_PAYMENT", "ACCEPTED", "STARTED", "END"}

Label == {"idle", "accept", "reject", "cancel", "reopen", "lapse", "leftovers",
          "confirm", "finish", "finishKept", "finishWrite", "close", "closeWrite",
          "delete", "deleteWrite", "admin", "rejectFind", "rejectWrite",
          "edit", "editWrite", "republish", "start", "notify"}

\* What a call holds between its steps: the application and the status it was
\* loaded with, an offer status loaded or to be written ("none": leave it), a
\* quantity loaded or asked for, statuses and applications to reject.
CallState ==
  [pc : Label, app : Application \cup {NoApplication},
   status : ApplicationStatus, offer : OfferStatus \cup {"none"},
   quantity : Quantities \cup {0}, which : SUBSET Waiting, ids : SUBSET Application]

Idle ==
  [pc |-> "idle", app |-> NoApplication, status |-> "NONE", offer |-> "none",
   quantity |-> 0, which |-> {}, ids |-> {}]

Init ==
  /\ ongoing \in BOOLEAN
  /\ quantity \in Quantities
  /\ past = FALSE /\ deleted = FALSE
  /\ offer = "ACTIVE"
  /\ app = [a \in Application |-> "NONE"]
  /\ assigned = [a \in Application |-> "NONE"]
  /\ call = [c \in Call |-> Idle]
  /\ scan = "idle"
  /\ maxQuantity = quantity
  /\ rolledBack = {} /\ forced = {} /\ crossed = FALSE /\ annulled = {}
  /\ overlaps = 0

----------------------------------------------------------------------------
(* Calls and row locks. *)

With(S) == {a \in Application : app[a] \in S}

\* A cancellation locks its application's row, then reads the offer and writes
\* it: whoever writes that row meanwhile waits for the transaction to end.
Unlocked(S) == \A d \in Call : call[d].pc = "reopen" => call[d].app \notin S

Busy == scan # "idle" \/ \E d \in Call : call[d].pc # "idle"

Begin(c, s) ==
  /\ call[c].pc = "idle"
  /\ overlaps' = IF Busy THEN overlaps + 1 ELSE overlaps
  /\ overlaps' <= MaxOverlaps
  /\ call' = [call EXCEPT ![c] = s]
  /\ UNCHANGED scan

Goto(c, s) == call' = [call EXCEPT ![c] = s] /\ UNCHANGED <<scan, overlaps>>

End(c) == Goto(c, Idle)

\* The service refuses, its transaction rolls back or its process dies: what it
\* has committed stays.
Abort(c) ==
  /\ call[c].pc # "idle"
  /\ End(c)
  /\ UNCHANGED <<terms, rows, history>>

\* A read that begins a call, or comes between its steps, changes no row.
Load(c, s) == Begin(c, s) /\ UNCHANGED <<terms, rows, history>>
Read(c, s) == Goto(c, s) /\ UNCHANGED <<terms, rows, history>>

\* updateMany({id in ids}, {status: REJECTED}): by id, whatever the status is.
RejectAll(ids) ==
  /\ Unlocked(ids)
  /\ app' = [a \in Application |-> IF a \in ids THEN "REJECTED" ELSE app[a]]

----------------------------------------------------------------------------
(* Candidates and the employer's answers. *)

\* create(): the transaction rechecks the offer under its row lock.
Apply(a) ==
  /\ app[a] = "NONE" /\ offer \in Recruiting /\ ~deleted
  /\ app' = [app EXCEPT ![a] = "PENDING"]
  /\ UNCHANGED <<terms, offer, assigned, call, scan, history, overlaps>>

LoadAccept(c, a) ==
  /\ app[a] = "PENDING" /\ ~deleted
  /\ Load(c, [Idle EXCEPT !.pc = "accept", !.app = a, !.quantity = quantity])

\* Mutant: a hire that is not paid for yet takes no place.
TakenPaid == Cardinality(With({"ACCEPTED"}))

Taken == Cardinality(With(Slot))

\* Under both row locks; the quantity is the one loaded before them, and the
\* offer's status is written whatever it has become.  Opening the unlock of a
\* deleted offer fails.
Accept(c) ==
  LET a == call[c].app
      full == Taken + 1 >= call[c].quantity
  IN /\ call[c].pc = "accept" /\ app[a] = "PENDING" /\ ~deleted
     /\ Taken < call[c].quantity
     /\ app' = [b \in Application |->
                  IF b = a THEN "WAITING_PAYMENT"
                  ELSE IF full /\ app[b] = "PENDING" THEN "REJECTED" ELSE app[b]]
     /\ offer' = IF full THEN "FILLED" ELSE "PARTIALLY_FILLED"
     /\ assigned' = [assigned EXCEPT ![a] = "CONFIRMED"]
     /\ End(c)
     /\ UNCHANGED <<terms, history>>

LoadReject(c, a) ==
  /\ app[a] = "PENDING"
  /\ Load(c, [Idle EXCEPT !.pc = "reject", !.app = a])

\* No recheck: an application accepted since it was loaded is refused as well.
Reject(c) ==
  /\ call[c].pc = "reject"
  /\ RejectAll({call[c].app})
  /\ End(c)
  /\ UNCHANGED <<terms, offer, assigned, history>>

\* cancel() by the worker (not once an accepted mission has begun) and
\* cancelAcceptedByEmployer() (not of a pending application), together.
LoadCancel(c, a) ==
  /\ \/ app[a] \in Waiting \cup {"ACCEPTED"}
     \/ app[a] = "END" /\ ongoing
  /\ Load(c, [Idle EXCEPT !.pc = "cancel", !.app = a, !.status = app[a]])

\* Nothing was committed when it was loaded: the offer is left alone.
Withdraw(c) ==
  LET a == call[c].app
  IN /\ call[c].pc = "cancel" /\ call[c].status = "PENDING"
     /\ app[a] # "CANCELLED" /\ Unlocked({a})
     /\ app' = [app EXCEPT ![a] = "CANCELLED"]
     /\ End(c)
     /\ UNCHANGED <<terms, offer, assigned, history>>

\* The hires a cancellation leaves; undoing a finished one counts those as well.
\* Mutant: only the hires already paid for are left.
OthersPaid(a, undone) == With({"ACCEPTED"}) \ {a}

Others(a, undone) == With(IF undone THEN Slot \cup {"END"} ELSE Slot) \ {a}

\* The hires left decide what the offer reopens to.  An undone hire
\* (END) reopens it whatever it is; otherwise reopenOfferUnlessClosed reads it,
\* without its lock, and leaves a closed offer alone.
LockCancel(c) ==
  LET a == call[c].app
      undone == call[c].status = "END"
      reopenStatus == IF Others(a, undone) = {} THEN "ACTIVE" ELSE "PARTIALLY_FILLED"
  IN /\ call[c].pc = "cancel" /\ call[c].status # "PENDING"
     /\ app[a] # "CANCELLED" /\ Unlocked({a})
     /\ Read(c, [call[c] EXCEPT !.pc = "reopen",
                  !.offer = IF undone \/ offer \notin Terminal
                              THEN reopenStatus ELSE "none"])

\* The offer's new status, if a call that holds one decided to write it.
\* Mutant: it is written in any case.
ReopenedAlways(status) == status

Reopened(status) == IF status = "none" THEN offer ELSE status

\* A finish of the application has read its assignment as COMPLETED, will not write
\* it again, and is about to write the application's end.
TakenForCompleted(a) ==
  \E d \in Call : call[d].pc = "finishKept" /\ call[d].app = a /\ call[d].status # "END"

\* The application and its assignment are cancelled, whatever they have become.
CancelHire(a) ==
  /\ assigned' = [assigned EXCEPT ![a] = "CANCELLED"]
  /\ app' = [app EXCEPT ![a] = "CANCELLED"]
  /\ annulled' = IF TakenForCompleted(a) THEN annulled \cup {a} ELSE annulled
  /\ UNCHANGED <<maxQuantity, rolledBack, forced, crossed>>

CommitCancel(c) ==
  /\ call[c].pc = "reopen"
  /\ offer' = Reopened(call[c].offer)
  /\ CancelHire(call[c].app)
  /\ End(c)
  /\ UNCHANGED terms

----------------------------------------------------------------------------
(* The contact unlock, as far as it moves applications. *)

\* An attempt that lapsed: the transaction reads the application and the offer
\* (shouldReopenOffer), without locks, and writes both afterwards.
LoadLapse(c, a) ==
  /\ app[a] = "WAITING_PAYMENT"
  /\ Load(c, [Idle EXCEPT !.pc = "lapse", !.app = a, !.quantity = quantity,
               !.offer = IF past \/ offer \in {"IN_PROGRESS", "COMPLETED"}
                           THEN "none" ELSE offer])

Lapse(c) ==
  LET a == call[c].app
      remaining == Cardinality(With(Slot) \ {a})
      offerStatus == IF remaining >= call[c].quantity THEN "FILLED"
                     ELSE IF remaining > 0 THEN "PARTIALLY_FILLED" ELSE "ACTIVE"
  IN /\ call[c].pc = "lapse" /\ Unlocked({a})
     /\ CancelHire(a)
     /\ offer' = IF call[c].offer = "none" THEN offer ELSE offerStatus
     /\ End(c)
     /\ UNCHANGED terms

\* The attempts of S are paid: those still waiting are hired, and the fill is a
\* transaction of its own.
Unlock(c, S) ==
  /\ S # {} /\ \A a \in S : assigned[a] # "NONE"
  /\ Unlocked(S \cap With({"WAITING_PAYMENT"}))
  /\ app' = [a \in Application |->
               IF a \in S /\ app[a] = "WAITING_PAYMENT" THEN "ACCEPTED" ELSE app[a]]
  /\ Begin(c, [Idle EXCEPT !.pc = "leftovers"])
  /\ UNCHANGED <<terms, offer, assigned, history>>

RejectLeftovers(c) ==
  /\ call[c].pc = "leftovers"
  /\ IF Cardinality(With({"ACCEPTED"})) >= quantity
       THEN /\ offer' = "FILLED"
            /\ RejectAll(With(Waiting))
       ELSE UNCHANGED <<offer, app>>
  /\ End(c)
  /\ UNCHANGED <<terms, assigned, history>>

----------------------------------------------------------------------------
(* Settlement. *)

Hired == {"ACCEPTED", "STARTED"}

\* What the end of the recruitment makes of an application and its assignment.
\* Mutant: candidates are left waiting.
ClosedForHires(a) == IF app[a] \in Hired THEN "END" ELSE app[a]

Closed(a) == IF app[a] \in Hired THEN "END"
             ELSE IF app[a] \in Waiting THEN "REJECTED" ELSE app[a]

\* Mutant: only the hires known to have started are complete.
CompletedIfStarted(a) ==
  IF app[a] = "STARTED" /\ assigned[a] = "CONFIRMED" THEN "COMPLETED" ELSE assigned[a]

Completed(a) ==
  IF app[a] \in Hired /\ assigned[a] = "CONFIRMED" THEN "COMPLETED" ELSE assigned[a]

\* closeRecruitedOfferTx, under the offer's row lock.
CloseRecruitedOffer ==
  IF offer = "COMPLETED" THEN UNCHANGED rows
  ELSE /\ Unlocked(With(Hired \cup Waiting))
       /\ app' = [a \in Application |-> Closed(a)]
       /\ assigned' = [a \in Application |-> Completed(a)]
       /\ offer' = "COMPLETED"

LoadConfirm(c) ==
  /\ ongoing /\ offer = "FILLED"
  /\ Load(c, [Idle EXCEPT !.pc = "confirm"])

\* The transaction only checks that the offer is not COMPLETED.
Confirm(c) ==
  /\ call[c].pc = "confirm"
  /\ CloseRecruitedOffer
  /\ End(c)
  /\ UNCHANGED <<terms, history>>

LoadFinish(c, a) ==
  /\ ~ongoing
  /\ \/ app[a] \in {"STARTED", "END"}
     \/ app[a] = "ACCEPTED" /\ past
  /\ Load(c, [Idle EXCEPT !.pc = "finish", !.app = a, !.status = app[a]])

\* markCompletedByWorker: the transaction reads the assignment, without its lock,
\* and writes it only if it was not COMPLETED.
ReadFinish(c) ==
  /\ call[c].pc = "finish"
  /\ Read(c, [call[c] EXCEPT !.pc = IF assigned[call[c].app] = "COMPLETED"
                                     THEN "finishKept" ELSE "finishWrite"])

\* Its own rows by id, then, under the offer's row lock, closeOfferIfAllWorkersDone.
\* A cancellation that holds the application is waited for, unless the application
\* was loaded as ended and is not written.
Finish(c) ==
  LET a == call[c].app
      ended == IF call[c].status = "END" THEN app ELSE [app EXCEPT ![a] = "END"]
      working == \E b \in Application : ended[b] \in Hired
  IN /\ call[c].pc \in {"finishKept", "finishWrite"}
     /\ call[c].status = "END" \/ Unlocked({a})
     /\ assigned' = IF call[c].pc = "finishKept" THEN assigned
                    ELSE [assigned EXCEPT ![a] = "COMPLETED"]
     /\ IF offer = "COMPLETED" \/ working
          THEN app' = ended /\ UNCHANGED offer
          ELSE /\ offer' = "COMPLETED"
               /\ Unlocked(With(Waiting))
               /\ app' = [b \in Application |->
                            IF ended[b] \in Waiting THEN "REJECTED" ELSE ended[b]]
     /\ End(c)
     /\ UNCHANGED <<terms, history>>

----------------------------------------------------------------------------
(* The offer's own operations: none of them locks its row. *)

LoadClose(c) ==
  /\ ~deleted /\ offer \in Recruiting
  /\ Load(c, [Idle EXCEPT !.pc = "close", !.offer = offer])

ReadClose(c) ==
  /\ call[c].pc = "close"
  /\ With({"WAITING_PAYMENT"}) = {}
  /\ Read(c, [call[c] EXCEPT !.pc = "closeWrite", !.ids = With({"PENDING"})])

\* Whether anyone was hired is told from the status loaded at first.
WriteClose(c) ==
  /\ call[c].pc = "closeWrite"
  /\ RejectAll(call[c].ids)
  /\ offer' = IF call[c].offer = "PARTIALLY_FILLED" THEN "FILLED" ELSE "EXPIRED"
  /\ End(c)
  /\ UNCHANGED <<terms, assigned, history>>

LoadDelete(c) ==
  /\ ~deleted /\ offer \in {"ACTIVE", "EXPIRED"}
  /\ Load(c, [Idle EXCEPT !.pc = "delete"])

ReadDelete(c) ==
  /\ call[c].pc = "delete"
  /\ With(Engaged) = {}
  /\ \A a \in Application : assigned[a] \notin {"CONFIRMED", "COMPLETED"}
  /\ Read(c, [call[c] EXCEPT !.pc = "deleteWrite", !.ids = With({"PENDING"})])

WriteDelete(c) ==
  /\ call[c].pc = "deleteWrite"
  /\ RejectAll(call[c].ids)
  /\ deleted' = TRUE
  /\ End(c)
  /\ UNCHANGED <<ongoing, quantity, past, offer, assigned, history>>

\* bulkSoftDeleteByAdmin, also when the employer's profile is archived: the
\* candidates are closed after the offer, in statements of their own.
Archive(c) ==
  /\ ~deleted /\ deleted' = TRUE
  /\ Begin(c, [Idle EXCEPT !.pc = "rejectFind", !.which = {"PENDING"}])
  /\ UNCHANGED <<ongoing, quantity, past, rows, history>>

\* deleteJobOfferByAdmin, and an administrator's restore.
ToggleDeleted ==
  /\ deleted' = ~deleted
  /\ UNCHANGED <<ongoing, quantity, past, rows, call, scan, history, overlaps>>

\* updateStatusByAdmin: any status but a reopening of a completed offer.
LoadAdmin(c, s) ==
  /\ offer = "COMPLETED" => s \in Terminal
  /\ Load(c, [Idle EXCEPT !.pc = "admin", !.offer = s])

WriteAdmin(c) ==
  /\ call[c].pc = "admin"
  /\ offer' = call[c].offer
  /\ forced' = forced \cup {call[c].offer}
  /\ IF offer' \in Terminal
       THEN Goto(c, [Idle EXCEPT !.pc = "rejectFind", !.which = Waiting])
       ELSE End(c)
  /\ UNCHANGED <<terms, app, assigned, maxQuantity, rolledBack, crossed, annulled>>

\* rejectWaitingApplicants outside a transaction.
FindWaiting(c) ==
  /\ call[c].pc = "rejectFind"
  /\ Read(c, [call[c] EXCEPT !.pc = "rejectWrite", !.ids = With(call[c].which)])

RejectWaiting(c) ==
  /\ call[c].pc = "rejectWrite"
  /\ RejectAll(call[c].ids)
  /\ End(c)
  /\ UNCHANGED <<terms, offer, assigned, history>>

\* updateByEmployer: the slots taken are read after the offer, before the write.
LoadEdit(c, q) ==
  /\ ~deleted /\ offer = "ACTIVE"
  /\ Load(c, [Idle EXCEPT !.pc = "edit", !.quantity = q])

ReadEdit(c) ==
  /\ call[c].pc = "edit"
  /\ Cardinality(With(Slot \cup {"STARTED"})) <= call[c].quantity
  /\ Read(c, [call[c] EXCEPT !.pc = "editWrite"])

\* updateJobOfferByAdmin asks for no more than an ACTIVE offer.
LoadEditByAdmin(c, q) ==
  /\ offer = "ACTIVE"
  /\ Load(c, [Idle EXCEPT !.pc = "editWrite", !.quantity = q])

\* The edit may also move the date into the future.
WriteEdit(c) ==
  /\ call[c].pc = "editWrite"
  /\ quantity' = call[c].quantity
  /\ maxQuantity' = IF quantity' > maxQuantity THEN quantity' ELSE maxQuantity
  /\ past' \in {past, FALSE}
  /\ End(c)
  /\ UNCHANGED <<ongoing, deleted, rows, rolledBack, forced, crossed, annulled>>

LoadRepublish(c) ==
  /\ ~deleted /\ offer = "EXPIRED"
  /\ Load(c, [Idle EXCEPT !.pc = "republish"])

Republish(c) ==
  /\ call[c].pc = "republish"
  /\ offer' = "ACTIVE" /\ past' = FALSE
  /\ End(c)
  /\ UNCHANGED <<ongoing, quantity, deleted, app, assigned, history>>

----------------------------------------------------------------------------
(* The date: the start reminder and the timed scan. *)

TimePasses ==
  /\ ~past /\ past' = TRUE
  /\ UNCHANGED <<ongoing, quantity, deleted, rows, call, scan, history, overlaps>>

\* sendReminderStart: one key per application keeps a second one away.
LoadStart(c, a) ==
  /\ ~ongoing /\ past /\ app[a] = "ACCEPTED"
  /\ \A d \in Call : call[d].pc \in {"start", "notify"} => call[d].app # a
  /\ Load(c, [Idle EXCEPT !.pc = "start", !.app = a,
               !.offer = IF offer \in Movable THEN offer ELSE "none"])

Start(c) ==
  LET a == call[c].app
  IN /\ call[c].pc = "start" /\ Unlocked({a})
     /\ app' = [app EXCEPT ![a] = "STARTED"]
     /\ offer' = IF call[c].offer = "none" THEN offer ELSE "IN_PROGRESS"
     /\ Goto(c, [call[c] EXCEPT !.pc = "notify"])
     /\ UNCHANGED <<terms, assigned, history>>

\* The message could not be sent: both statuses are put back.
UndoStart(c) ==
  LET a == call[c].app
  IN /\ call[c].pc = "notify" /\ Unlocked({a})
     /\ app' = [app EXCEPT ![a] = "ACCEPTED"]
     /\ offer' = Reopened(call[c].offer)
     /\ rolledBack' = rolledBack \cup {a}
     /\ End(c)
     /\ UNCHANGED <<terms, assigned, maxQuantity, forced, crossed, annulled>>

\* The scan's queries, one per kind of write it makes.
CanExpire == offer \in Recruiting /\ past /\ With({"ACCEPTED", "STARTED", "END"}) = {}

\* Mutant: an offer that is not full never begins.
CanStartFull == /\ ~ongoing /\ past /\ offer = "FILLED"
                /\ With({"ACCEPTED"}) # {} /\ With({"STARTED", "END"}) = {}

CanStart == /\ ~ongoing /\ past /\ offer \in {"FILLED", "PARTIALLY_FILLED"}
            /\ With({"ACCEPTED"}) # {} /\ With({"STARTED", "END"}) = {}

CanStop == /\ ongoing /\ past /\ offer \in Recruiting
           /\ With(Hired) # {}

CanClose == ongoing /\ offer = "FILLED"

Find(kind, found) ==
  /\ scan = "idle" /\ found
  /\ scan' = kind
  /\ UNCHANGED <<terms, rows, call, history, overlaps>>

ScanFind == \/ Find("expire", CanExpire) \/ Find("start", CanStart)
            \/ Find("stop", CanStop) \/ Find("close", CanClose)

ScanEnds == scan' = "idle" /\ UNCHANGED <<terms, call, maxQuantity, rolledBack, forced, annulled, overlaps>>

\* An ended hire is being undone: its cancellation has counted the others' hires
\* and is about to reopen the offer, whatever the offer has become.
Undoing == \E c \in Call : call[c].pc = "reopen" /\ call[c].status = "END"

\* The writes of a scan are one batch; it found its offers before the batch.  A
\* batch that fails leaves the rows as they were for the next scan to find: the
\* same as a scan that had not begun.
ExpireEmpty ==
  /\ scan = "expire" /\ Unlocked(With(Waiting))
  /\ offer' = "EXPIRED"
  /\ app' = [a \in Application |->
               IF app[a] \in Waiting THEN "CANCELLED" ELSE app[a]]
  /\ ScanEnds /\ UNCHANGED <<assigned, crossed>>

AutoStart ==
  /\ scan = "start" /\ Unlocked(With({"ACCEPTED"}))
  /\ offer' = "IN_PROGRESS"
  /\ app' = [a \in Application |->
               IF app[a] = "ACCEPTED" THEN "STARTED" ELSE app[a]]
  /\ ScanEnds /\ UNCHANGED <<assigned, crossed>>

StopRecruiting ==
  /\ scan = "stop"
  /\ offer' = "FILLED"
  /\ RejectAll(With(Waiting))
  /\ ScanEnds /\ UNCHANGED <<assigned, crossed>>

CloseAfterGrace ==
  /\ scan = "close" /\ CloseRecruitedOffer /\ ScanEnds
  /\ crossed' = (crossed \/ (offer # "COMPLETED" /\ Undoing))

ScanWrite == ExpireEmpty \/ AutoStart \/ StopRecruiting \/ CloseAfterGrace
----------------------------------------------------------------------------
Loads(c) ==
  \/ \E a \in Application :
       \/ LoadAccept(c, a) \/ LoadReject(c, a) \/ LoadCancel(c, a)
       \/ LoadLapse(c, a) \/ LoadFinish(c, a) \/ LoadStart(c, a)
  \/ \E S \in SUBSET Application : Unlock(c, S)
  \/ \E s \in ForcedStatuses : LoadAdmin(c, s)
  \/ \E q \in Quantities : LoadEdit(c, q) \/ LoadEditByAdmin(c, q)
  \/ LoadConfirm(c) \/ LoadClose(c) \/ LoadDelete(c) \/ LoadRepublish(c)
  \/ Archive(c)

Writes(c) ==
  \/ Accept(c) \/ Reject(c) \/ Withdraw(c) \/ LockCancel(c) \/ CommitCancel(c)
  \/ Lapse(c) \/ RejectLeftovers(c) \/ Confirm(c) \/ ReadFinish(c) \/ Finish(c)
  \/ ReadClose(c) \/ WriteClose(c) \/ ReadDelete(c) \/ WriteDelete(c)
  \/ WriteAdmin(c) \/ FindWaiting(c) \/ RejectWaiting(c)
  \/ ReadEdit(c) \/ WriteEdit(c) \/ Republish(c) \/ Start(c) \/ UndoStart(c)
  \/ Abort(c)

Next ==
  \/ \E a \in Application : Apply(a)
  \/ \E c \in Call : Loads(c) \/ Writes(c)
  \/ ToggleDeleted \/ TimePasses \/ ScanFind \/ ScanWrite

\* A transaction that holds a row's lock ends; the scan is run again and again,
\* and one that repeatedly gets as far as its write succeeds in the end.
Fairness ==
  /\ \A c \in Call : WF_vars(CommitCancel(c))
  /\ WF_vars(ScanFind)
  /\ SF_vars(ScanWrite)

Spec == Init /\ [][Next]_vars /\ Fairness
----------------------------------------------------------------------------
(* Properties. *)

\* Every row and every call holds values of the schema.
TypeOK ==
  /\ ongoing \in BOOLEAN /\ past \in BOOLEAN /\ deleted \in BOOLEAN
  /\ quantity \in Quantities /\ maxQuantity \in Quantities
  /\ offer \in OfferStatus
  /\ app \in [Application -> ApplicationStatus]
  /\ assigned \in [Application -> {"NONE", "CONFIRMED", "COMPLETED", "CANCELLED"}]
  /\ call \in [Call -> CallState]
  /\ scan \in {"idle", "expire", "start", "stop", "close"}
  /\ rolledBack \in SUBSET Application /\ forced \in SUBSET ForcedStatuses
  /\ crossed \in BOOLEAN /\ annulled \in SUBSET Application
  /\ overlaps \in 0 .. MaxOverlaps

\* Whatever overlaps, no more people hold a place they have not started on than
\* the offer ever asked for (accept's count under the offer's row lock).
SlotsRespected ==
  Cardinality(With(Slot) \ rolledBack) <= maxQuantity

\* A completed offer leaves nobody waiting for an answer or a payment, unless
\* an administrator completed it by hand (the leftovers both closings reject).
CompletedLeavesNobodyWaiting ==
  offer = "COMPLETED" /\ "COMPLETED" \notin forced => With(Waiting) = {}

\* A hire that ended has its assignment completed: ratings hang on it.  Left out is
\* a hire that was cancelled after one call had finished it and while another, which
\* found the assignment completed, was about to write the application's end.
EndedCanBeRated ==
  \A a \in Application \ annulled : app[a] = "END" => assigned[a] = "COMPLETED"

\* While no call has begun during another operation, no administrator has forced a
\* status and no scan has closed the offer under a call that undoes a hire, the
\* offer's status tells the truth: an ACTIVE offer, open to edits and deletion, has
\* nobody hired or paying, and one that says PARTIALLY_FILLED before its date has
\* somebody (the reopening counts of every cancellation).
StatusTellsHires ==
  overlaps = 0 /\ forced = {} /\ ~crossed =>
    /\ offer = "ACTIVE" => With(Slot) = {}
    /\ offer = "PARTIALLY_FILLED" /\ ~past => With(Engaged) # {}

Overdue == past /\ offer \in Recruiting

\* Offers past their date that none of the scans takes: somebody has started or
\* finished, or an ACTIVE mission has a hire.
Stranded ==
  IF ongoing THEN With({"END"}) # {} /\ With(Hired) = {}
             ELSE With({"STARTED", "END"}) # {} \/ (offer = "ACTIVE" /\ With({"ACCEPTED"}) # {})

\* An offer past its date stops recruiting, unless it is stranded.
OverdueStopsRecruiting == Overdue ~> (~Overdue \/ Stranded)
==========================================================================
