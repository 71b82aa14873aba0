----------------------------- MODULE Broadcasts -----------------------------
(***************************************************************************)
(* One broadcast, from the administrator's button to its last delivery.     *)
(* Sending freezes the audience into recipient rows and queues the first    *)
(* page.  A worker takes a page of pending rows, delivers to each, settles  *)
(* its row and then the broadcast's counters, and queues the next page under *)
(* an id the queue accepts once; an empty page ends the run.  A retry puts   *)
(* the failed rows back and starts a run of its own; a cancellation is read *)
(* between pages.  A job whose worker dies or throws is run again, up to a   *)
(* limit.  A row is one delivery: a profile on a channel.                    *)
(***************************************************************************)
EXTENDS Integers, FiniteSets

CONSTANTS
  Recipient,   \* deliveries of the audience
  InApp,       \* those of them in the in-app channel: one batch per page
  PageSize,    \* CHUNK_SIZE
  Worker,      \* processes with a worker of the queue
  Admin,       \* concurrent calls of the administration
  MaxRuns,     \* bound: runs that are started
  MaxTries,    \* times the queue runs a page before it gives up
  MaxFaults    \* bound: deaths, failed statements and lost answers

ASSUME BroadcastAssumption ==
  /\ IsFiniteSet(Recipient) /\ IsFiniteSet(Worker)
  /\ InApp \subseteq Recipient
  /\ PageSize \in Nat \ {0}
  /\ MaxRuns \in Nat /\ MaxTries \in Nat /\ MaxFaults \in Nat

VARIABLES
  status,      \* broadcasts.status
  row,         \* broadcast_recipients.status ("NONE": no row)
  sentCount, failedCount,
  waiting,     \* pages in the queue
  known,       \* ids of the pages the queue has seen
  work,        \* what each worker is doing
  admin,       \* what each call of the administration is doing
  runs,        \* runs started
  faults,      \* deaths, failed statements and lost answers
  messages,    \* messages each recipient got (history)
  repeats,     \* messages that left and whose row does not say so (history)
  drift,       \* a settlement was cut short or crossed a retry (history)
  lost         \* a run ended before its last page (history)

counters == <<sentCount, failedCount>>
queue == <<waiting, known>>
record == <<messages, repeats, drift, lost>>
castVars == <<status, row, counters, queue, work, admin, runs, faults, record>>

CastStatus == {"DRAFT", "SCHEDULED", "SENDING", "SENT", "FAILED", "CANCELLED"}

Job == [run : 0 .. MaxRuns, cursor : Nat, tries : Nat]
NoJob == [run |-> 0, cursor |-> 0, tries |-> 0]

\* A worker holds its job, the next one's cursor, the rows of the page left to
\* do and those being settled, and how that goes: was nothing delivered, and has
\* a failed statement been caught?
Work ==
  [pc : {"idle", "load", "mark", "page", "deliver", "row", "count", "next", "finish", "ack"},
   job : Job, next : Nat, todo : SUBSET Recipient, item : SUBSET Recipient,
   failed : BOOLEAN, caught : BOOLEAN]

NoWork == [pc |-> "idle", job |-> NoJob, next |-> 0, todo |-> {}, item |-> {},
           failed |-> FALSE, caught |-> FALSE]

AdminCall ==
  [pc : {"idle", "snapshot", "start", "reset", "recount", "restart", "enqueue", "cancel"},
   run : 0 .. MaxRuns, failed : Nat]

NoCall == [pc |-> "idle", run |-> 0, failed |-> 0]

CastInit ==
  /\ status = "DRAFT"
  /\ row = [r \in Recipient |-> "NONE"]
  /\ sentCount = 0 /\ failedCount = 0
  /\ waiting = {} /\ known = {}
  /\ work = [w \in Worker |-> NoWork]
  /\ admin = [c \in Admin |-> NoCall]
  /\ runs = 0 /\ faults = 0
  /\ messages = [r \in Recipient |-> 0]
  /\ repeats = [r \in Recipient |-> 0]
  /\ drift = FALSE /\ lost = FALSE

Rows(s) == {r \in Recipient : row[r] = s}

\* n more for each recipient of S.
More(f, S, n) == [r \in Recipient |-> IF r \in S THEN f[r] + n ELSE f[r]]

----------------------------------------------------------------------------
(* The administration. *)

Leave(c) == admin' = [admin EXCEPT ![c] = NoCall]
Then(c, pc) == admin' = [admin EXCEPT ![c].pc = pc]

\* addJob: an id the queue has already seen is dropped without a word.
Enqueue(run, cursor) ==
  /\ waiting' = IF <<run, cursor>> \in known THEN waiting
                ELSE waiting \cup {[run |-> run, cursor |-> cursor, tries |-> 0]}
  /\ known' = known \cup {<<run, cursor>>}

\* send().
LoadSend(c) ==
  /\ admin[c].pc = "idle" /\ runs < MaxRuns
  /\ status = "DRAFT"
  /\ runs' = runs + 1
  /\ admin' = [admin EXCEPT ![c] = [pc |-> "snapshot", run |-> runs', failed |-> 0]]
  /\ UNCHANGED <<status, row, counters, queue, work, faults, record>>

\* snapshotAudience, skipDuplicates.
Snapshot(c) ==
  /\ admin[c].pc = "snapshot"
  /\ row' = [r \in Recipient |-> IF row[r] = "NONE" THEN "PENDING" ELSE row[r]]
  /\ Then(c, "start")
  /\ UNCHANGED <<status, counters, queue, work, runs, faults, record>>

\* At once, or at the time the call was given, for which the job will wait.
StartRun(c) ==
  /\ admin[c].pc = "start"
  /\ status' \in {"SENDING", "SCHEDULED"}
  /\ Then(c, "enqueue")
  /\ UNCHANGED <<row, counters, queue, work, runs, faults, record>>

EnqueueRun(c) ==
  /\ admin[c].pc = "enqueue"
  /\ Enqueue(admin[c].run, 0)
  /\ Leave(c)
  /\ UNCHANGED <<status, row, counters, work, runs, faults, record>>

\* retryFailed(): also of a cancelled broadcast.
LoadRetry(c) ==
  /\ admin[c].pc = "idle" /\ runs < MaxRuns
  /\ status # "SENDING" /\ Rows("FAILED") # {}
  /\ runs' = runs + 1
  /\ admin' = [admin EXCEPT ![c] = [pc |-> "reset", run |-> runs', failed |-> 0]]
  /\ UNCHANGED <<status, row, counters, queue, work, faults, record>>

\* A worker has settled a row and not counted it yet.
Uncounted(w) == \E r \in work[w].item : row[r] # "PENDING"

\* Mutant: whoever got the message is put back with those who did not.
ResetSettled(c) ==
  /\ admin[c].pc = "reset"
  /\ row' = [r \in Recipient |-> IF row[r] = "NONE" THEN row[r] ELSE "PENDING"]
  /\ drift' = (drift \/ \E w \in Worker : Uncounted(w))
  /\ Then(c, "recount")
  /\ UNCHANGED <<status, counters, queue, work, runs, faults, messages, repeats, lost>>

ResetFailed(c) ==
  /\ admin[c].pc = "reset"
  /\ row' = [r \in Recipient |-> IF row[r] = "FAILED" THEN "PENDING" ELSE row[r]]
  /\ drift' = (drift \/ \E w \in Worker : Uncounted(w))
  /\ Then(c, "recount")
  /\ UNCHANGED <<status, counters, queue, work, runs, faults, messages, repeats, lost>>

Recount(c) ==
  /\ admin[c].pc = "recount"
  /\ admin' = [admin EXCEPT ![c].pc = "restart", ![c].failed = Cardinality(Rows("FAILED"))]
  /\ UNCHANGED <<status, row, counters, queue, work, runs, faults, record>>

\* Mutant: the failures of the first run stay counted.
RestartUncounted(c) ==
  /\ admin[c].pc = "restart"
  /\ status' = "SENDING"
  /\ drift' = (drift \/ \E w \in Worker : Uncounted(w))
  /\ Then(c, "enqueue")
  /\ UNCHANGED <<row, counters, queue, work, runs, faults, messages, repeats, lost>>

RestartRun(c) ==
  /\ admin[c].pc = "restart"
  /\ status' = "SENDING"
  /\ failedCount' = admin[c].failed
  /\ drift' = (drift \/ \E w \in Worker : Uncounted(w))
  /\ Then(c, "enqueue")
  /\ UNCHANGED <<row, sentCount, queue, work, runs, faults, messages, repeats, lost>>

\* cancel(): the job it removes has an id no job is given, so none goes.
LoadCancel(c) ==
  /\ admin[c].pc = "idle"
  /\ status \notin {"SENT", "CANCELLED"}
  /\ Then(c, "cancel")
  /\ UNCHANGED <<status, row, counters, queue, work, runs, faults, record>>

WriteCancel(c) ==
  /\ admin[c].pc = "cancel"
  /\ status' = "CANCELLED"
  /\ Leave(c)
  /\ UNCHANGED <<row, counters, queue, work, runs, faults, record>>

\* The process dies or a statement fails: what it has written stays.
CallDies(c) ==
  /\ admin[c].pc # "idle" /\ faults < MaxFaults
  /\ faults' = faults + 1
  /\ lost' = (lost \/ admin[c].pc = "enqueue")
  /\ drift' = (drift \/ admin[c].pc \in {"recount", "restart"})
  /\ Leave(c)
  /\ UNCHANGED <<status, row, counters, queue, work, runs, messages, repeats>>

----------------------------------------------------------------------------
(* One page. *)

Step(w, pc) == work' = [work EXCEPT ![w].pc = pc]

TakeJob(w, j) ==
  /\ work[w].pc = "idle" /\ j \in waiting
  /\ waiting' = waiting \ {j}
  /\ work' = [work EXCEPT ![w] = [NoWork EXCEPT !.pc = "load", !.job = j]]
  /\ UNCHANGED <<status, row, counters, known, admin, runs, faults, record>>

\* Read once a page: a cancelled broadcast stops here.
ReadStatus(w) ==
  /\ work[w].pc = "load"
  /\ Step(w, CASE status = "CANCELLED" -> "ack" [] status = "SCHEDULED" -> "mark"
               [] OTHER -> "page")
  /\ UNCHANGED <<status, row, counters, queue, admin, runs, faults, record>>

MarkSending(w) ==
  /\ work[w].pc = "mark"
  /\ status' = "SENDING"
  /\ Step(w, "page")
  /\ UNCHANGED <<row, counters, queue, admin, runs, faults, record>>

\* At most PageSize pending rows.  Those another worker has taken as well are
\* pending still, and may get the message from both.
TakePage(w) ==
  /\ work[w].pc = "page"
  /\ \E S \in SUBSET Rows("PENDING") :
       LET shared == {r \in S : \E v \in Worker \ {w} : r \in work[v].todo}
       IN /\ S # {}
          /\ \/ Cardinality(S) = PageSize
             \/ S = Rows("PENDING") /\ Cardinality(S) < PageSize
          /\ work' = [work EXCEPT ![w].pc = "deliver", ![w].todo = S,
                        ![w].next = work[w].job.cursor + Cardinality(S)]
          /\ repeats' = More(repeats, shared, 1)
          /\ drift' = (drift \/ shared # {})
  /\ UNCHANGED <<status, row, counters, queue, admin, runs, faults, messages, lost>>

\* Nothing is pending: the broadcast is over, FAILED if nothing got through.
LastPage(w) ==
  /\ work[w].pc = "page" /\ Rows("PENDING") = {}
  /\ work' = [work EXCEPT ![w].pc = "finish", ![w].failed = sentCount = 0 /\ failedCount > 0]
  /\ UNCHANGED <<status, row, counters, queue, admin, runs, faults, record>>

\* The profile has left since: its row is settled alone, outside the try.
Skip(w, r) ==
  /\ work[w].pc = "deliver" /\ r \in work[w].todo
  /\ work' = [work EXCEPT ![w].pc = "row", ![w].item = {r},
                ![w].failed = TRUE, ![w].caught = TRUE]
  /\ UNCHANGED <<status, row, counters, queue, admin, runs, faults, record>>

\* The in-app rows in one insert, then the others one by one.  What the call says
\* of the delivery (sent, not sent, or a throw that is caught) need not be what
\* became of it: a request that times out or whose connection breaks may have been
\* carried out.  On WhatsApp a free-form message that is reported as not sent is
\* followed at once by the template, so that two messages may have left.
Deliver(w, S, left, sent, caught) ==
  LET unsaid == IF sent THEN left - 1 ELSE left
  IN /\ work[w].pc = "deliver"
     /\ \/ S = work[w].todo \cap InApp /\ S # {}
        \/ work[w].todo \cap InApp = {} /\ \E r \in work[w].todo : S = {r}
     /\ sent => ~caught /\ left > 0
     /\ caught => left < 2
     /\ S \subseteq InApp => (sent \/ caught) /\ left < 2
     /\ messages' = More(messages, S, left)
     /\ repeats' = More(repeats, S, unsaid)
     /\ IF unsaid = 0 THEN UNCHANGED faults ELSE faults < MaxFaults /\ faults' = faults + 1
     /\ work' = [work EXCEPT ![w].pc = "row", ![w].item = S,
                   ![w].failed = ~sent, ![w].caught = caught]
     /\ UNCHANGED <<status, row, counters, queue, admin, runs, drift, lost>>

\* A retry is between its reset and its count of the failed rows.
Recounting == \E c \in Admin : admin[c].pc \in {"recount", "restart"}

SettleRow(w) ==
  /\ work[w].pc = "row"
  /\ row' = [r \in Recipient |->
               IF r \notin work[w].item THEN row[r]
               ELSE IF work[w].failed THEN "FAILED" ELSE "SENT"]
  /\ drift' = (drift \/ Recounting)
  /\ Step(w, "count")
  /\ UNCHANGED <<status, counters, queue, admin, runs, faults, messages, repeats, lost>>

SettleCount(w) ==
  LET n == Cardinality(work[w].item)
      left == work[w].todo \ work[w].item
  IN /\ work[w].pc = "count"
     /\ IF work[w].failed THEN failedCount' = failedCount + n /\ UNCHANGED sentCount
        ELSE sentCount' = sentCount + n /\ UNCHANGED failedCount
     /\ drift' = (drift \/ Recounting)
     /\ work' = [work EXCEPT ![w].pc = IF left = {} THEN "next" ELSE "deliver",
                   ![w].todo = left, ![w].item = {},
                   ![w].failed = FALSE, ![w].caught = FALSE]
     /\ UNCHANGED <<status, row, queue, admin, runs, faults, messages, repeats, lost>>

\* A statement of the settlement fails: the catch settles the delivery as failed,
\* whether or not the message has left.
SettleFails(w) ==
  /\ work[w].pc \in {"row", "count"} /\ ~work[w].caught /\ faults < MaxFaults
  /\ faults' = faults + 1
  /\ repeats' = IF work[w].failed THEN repeats ELSE More(repeats, work[w].item, 1)
  /\ work' = [work EXCEPT ![w].pc = "row", ![w].failed = TRUE, ![w].caught = TRUE]
  /\ UNCHANGED <<status, row, counters, queue, admin, runs, messages, drift, lost>>

\* Mutant: the next page's id does not name the run.
NextPageOfAnyRun(w) ==
  /\ work[w].pc = "next"
  /\ Enqueue(1, work[w].next)
  /\ Step(w, "ack")
  /\ UNCHANGED <<status, row, counters, admin, runs, faults, record>>

NextPage(w) ==
  /\ work[w].pc = "next"
  /\ Enqueue(work[w].job.run, work[w].next)
  /\ Step(w, "ack")
  /\ UNCHANGED <<status, row, counters, admin, runs, faults, record>>

Finish(w) ==
  /\ work[w].pc = "finish"
  /\ status' = IF work[w].failed THEN "FAILED" ELSE "SENT"
  /\ Step(w, "ack")
  /\ UNCHANGED <<row, counters, queue, admin, runs, faults, record>>

Complete(w) ==
  /\ work[w].pc = "ack"
  /\ work' = [work EXCEPT ![w] = NoWork]
  /\ UNCHANGED <<status, row, counters, queue, admin, runs, faults, record>>

\* The worker dies or the job throws: the queue runs it again, from its start,
\* unless it has been run too often.
WorkerFails(w) ==
  LET again == [work[w].job EXCEPT !.tries = @ + 1]
      unsettled == IF work[w].pc = "row" /\ ~work[w].failed THEN work[w].item ELSE {}
  IN /\ work[w].pc # "idle" /\ faults < MaxFaults
     /\ faults' = faults + 1
     /\ IF again.tries < MaxTries
          THEN waiting' = waiting \cup {again} /\ UNCHANGED lost
          ELSE lost' = TRUE /\ UNCHANGED waiting
     /\ repeats' = More(repeats, unsettled, 1)
     /\ drift' = (drift \/ Uncounted(w))
     /\ work' = [work EXCEPT ![w] = NoWork]
     /\ UNCHANGED <<status, row, counters, known, admin, runs, messages>>

----------------------------------------------------------------------------
CallSteps(c) ==
  \/ Snapshot(c) \/ StartRun(c) \/ EnqueueRun(c) \/ ResetFailed(c) \/ Recount(c)
  \/ RestartRun(c) \/ WriteCancel(c)

WorkSteps(w) ==
  \/ ReadStatus(w) \/ MarkSending(w) \/ TakePage(w) \/ LastPage(w)
  \/ \E r \in Recipient : Skip(w, r)
  \/ \E S \in SUBSET Recipient, left \in 0 .. 2, sent \in BOOLEAN, caught \in BOOLEAN :
       Deliver(w, S, left, sent, caught)
  \/ SettleRow(w) \/ SettleCount(w) \/ NextPage(w) \/ Finish(w) \/ Complete(w)

CastNext ==
  \/ \E c \in Admin : \/ LoadSend(c) \/ LoadRetry(c) \/ LoadCancel(c) \/ CallSteps(c) \/ CallDies(c)
  \/ \E w \in Worker : \/ \E j \in waiting : TakeJob(w, j)
                       \/ WorkSteps(w) \/ SettleFails(w) \/ WorkerFails(w)

\* Calls and pages that began go on, and the queue hands out its jobs.  Nobody has
\* to press a button.
CastFairness ==
  /\ \A c \in Admin : WF_castVars(CallSteps(c))
  /\ \A w \in Worker : WF_castVars(WorkSteps(w))
  /\ WF_castVars(\E w \in Worker, j \in waiting : TakeJob(w, j))

CastSpec == CastInit /\ [][CastNext]_castVars /\ CastFairness
----------------------------------------------------------------------------
(* Properties. *)

\* Rows, counters, jobs and calls hold the values of the schema and the queue.
CastTypeOK ==
  /\ status \in CastStatus
  /\ row \in [Recipient -> {"NONE", "PENDING", "SENT", "FAILED"}]
  /\ sentCount \in Nat /\ failedCount \in Nat
  /\ waiting \in SUBSET Job
  /\ known \in SUBSET ((0 .. MaxRuns) \X Nat)
  /\ work \in [Worker -> Work]
  /\ admin \in [Admin -> AdminCall]
  /\ runs \in 0 .. MaxRuns /\ faults \in 0 .. MaxFaults
  /\ messages \in [Recipient -> Nat] /\ repeats \in [Recipient -> Nat]
  /\ drift \in BOOLEAN /\ lost \in BOOLEAN

\* However often a broadcast is sent, cancelled and retried, a recipient gets one
\* message, and one more at most for each that left without its row saying so: the
\* provider's answer was lost, the row could not be settled, or two workers had it
\* at once.  retryFailed leaves alone whoever is known to have received it.
DeliveredOnce ==
  \A r \in Recipient : messages[r] <= 1 + repeats[r]

\* Between two settlements the broadcast's counters are the numbers of its rows,
\* retried or not (retryFailed recounts "so a retry can be run twice without the
\* totals drifting"), unless a settlement was cut short or crossed a retry.
CountersAgree ==
  ~drift /\ ~Recounting /\ (\A w \in Worker : ~Uncounted(w)) =>
    /\ sentCount = Cardinality(Rows("SENT"))
    /\ failedCount = Cardinality(Rows("FAILED"))

\* A broadcast does not stay SENDING, when it could be neither retried nor sent
\* again, unless the queue gave up on a page or a call died before queuing one.
SendingEnds == status = "SENDING" ~> (status # "SENDING" \/ lost)
==========================================================================
