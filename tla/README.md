# Formal verification of rabotka-backend

Rabotka is a job platform: workers and employers meet over WhatsApp and a web
application, money is collected and paid out by mobile money. The backend is one
NestJS application on PostgreSQL (through Prisma), Redis and BullMQ. Several
instances of it may run, each serving HTTP calls, gateway webhooks, queue workers
and timers, all of them against the same rows. What can go wrong is therefore
seldom in one handler: it is in what happens between two awaits of it.

This directory holds TLA+ models of the parts where money and engagements depend on
those interleavings, TLC configurations that check them on small instances, and
proofs, checked by TLAPS, of the invariants that matter most for every instance.

- [Inventory](#inventory)
- [How code becomes a model](#how-code-becomes-a-model)
- [Modules](#modules)
- [Runs](#runs)
- [Findings](#findings)
- [Further disagreements](#further-disagreements)
- [Proofs](#proofs)
- [What is not modelled](#what-is-not-modelled)
- [Plan](#plan)

## Inventory

Paths are relative to `src/src/`. `PROJECT.json` lists every component, the
small ones too, with its status.

| component | state it keeps | operations | interacts with | what makes it correct |
|---|---|---|---|---|
| payment-request | `payment_requests`, `payments`, wallet transactions | initiate, webhook, poll, settle, hand back | pawaPay / MTN gateway, poll queue, wallet, unlocks, penalties, plans | one booking per request, on the gateway's evidence; nothing stays PROCESSING |
| wallet: payouts | `mobile_money_payouts`, MOBILE_MONEY wallet | send, callback, refresh, reconcile, manual withdrawal | gateway account | one transfer and one debit per dialog |
| wallet: balances | wallets and their transactions | debit, credit, settle penalties | penalties, unlocks | no balance below zero |
| penalty | `penalties`, `billing_status`, suspension | create, pay (wallet, link, manual), archive, restore | application cancellations, payment requests | nothing cleared for free or charged twice; status follows debt |
| contact-unlock | `contact_unlock_attempts`, job-level payment | initiate, pay, cascade, expire, abort, refund | application, wallet, plans, payment requests | contacts only when both paid; money back otherwise |
| subscriptions | plans, the periods of a business, their units, the priority of its offers | trial, activate, upgrade, start early, cancel, delete a plan, sweep, consume, release | contact-unlock, payment requests, job-offer | paid periods stay one unbroken run; units are neither lost nor spent twice |
| application | `applications`, `assignments` | apply, accept, reject, cancel, complete, rate | job-offer, contact-unlock, penalty | a place is not given twice, an engagement is not lost |
| job-offer | `job_offers` | publish, edit, close, delete, republish, archive | application, reminders, index | a completed offer leaves nobody waiting; the status tells whether anybody is hired |
| bot and reminders | conversation state, timers | deadlines, auto-start, closing after grace | job-offer, application, WhatsApp | each transition from the state it was meant for |
| whatsapp, idempotency | messages, markers and locks in Redis | inbound, outbound, template selection | bot, queue, providers | a message is handled, and once |
| broadcast | `broadcasts`, `broadcast_recipients`, counters, pages in the queue | send, retry, cancel, deliver a page | queue, WhatsApp, mail, notifications | nobody is messaged twice, counters agree with rows, a run ends |
| field-agent | commissions, withdrawals, ledger, leads | sweep, release, cancel, request, pay, reject | contact-unlock, assignments | the ledger agrees with the rows; no overdraft |
| referral | rewards | record, pay | payment requests, wallet | a reward is paid once |
| oauth, auth | codes, tokens, sessions | authorise, exchange, refresh, revoke | profiles | access control: outside this project |
| the rest | records, statistics, rankings, files, messages | CRUD, ranking, generation, sending | | no protocol between concurrent actors |

The behaviours that are hard here, and that the models contain:

- **Interleaved handlers.** Every `await` lets the others run. Checks made before a
  transaction are stale inside it; some code re-checks with a conditional
  `updateMany`, some writes unconditionally, and the difference is what the
  properties are about.
- **Duplicated and reordered deliveries.** Webhooks repeat and race the poller; a
  button is clicked twice; a payment link is approved long after it was priced.
- **Crashes and failures between two steps.** A process dies after the gateway
  accepted and before the reference is stored, after a debit and before the row is
  settled; an update fails inside a `try` whose `catch` assumes it was the gateway.
- **Time.** Unlock attempts expire while a party pays, polls run out while the
  payer still confirms, commissions wait for a window, an offer passes its date while a
  candidate is accepted, a lock expires under a slow attempt, a plan period ends while
  nobody looks.
- **Jobs that are run again.** BullMQ re-runs what threw and what stalled; what protects
  the second run is a marker, a lock, an id the queue has seen, or nothing.

`PROJECT.json` lists these hazards at the line where they bite, with the properties
that would catch them and a note where none does.

## How code becomes a model

- **An action is what runs between two awaits that matter.** A handler that reads,
  awaits and writes is several actions, with what it read kept in a record per call
  (`call[c]`, `handler[h]`, `caller[c]`); a conditional `updateMany` is one atomic
  action with its `where` as guard; a transaction whose outcome depends on what it
  counted is split at its commit in `PenaltyBilling`, since the database runs at its
  default isolation, read committed. Locks (`FOR UPDATE`) are modelled where the code
  takes them.
- **Data is reduced to what the properties tell apart.** Amounts are one or two
  francs or counters of bookings, references are model values, reasons, texts, logs
  and notifications are left out.
- **The environment is an action too.** The gateway decides the fate of a deposit or
  transfer at any time, time passes by an action that makes a deadline due, other
  services complete missions or suspend agents.
- **Bounds** appear in guards and are named: `MaxCrashes`, `MaxFailures`,
  `MaxInterruptions`, `MaxDbErrors`, `MaxCalls`, `MaxWithdrawals`, `Operations`,
  `MaxOverlaps` (calls that begin while another is in progress), `ForcedStatuses`
  (what an administrator may force), `MaxAttempts`, `MaxStalls`, `MaxJobs`, `MaxRuns`,
  `MaxTries`, `MaxFaults`, `MaxPeriods`, `MaxTime`, `MaxDeaths`. The proofs hold for any
  value of them.
- Each module defines mutants of some of its operations (commented `Mutant:`): plausible
  slips in that code. They are not part of the specification. Substituting one for the
  operation it varies makes the property it is paired with in `PROJECT.json` fail, which
  shows the property sees that mistake.

## Modules

### PaymentContract and PaymentRequests

`PaymentContract` is what the subsystem promises about one request: settled at most
once, approved only if the gateway collected the amount, booked exactly once on
approval, delivered at most once after it.

`PaymentRequests` is the protocol that implements it. `caller` are concurrent
`initiatePayment` calls (`ClaimForInitiation` claims PENDING to PROCESSING, the gateway
call, recording the reference, enqueuing the poll), `handler` are webhook deliveries
and workers of the poll queue (`poll-payment-status.processor.ts`), which share the
settlement code, `jobs` is the queue, `deposit` the gateway. The last poll hands the
request back to the payer. `ImplementsContract` instantiates the contract with the
refinement mapping `Collected`, `OutcomeOf`, approvals and effects.

### MobileMoneyPayout

The admin's payout dialog (`mobile-money-payout.service.ts`). A row stands for one
dialog (`client_request_id` is unique). `Sender`s are submissions: ledger check,
funds check, create, gateway call, store the reference, or mark FAILED. `Settler`s
are callbacks, manual refreshes and reconciliations, which all end in the same
conditional settlement and debit.

### PenaltyBilling

One worker's penalties. `Caller`s run any of: pay one or all from the wallet, pay a
priced link by mobile money, confirm or report a payment, create, archive, restore,
late cancellation with its automatic penalty and suspension. `row`, `archived`,
`billing`, `account` are the columns; `charged` and `claims` are history counters of
money taken and of bookings. `BillingFor` is the status each service derives.

Two settlements may clear more than they were priced for, and `waived` is the history of
what they do. The penalty page outside the platform carries the amount owed when its link
was made (`PayOutside`), and the webhook that reports its payment knows the profile alone and
marks whatever is owed by then (`ReportPaid`). A request without `penalty_ids`, as requests
were made before they carried them, skips the check before its charge (`PriceWithoutIds`) and
settles every unpaid penalty dated before it: what was archived or uncommitted when it was
made (`Dated`) is kept in `beyond`. That the outside page takes the amount of its link, and
that the webhook is called after it did, is taken as given.

### ContactUnlock

All unlock attempts of one offer. A payment (`PayUnlock` to `MarkAccepted` and
`RejectLeftovers`) loads the attempt, debits, records, commits its side; the
employer's payment on an offer for several people goes through the job-level flag and
a cascade over the other attempts. A settlement (`ScanExpired`, `Cancel`,
`AbortPendingUnlock`) decides the refunds on the row it loaded, pays them one by one
and writes the row unconditionally. `unit` and `unitsLeft` are the employer's plan.
`disturbed` is a history variable: the attempts whose settlement overlapped another
call on them, or that a failed call left half done. The code promises nothing about
those, and two properties exempt them.

### AgentLedger

What a field agent earns and withdraws. Sweeps (`LoadUndecided`, `CreateCommission`,
`LoadWaiting`, `StartWindow`, `LoadPending`, `Release`, `CancelCommission`) overlap; a
batch is one call per placement of it, which loses nothing, as each row has its own
conditional transaction. `Request` and `LockForCancel` decide on the balance under
`lock`, the `FOR UPDATE` on the agent's row; `Pay`, `Reject` and `CancelWithdrawal`
are conditional updates. `WriteLedger` adds the rows of a move under their keys and
skips those that exist; `balance` is the sum per bucket.

### Hiring

One job offer with its applications and assignments, from `application.service.ts`,
`job-offer.service.ts` and the reminder processor. `ongoing` tells the two kinds of offer
apart (a mission has a date and starts, an ongoing engagement is confirmed and closes when
filled); `offer`, `app` and `assigned` are the three status columns. An operation is one
`Load...` action (what the service reads before its transaction) and the writes that
follow; `call[c]` holds what it read. `Apply` and `Accept` decide under the lock of the
offer's row (`Accept` on a count made there and on the quantity loaded before), `Confirm`
and `Finish` close under it; a cancellation locks its application only. `ReadFinish` reads the
assignment of a finished mission without a lock, and `Finish` then leaves it alone if it was
`COMPLETED` and writes the application's end by id, waiting for a cancellation that holds the
application. Editing, closing,
deleting and forcing a status lock nothing and write what they decided on the rows they
loaded. `scan` is the timed scan, which
finds an offer in one step (`ScanFind`) and expires, starts, stops or closes it in another.
`maxQuantity`, `rolledBack`, `forced`, `crossed` and `annulled` are history (`crossed`: a scan
closed the offer between the count and the write of a cancellation that undoes an ended hire;
`annulled`: a hire was cancelled while a finish had taken its assignment for completed).

Left out, because no property tells it apart: `VIEWED` (treated like `PENDING`), `NO_SHOW`
(never written), archiving of a single application, offers without a date, a change of the
kind of offer after publication, reliability scores, the rules on applying again, the
wait between the queue and the load of a start reminder. The reminders' NX key only
says that no two scans run at once. A batch of a scan that fails is a scan not begun.

### WhatsAppInbound

An inbound message from the webhook's job to its answer. `job`, `owner`, `failures` and
`stalls` are BullMQ's record of the job; `done` is the marker, `lock` the in-flight key.
`Has`, `Claim`, `Handle`, `Mark`, `Release` are the awaits of the processor. `Throw` is any
of them failing without effect, the DEL in the `finally` included, which leaves the key set,
and `Unheard` a command of Redis that took effect while its answer was lost. `stranded` is
the history of keys that such a failure has left. `Die` is the death of the process, `Stall`
the queue giving the job to somebody else, who may find the first attempt still at work. The
marker's seven days are longer than any retry and do not pass.

### Broadcasts

One broadcast. `Snapshot`, `StartRun`, `EnqueueRun` are `send()`, `ResetFailed` to
`RestartRun` are `retryFailed()`, `LoadCancel` and `WriteCancel` are `cancel()`; a worker
reads the status, marks `SENDING`, takes a page, delivers, settles row and counter, and
queues the next page or finishes. `WorkerFails`, `SettleFails` and `CallDies` are its
faults. `Deliver` tells what the provider's call reports (sent, not sent, or thrown) from
what has left: a request that timed out may have been carried out, and a free-form message
reported as not sent is followed at once by its template, so that up to two messages leave
with one delivery. `Skip` settles the rows of profiles that have gone. A retry continues at
new cursors, because the queue silently drops an id it knows (`known`; for ever here, an
hour to a day in the queue's settings). Taken as given: the audience is one snapshot, and a
`READ` row counts as `SENT`.

### Subscriptions

The plan periods of one business. A call reads the rows (`Ask...`), writes a transaction
(`Write`) and then syncs the priority of the business's offers in two steps. The sweep finds
the lapsed periods at once (`SweepReads`, `todo`) and then goes through them: it skips one
that a call has ended meanwhile (`SweepSkips`), and expires and syncs the others
(`SweepExpire`) without asking again whether they have ended, so a row that a call put into
the future in between is expired early. `raced` notes that, a decision taken on rows that
another call then changed, and a call that moves a row the sweep has expired. `Created`,
`UpgradedEnd`, `Cancelled` and `StartedNow` are the rows written, computed from the rows
read. Months are units of time, money and the credit of an upgrade are integers, rounded as
the code rounds. Prices, checkout, reminders and quotas other than contact unlocks are left
out.

### MC modules

`MCPaymentRequests`, `MCMobileMoneyPayout`, `MCPenaltyBilling`, `MCContactUnlock`,
`MCAgentLedger` and `MCHiring` give one component the constants and symmetry of a run.
`MCBackground` (Hiring, WhatsAppInbound, Broadcasts) and `MCSequential` (PenaltyBilling,
Subscriptions) check several components that share no state under one set of constants: a
behaviour chooses one of them (`part`) and the others stay in their initial state, so the
state space is the sum of theirs. `MCSequential` EXTENDs its components and `MCBackground`
the two queues, so that TLC evaluates their assumptions, and the proofs are about the same
definitions.

## Runs

| run | question | instance |
|---|---|---|
| payment_safety | Is each request settled and booked once, on its own deposits' evidence? Does it refine the contract? Does it leave PROCESSING? | 1 request, 2 deposits, 2 initiations, 1 webhook, 1 poll worker, 2 polls per deposit, 1 crash |
| payment_orphan | "revert to PENDING so webhook can still resolve it": can it? (violated) | the same, no crash |
| payout_safety | One transfer and one debit per dialog; a failed one moved nothing | 2 dialogs of 1 and 2 francs, 2 submissions, 2 settlers, 1 crash, 1 database error, 1 manual withdrawal |
| payout_failed_but_sent | "Refused by the gateway: nothing was sent" (violated) | 1 settler, 1 database error |
| penalty_safety | Nothing cleared for free but what the webhook or a link without ids clears beyond its price; booked once | 2 penalties, 2 calls at a time, all operations, 1 interruption |
| penalty_sequential | Billing status follows the debt, the threshold suspends; plan periods stay one run, and priority follows them | one call at a time; 3 penalties, wallet, links, cancellations; 2 plans, 3 periods, 3 units of time, 1 death |
| penalty_pay_all_twice | A penalty is charged once (violated) | 1 penalty, 2 calls that pay all |
| unlock_safety | Contacts only when paid, money back otherwise, one charge each, plan units counted | 2 applications, offers for 1 and 2 people, no or 1 plan unit, 3 calls, 2 at a time, 1 failure |
| unlock_both_paid | "Quand les deux ont payé, les coordonnées sont envoyées aux deux" (violated) | 2 applications, 2 calls |
| agent_ledger | No overdraft, the ledger agrees with the rows, decisions stand, nothing is left undecided | 1 placement, 2 withdrawals of all or half of the fee, 2 sweeps, 2 other calls, 1 failure |
| hiring_safety | No place given twice, nobody left waiting by a completed offer, ended hires can be rated, the status tells who is hired | 2 applications, an offer for 1 or 2 people of either kind, 2 calls and the scan, 1 overlap, `COMPLETED` may be forced; 3 calls and 2 overlaps on a mission for 1 with 1 application whose date has passed |
| background | Is every message answered or failed, and handled once? Does an overdue offer stop recruiting? Does a broadcast end, reach nobody twice, and count right? | 1 message as 2 jobs with 2 attempts at a time, 2 tries, 1 stall; 1 application, 1 call, 1 overlap; 2 recipients on 2 pages, 1 worker, 2 runs, 1 fault |

Why these bounds are enough to be interesting: every race in the hazard list needs two
calls on one row, or one call and one settlement of it, and every retry needs a second
deposit, dialog or withdrawal; the instances have those. Two penalties tell "all" from
"one", two applications make a cascade and an offer for several people, amounts of one
and two francs make a balance that covers one of two payments. A single crash or failure
at every point reaches every half-done state, and a second one only repeats it on
another call. `penalty_sequential` runs one call at a time on purpose: the derived
billing status is a count that concurrent transactions can overwrite (a listed hazard),
so what the code keeps is its value when calls do not overlap; three penalties are
needed to pass both thresholds. The periods are one call at a time because two
that overlap are too many states for a run; that the same invariants hold of them, `raced`
exempting what a call decided on rows another one changed, is proved. Three periods are
a running one, a queued one, and one that is bought, credited or started against both.

In `hiring_safety` a place can only be given twice by two operations at once, so one overlap
suffices for every pair. A hire that ends with a cancelled assignment takes three, two
finishes and a cancellation of one mission, which `BoundedSpec` lets overlap there. An offer
for one or for two people distinguishes filled from partly filled. In `background` a message
becomes a job a second time only after its first is forgotten, which two jobs show; one
stall already gives two attempts at one message, and the second of two tries finds whatever
a first one left; two pages are the least in which a run has a page behind it, and a retry
is a second run. A fault is a death, a failed statement or a lost answer. One never uses up
the tries of a page, so `lost` is only reached by the death of a call.

`payment_safety` states the finality of a request and the order of its effects through
`ImplementsContract`, not again as invariants.

`CHECK_DEADLOCK FALSE` is set where the instance may simply end: all requests settled,
all calls used up, all withdrawals decided.

Symmetry is used only in `penalty_safety`, `unlock_safety` and `hiring_safety`, which check
invariants and where calls, and in the last two applications, are interchangeable.

### Fairness

`PaymentRequests!FairSpec` assumes that a call or worker that started runs on (weak
fairness of its steps: Node runs its event loop) and that BullMQ hands queued polls to
its workers. It does not assume that the gateway decides, that webhooks arrive, or that
payers retry. Crashes lose work that nothing resumes (see the hazards), so
`ProcessingEnds` is stated for executions without one, and leaves out mismatched
amounts, which the code leaves to a human.

`AgentLedger!FairSpec` assumes that a loaded item is worked on, that the repeatable
10-minute job keeps loading each row that is due, and that dates pass. It assumes
nothing about administrators or agents. Here a crash is harmless for liveness, because
the next sweep finds the row again: the properties hold with failures. They take the
batch limit of 200 rows never to be filled by rows that fail for ever.

`Hiring!Fairness` assumes that a transaction that holds the lock of a row ends, that the
scan is run again and again (it is a repeatable job), and, strongly, that a scan that
repeatedly gets as far as its write makes it: a row it found may change under it, but
not for ever. No candidate, employer or administrator has to do anything.

`InboundFairness` assumes that an attempt at work goes on, that the queue's workers take
queued jobs, and that the queue notices a job nobody works at. `CastFairness` assumes the
same of pages and of calls that began. Neither assumes that somebody presses a button, or
that nothing fails: what `AnsweredOrFailed` and `SendingEnds` leave out is named in them.

## Findings

Each is a disagreement between what the repository says and what the code does, with
the trace of a run.

1. **payment_orphan**: after the last poll the request goes back to PENDING "so webhook
   can still resolve it". PENDING also lets the payer start again, which overwrites the
   only reference to the first deposit. If that one is collected later, no webhook or
   poll can attach the money to the request.
2. **payout_failed_but_sent**: the `catch` that says "Refused by the gateway: nothing was
   sent" also catches the failure of the update that stores the gateway's reference; the
   payout is marked FAILED while its money leaves.
3. **penalty_pay_all_twice**: two pay-all requests read the same list, and both debit the
   wallet for it.
4. **unlock_both_paid**: both parties pay at once; each computes the new status from a row
   on which the other has not paid, and the attempt stays pending although both paid.

## Further disagreements

Each of these is in the model (a property names it as an exception, or none is stated
because the code does not keep it), without a run of its own.

*PenaltyBilling.*
- Where settlement "used to clear *every* unpaid penalty", it now clears what the amount was
  computed for (comment at `payment-request.service.ts:1389`). The webhook still clears every
  one (`payment.service.ts:268`): it is told the profile only, so a penalty issued after the
  payment and before its report is paid with the others. So is, by a link without
  `penalty_ids`, one dated before the link that was not owed when it was priced (`:1405`).

*Hiring.*
- An accept that lands between `deleteByEmployer`'s check and its write leaves a hired worker
  on a deleted offer: the transaction locks nothing (comment at
  `job-offer.service.ts:2005`).
- A cancellation reads and writes the offer's status without its lock, so an offer closed or
  filled in between is reopened (`application.service.ts:1762`); two cancellations at once
  each count the other's place, and the offer says `PARTIALLY_FILLED` with nobody hired.
- `accept` does not count workers who have `STARTED`; `closeByEmployer` on a stale status makes
  an offer with hires `EXPIRED`; `reject` and the rejection of leftovers select by id alone
  and overwrite an application accepted meanwhile, whose assignment stays `CONFIRMED`, as it
  does when the scan expires an offer it found empty.
- The start reminder and `markCompleted` put back or write statuses they loaded earlier
  (`rolledBack`). The reward of a finished mission is repeated when `END` is retried
  (`application.service.ts:2300`).
- Two finishes of one mission and an employer's cancellation, all loaded while the hire was
  accepted: the second finish reads the assignment the first one completed, and skips it; the
  cancellation commits; the second finish writes the application's end over it. The hire has
  ended with a cancelled assignment (`application.service.ts:2264`; `annulled`).
- Two kinds of overdue offers are taken by no scan: an ongoing one all of whose hires have
  ended, and an `ACTIVE` mission with a hire (`Stranded`).

*WhatsAppInbound.*
- A worker dies while it handles a message; the attempt that follows within two minutes finds
  the lock, returns, and its job is completed: the message is lost, where the comments
  (`whatsapp-inbound.processor.ts:98`, `idempotency.service.ts:16`) say the next attempt picks
  it up.
- The key is "released in a `finally`" and its lifetime "only matters when the process never
  got to run one" (`idempotency.service.ts:24`). When Redis fails that DEL
  (`whatsapp-inbound.processor.ts:113`) or loses the answer of the SET, the attempt throws with
  the key set, its retry two seconds later finds it, and the job is completed unanswered
  (`stranded`).
- The marker is not asked for again after the lock is claimed, and the lock has no owner: a
  stalled job may be handled twice.

*Broadcasts.*
- `cancel()` removes a job id that no job has; a page that is running writes `SENDING`, and
  its `finish()` `SENT`, over a cancellation.
- A retry after a cancellation also sends the rows still `PENDING`, where the comment says
  the recipients that failed and only them, and lets a page of the old run go on.
- A WhatsApp request that times out after it was accepted (`cloud.client.ts:69`) counts as not
  sent: the dispatcher sends the template as well
  (`notification-dispatcher.service.ts:222`), or the row becomes `FAILED` and a retry sends it
  again (`repeats`).
- A delivery whose row could not be settled is marked `FAILED` and sent again by a retry
  (`repeats`). `sent_count` is not recounted. A second `send()` overwrites the number of
  recipients with zero. A call that dies between `SENDING` and the first job leaves the
  broadcast in `SENDING`, which neither send nor retry accepts (`lost`).

*Subscriptions.*
- `deletePlan` takes a period that has ended but was not swept for the first one, and then
  cancels the running period of another plan with it.
- Two overlapping purchases are both placed after the same end, and one is lost to the other
  ("paying early never loses days"). A second upgrade values the credited period at one
  period's price, and the earlier credit is lost.
- The sweep lists the lapsed periods and expires them one by one, checking only that nobody has
  notified them (`business-subscription.service.ts:1194`): a period that a call, which read it
  before it ended, meanwhile moves into the future is expired although it lasts; and such a
  call may also write after the sweep, and give new dates to a period that stays expired.
- A death between a commit and its sync, or two syncs at once, leave the priority of the
  offers stale until the next change (`missed`).

*Hazards no property covers.* Beyond those in `PROJECT.json`: the retry of a poll claims its
row before it knows its reference (`poll-payment-status.processor.ts:182`); a penalty is paid
between an administrator's check and the archiving write (`penalty.service.ts:170`) or under
a count (`:105`); a penalty paid from the wallet while its link waits on the phone, and a
claim whose process dies (`payment-request.service.ts:1415`, `:370`); unlocks read while a
payment or a scan is between its reads and its write (`contact-unlock.service.ts:686`,
`:927`, `:1395`); the ledger balance of payouts, read without a reservation
(`mobile-money-payout.service.ts:127`), and a crash before the reference is stored (`:179`);
an account that only the legacy webhook restores (`payment.service.ts:274`). The models
contain those steps; the code promises nothing about their outcome.

## Proofs

The proofs hold for every value of the constants: any number of requests, deposits,
calls, workers, penalties, applications, placements, plans, crashes. The only assumptions
are the named `ASSUME`s of the modules (null values differ from real ones, amounts are
natural numbers, sets that are counted are finite, a plan has a length and a price), which
TLC evaluates on every run. Three theorems have hypotheses of their own, named below.

Every type invariant and every safety property of the passing runs, action properties and
the refinement included, is stated by a theorem.

| module | theorems | argument |
|---|---|---|
| PaymentRequestsProofs | `TypeCorrect`, `BookedExactlyOnce`, `OutcomesHaveEvidence`, `EffectsAtMostOnce`, `SettledForever`, `Refinement` | `IndInv` adds two facts: a reference belongs to the request it was created for, wherever it is stored or carried (`ReferencesAreOwned`), and whoever is about to settle carries a final status its deposit still has (`WorkCarriesEvidence`). Without the first, a webhook could settle another request; without the second, a stale read could. The refinement maps each action to a step of the contract or to a stutter. |
| MobileMoneyPayoutProofs | `TypeCorrect`, `SendsAtMostOnce`, `DebitsOnce`, `FailedMovedNothing` | One submission owns a row and has not called the gateway before (`RowHasOneSender`); nothing exists before the row (`NothingBeforeTheRow`); a settler's evidence stays true. While no database error struck, whoever is about to mark a row FAILED was refused by the gateway (`FailuresAreClean`). |
| PenaltyBillingProofs | `SettledWasCharged`, `NoPenaltyClearedForFree`, `PricedChannelsChargeAll`, `PenaltiesClaimedOnce`, `PenaltyTypes`, `BillingTellsDebt`, `ThresholdHasSuspended` | Settlers have charged what they settle, but for what a link without ids may clear besides (`SettlersHavePaid`), and only such links and the webhook waive anything (`OnlyUnboundedWaive`): without their operations, `PricedChannelsChargeAll`'s hypothesis, every paid penalty was charged. Open transactions lock disjoint penalties, and only unpaid ones can still be claimed. Types: a balance is a natural number because the one transaction that pays from the wallet holds its lock from its check to its commit (`Funds`). Status: see *One after another*. |
| ContactUnlockProofs | `ContactsReleasedWhenPaid`, `PlanUnitsAreCounted`, `SidesChargedOnce`, `SettlementsGiveBack`, `UnlocksAreFunded`, `TypesAreKept` | What a call read stays true of the rows it will write, because attempts are not deleted and payments not taken back (`Carried`); an application not accepted has no attempt (`Unaccepted`). Units: the guarded release changes count and attempt together. Charges: what a side paid net of refunds is at most one if it is marked as paid, plus the calls that have debited and not yet marked or refunded it, plus the failures (`NetBounded`); at rest there are no such calls. Refunds: `Funds`, below. |
| AgentLedgerProofs | `AgentTypes`, `AgentNeverOverdraws`, `SettledStaysSettled`, `AgentLedgerAgrees` | The lock's holder is exactly the call that decided on the balance, so what it decided is still covered when it writes (`Carried`, `Covered`); at most one request is open and the locked bucket is its amount (`OneOpen`, `LockedIsAsked`); a key is never written before its step (`KeysFollow`, `CommissionKeys`), so skipping duplicates never skips a real move. A step moves one row from one status to another, and the balances by what that row is worth; the sums over the other rows stay as they were. |
| HiringProofs | `HiringTypes`, `PlacesNeverGivenTwice`, `NobodyLeftWaiting`, `EndedHiresCanBeRated`, `StatusTellsWhoIsHired` | `TypeInv`: types, what each kind of call holds (`CallsHold`), and no quantity above the largest. Places: a step gives out at most one place, and only on a count made in that step that is below a quantity the offer had; every other step leaves the set of places a subset of what it was. Ratings: the kind of offer decides which steps a call can be in, and whoever is hired on an ongoing offer has a live assignment, and a finish that leaves the assignment alone still finds it completed unless the hire was cancelled since (`FinishHolds`, all of them in `RatedInv`). Status: `Sequential`, below. |
| SubscriptionsProofs | `SubscriptionTypes`, `PeriodsAreOneRun`, `OffersFollowPriority` | See *One run of periods*. |
| BackgroundProofs | `InboundTypes`, `MessagesHandledOnce`, `BroadcastTypes`, `NobodyMessagedTwice`, `CountersFollowRows`, `BackgroundTypes` | Budgets. The times a message was handled, plus the attempts that may still come to handle it, are at most the mishaps, plus one if its marker is set or the job's own attempt is on its way (`InboundWithinBudget`); `JobFacts` says when an attempt owns its job. Messages of a broadcast, plus the workers that may still send to a recipient or spoil its row, are at most the repeats (messages that left and whose row does not say so, among them those of lost answers), plus one if the row is settled or in a worker's hands (`WithinBudget`); `PageFacts` says what a page's worker holds. Counters: `Tally`, below. |

Each step lemma has one case per action of `Next`. TLC checked the invariants first, and
the larger arguments are these.

*Refunds of ContactUnlock.* `SettledGivesBack` and `UnlockedIsFunded` are about attempts no
settlement was disturbed on; in the middle of a call neither is inductive. `Funds` adds: a
plan's unit marks its attempt as paid (`PlanMarks`, `CallMarks`); a settlement that nothing
overlapped is alone with an attempt that is still pending (`Alone`), and nobody touches one
that has ended (`Finished`); and the account of each side is even, what it paid being what
is kept for it and what is in limbo between a debit and its mark (`Balanced`). Without
`Alone`, a settlement could refund on a row somebody has paid since it read it.

*Counters of Broadcasts.* The counters lag behind the rows while a worker has a delivery in
hand. `Tally` says that while nothing was cut short or crossed a retry no two workers have a
row at once, rows not come to are pending, and the counters are the numbers of the rows that
are in nobody's hands, but for a retry that is about to write the failed count afresh.

*One after another.* Some properties hold only while calls do not overlap, because the code
locks nothing between a read and a write; the model says so in the property where it has a
history of overlaps (`raced`, `overlaps`, `disturbed`) and the theorem in a hypothesis where
it has not. `StatusTellsHires` needs that the call in progress still knows what it loaded
(`CallTells`) and that a scan still knows what it found (`ScanTells`). The proof found a
race the run with two applications is too small for: an ended hire is cancelled, which
counts the other hires, the scan closes the offer and ends or rejects the rest, and the
cancellation then reopens it on its old count (`application.service.ts:1762`); `crossed`
exempts it. `BillingTellsDebt` assumes `[]InTurn` (one call at a time, run to its end) and
`RecomputeOnly`: the administration's writes derive the status without the blocking
threshold and only ever write `PENDING_PAYMENT`, so with them the same debt may read either
way (a listed hazard). `ThresholdHasSuspended` assumes `[]InTurn` and `NoneCreated`:
creating or restoring a penalty by hand adds to the debt and does not suspend anybody.
`penalty_sequential` is an instance of both.

*One run of periods.* `Sane` of rows at a time: no gap and no overlap among the rows that
last (`Unbroken`), every such row has a length and was not seen by the sweep (`Sound`), and
a trial that runs is alone (`TrialAlone`: otherwise a purchase placed after it would leave a
gap when it is cut short). One lemma per writing operation (`CreatedIs`, `StartedNowIs`,
`CancelledIs`, ...) shows that rows sane when they were read are sane when they are written,
an upgrade that shifts the queue included. `InOrder` carries that to the time of the write:
what a call knows is still true but for rows that ended and that the sweep has expired
(`SeenTells`, `Since`), and a call that revives none of those leaves the rows sane
(`AppliedSane`). The sweep's list may be stale by then: a row it expires must still have
ended, or `raced` notes it. For the priority, `Shown` says that what a sync has read is
still the end of the priority; as time passes that stays so because a period begins only
where another ends, and the sweep hears of that one (`PriorityLasts`).

*Sums and greatest values.* The library defines a sum over a set by recursion over its subsets,
and its induction theorems take an operator as a parameter, which cannot be instantiated here. What
stands in for them is the smallest counterexample: the strict subsets of a finite set are
well founded, so among the subsets that violate a statement one is smallest (`Smallest`), and
its own subsets do not violate it. With it a sum of natural numbers is shown to be the number of the
francs that make it up, counted one by one (`Francs`), so that facts about sums are facts
about cardinalities, and a finite set of dates to have a latest one (`Latest`).

Only model-checked: liveness (`ProcessingEnds`, `PlacementsComeToAnEnd`, `AnsweredOrFailed`,
`OverdueStopsRecruiting`, `SendingEnds`), as the prover has no proof of fairness properties; and the
findings, which are counterexamples.

## What is not modelled

The models cover the parts of the backend where several actors change the same rows. Most of
its lines do something else (controllers, listings, templates, conversation texts, ranking,
records of one owner), so the share of all lines that is mapped is small.

- **Referral**: a reward is claimed by one conditional update and credited in its
  transaction; what qualifies for it is decided from records. **Profile, auth and oauth**:
  records of one owner and access control.
- Of modelled parts: listings, archiving and deletion by administrators where nothing
  concurrent depends on them, contact records, receipts, notifications, the uniqueness
  of a withdrawal's reference, agents' leads and invitations. `PROJECT.json` says what
  for each component.
- Ranking, search, language-model features: their results are numeric or textual and
  promise nothing a state can violate.
- Sending of mail, messages and pushes: best effort by design. Of broadcasts, the drafts,
  filters, estimates, opt-outs and templates.
- Records of one owner, reference data, statistics, generated documents: no interaction.
- Access control: outside the properties chosen.

## Plan

Done, in this order because money is at stake in the first of them: PaymentContract and
PaymentRequests, MobileMoneyPayout, PenaltyBilling, ContactUnlock, AgentLedger, Hiring,
WhatsAppInbound, Broadcasts, Subscriptions.

1. **Composition** of PaymentRequests' effects with ContactUnlock and PenaltyBilling:
   the post-payment effect as the entry of the gateway payment, with its crash between
   approval and effect.
2. **Referral** rewards after an approved payment; the payment identity of a purchase in
   Subscriptions, which is there once `createPeriod` is composed with PaymentRequests.
3. **Outbound WhatsApp**: the idempotency window of the outbound guard, and its retries.
4. **Proofs** to add: an abstract specification of Hiring as a set of places, of a wallet
   that the purchases of PenaltyBilling and ContactUnlock share, and that the components
   implement them.
