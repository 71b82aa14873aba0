--------------------------- MODULE Subscriptions ---------------------------
(***************************************************************************)
(* The plan periods of one business: a trial, purchases and grants placed   *)
(* after what runs or in its place, the next one started early, periods     *)
(* cancelled and plans deleted, and the hourly sweep that expires, row by    *)
(* row, what it found ended.  Every change is followed by a sync that shows the business's      *)
(* offers first until the end of its priority periods.  No row is locked:    *)
(* a transaction decides on the rows it read.                               *)
(***************************************************************************)
EXTENDS Integers, Sequences, FiniteSetsExt

CONSTANTS
  Plan,           \* business plans
  TrialPlan,      \* the plan of the trial, which cannot be deleted
  Priority,       \* plans whose offers are shown first
  Length,         \* time units a period of each billing lasts
  Price,          \* what a period of a plan costs, by billing
  SubCall,        \* concurrent calls
  MaxPeriods,     \* bound: periods ever created
  MaxTime,        \* bound: the clock
  MaxOverlaps,    \* bound: calls that begin while another has rows to write
  MaxDeaths       \* bound: processes that die

ASSUME SubscriptionAssumption ==
  /\ TrialPlan \in Plan
  /\ {"TRIAL", "MONTHLY"} \subseteq DOMAIN Length
  /\ Length \in [DOMAIN Length -> Nat \ {0}]
  /\ Price \in [Plan -> [DOMAIN Length -> Nat]]

VARIABLES
  now,            \* the clock
  periods,        \* business_subscriptions, in the order of their creation
  withdrawn,      \* deleted plans
  until,          \* priority_until of the business's offers, 0 for none
  subCall,        \* what each call is doing
  sweeper,        \* the rows the sweep has still to expire, and the sync it does
  overlaps, deaths,
  raced,          \* a row changed under a decision made on it (history)
  missed          \* a sync was cut short or overtaken (history)

shown == <<until, missed>>
bounds == <<overlaps, deaths>>
subVars == <<now, periods, withdrawn, subCall, sweeper, bounds, raced, shown>>

BillingPeriod == DOMAIN Length
Period ==
  [plan : Plan, billing : BillingPeriod, status : {"TRIAL", "ACTIVE", "EXPIRED", "CANCELLED"},
   starts : Int, ends : Int, notified : BOOLEAN]

Row(plan, billing, starts, ends) ==
  [plan |-> plan, billing |-> billing, starts |-> starts, ends |-> ends, notified |-> FALSE,
   status |-> IF billing = "TRIAL" THEN "TRIAL" ELSE "ACTIVE"]

\* A call holds what it was asked, when, the rows it read and the end it found.
SubCallState ==
  [pc : {"idle", "write", "sync", "show"},
   op : {"none", "trial", "create", "replace", "next", "cancel"},
   plan : Plan, billing : BillingPeriod, id : Nat, at : Nat, seen : Seq(Period), until : Nat]

Free == [pc |-> "idle", op |-> "none", plan |-> TrialPlan, billing |-> "TRIAL", id |-> 0,
         at |-> 0, seen |-> <<>>, until |-> 0]

SubInit ==
  /\ now = 0 /\ periods = <<>> /\ withdrawn = {} /\ until = 0
  /\ subCall = [c \in SubCall |-> Free]
  /\ sweeper = [pc |-> "idle", todo |-> {}, until |-> 0]
  /\ overlaps = 0 /\ deaths = 0 /\ raced = FALSE /\ missed = FALSE

----------------------------------------------------------------------------
(* What a call writes, from the rows it read and the time it was made. *)

IsRunning(p) == p.status \in {"TRIAL", "ACTIVE"}
Covers(p, t) == p.starts <= t /\ p.ends > t

Ended(p, status, t) == [p EXCEPT !.status = status, !.ends = t, !.notified = TRUE]
Shifted(p, by) == [p EXCEPT !.starts = @ + by, !.ends = @ + by]

\* A paid plan takes the place of a trial.
TrialEnded(s, t) ==
  [i \in DOMAIN s |->
     IF s[i].status = "TRIAL" /\ s[i].ends > t
       THEN Ended(s[i], "CANCELLED", IF s[i].starts < t THEN t ELSE s[i].ends)
       ELSE s[i]]

\* What is left of the old period, at what it cost, as time on the new plan.
UpgradedEnd(t, old, plan, billing) ==
  LET end == t + Length[billing]
      span == old.ends - old.starts
      num == Price[old.plan][old.billing] * (old.ends - t) * Length[billing]
      den == span * Price[plan][billing]
  IN IF num <= 0 \/ den <= 0 THEN end ELSE end + (2 * num + den) \div (2 * den)

IsUpgrade(old, plan) == Price[plan]["MONTHLY"] > Price[old]["MONTHLY"]

\* The new period in the place of period r: what was queued after r follows it.
InPlaceOf(s, r, t, plan, billing) ==
  LET upgrade == IsUpgrade(s[r].plan, plan)
      ends == IF upgrade THEN UpgradedEnd(t, s[r], plan, billing) ELSE t + Length[billing]
      moved == [i \in DOMAIN s |->
                  IF i = r THEN Ended(s[i], IF upgrade THEN "EXPIRED" ELSE "CANCELLED", t)
                  ELSE IF s[i].status = "ACTIVE" /\ s[i].starts >= s[r].ends
                    THEN Shifted(s[i], ends - s[r].ends)
                  ELSE s[i]]
  IN Append(moved, Row(plan, billing, t, ends))

\* After whatever runs or is queued.
AtTheEnd(s, t, plan, billing) ==
  LET starts == Max({t} \cup {s[i].ends : i \in {j \in DOMAIN s : s[j].status = "ACTIVE"}})
  IN Append(s, Row(plan, billing, starts, starts + Length[billing]))

\* createPeriod.
Created(rows, t, plan, billing, replace) ==
  LET s == TrialEnded(rows, t)
      R == {i \in DOMAIN s : s[i].status = "ACTIVE" /\ Covers(s[i], t)}
      r == CHOOSE i \in R : \A j \in R : s[j].starts <= s[i].starts
  IN IF R # {} /\ (replace \/ IsUpgrade(s[r].plan, plan))
       THEN InPlaceOf(s, r, t, plan, billing)
       ELSE AtTheEnd(s, t, plan, billing)

\* startQueuedNow: what runs ends, the next one starts, the others move with it.
Queued(s, t) == {i \in DOMAIN s : s[i].status = "ACTIVE" /\ s[i].starts > t}
IsNext(s, t, id) == id \in Queued(s, t) /\ \A i \in Queued(s, t) : s[id].starts <= s[i].starts
StartedNow(s, t, id) ==
  LET ends == t + Length[s[id].billing]
  IN [i \in DOMAIN s |->
        IF i = id THEN [s[i] EXCEPT !.starts = t, !.ends = ends]
        ELSE IF i \in Queued(s, t) THEN Shifted(s[i], ends - s[id].ends)
        ELSE IF IsRunning(s[i]) /\ Covers(s[i], t) THEN Ended(s[i], "EXPIRED", t)
        ELSE s[i]]

\* Mutant: the periods queued after the cancelled one stay.
CancelledAlone(s, t, id, starts) ==
  [s EXCEPT ![id] = Ended(s[id], "CANCELLED", IF starts < t THEN t ELSE s[id].ends)]

\* endWithQueue: a period that has started ends now, and what starts after it goes.
Cancelled(s, t, id, starts) ==
  [i \in DOMAIN s |->
     IF i = id THEN Ended(s[i], "CANCELLED", IF starts < t THEN t ELSE s[i].ends)
     ELSE IF IsRunning(s[i]) /\ s[i].starts > starts THEN Ended(s[i], "CANCELLED", s[i].ends)
     ELSE s[i]]

\* priorityEnd: how long the periods with priority, from the one that runs, go on.
PriorityEnd(s, t) ==
  LET live == {i \in DOMAIN s : IsRunning(s[i]) /\ s[i].ends > t}
      before(j) ==
        {i \in live : s[i].starts < s[j].starts \/ (s[i].starts = s[j].starts /\ i < j)}
      follows(j) ==
        /\ s[j].plan \in Priority
        /\ s[j].starts <= t \/ \E i \in before(j) : s[j].starts <= s[i].ends
      reached == {j \in live : \A i \in before(j) \cup {j} : follows(i)}
  IN IF reached = {} THEN 0 ELSE Max({s[j].ends : j \in reached})

----------------------------------------------------------------------------
(* The calls. *)

\* Calls that have decided and not written.
Deciding == {c \in SubCall : subCall[c].pc = "write"}

\* A call is made, and reads the rows it decides on.
Ask(c, op, plan, billing, id) ==
  /\ subCall[c].pc = "idle"
  /\ subCall' = [subCall EXCEPT ![c] =
       [Free EXCEPT !.pc = "write", !.op = op, !.plan = plan, !.billing = billing,
                    !.id = id, !.at = now, !.seen = periods]]
  /\ overlaps' = overlaps + (IF Deciding = {} THEN 0 ELSE 1)
  /\ overlaps' <= MaxOverlaps
  /\ UNCHANGED <<now, periods, shown, sweeper, deaths, raced>>

\* Verification starts the trial, once.
AskTrial(c) ==
  /\ periods = <<>>
  /\ Ask(c, "trial", TrialPlan, "TRIAL", 0)
  /\ UNCHANGED withdrawn

\* A paid request, also for a plan deleted since; or an administrator's grant.
AskPeriod(c, plan, billing, op) ==
  /\ Len(periods) < MaxPeriods
  /\ billing # "TRIAL" /\ (op = "replace" => plan \notin withdrawn)
  /\ Ask(c, op, plan, billing, 0)
  /\ UNCHANGED withdrawn

\* Only the very next period can be started.
AskNext(c, id) ==
  /\ IsNext(periods, now, id)
  /\ Ask(c, "next", TrialPlan, "TRIAL", id)
  /\ UNCHANGED withdrawn

AskCancel(c, id) ==
  /\ IsRunning(periods[id])
  /\ Ask(c, "cancel", TrialPlan, "TRIAL", id)
  /\ UNCHANGED withdrawn

\* Mutant: the plan of the trial goes too.
DeletableEvenOnTrial(plan) == plan \notin withdrawn
Deletable(plan) == plan # TrialPlan /\ plan \notin withdrawn

\* The business's earliest period on the plan is cancelled, with what follows.
AskDelete(c, plan) ==
  LET on == {i \in DOMAIN periods : IsRunning(periods[i]) /\ periods[i].plan = plan}
      first == CHOOSE i \in on : \A j \in on : periods[i].starts <= periods[j].starts
  IN /\ Deletable(plan)
     /\ withdrawn' = withdrawn \cup {plan}
     /\ IF on = {} THEN UNCHANGED <<now, periods, shown, subCall, sweeper, bounds, raced>>
        ELSE Ask(c, "cancel", TrialPlan, "TRIAL", first)

\* A call that read p makes q of it: the columns it does not change stay as they are.
Merged(row, p, q) == [f \in DOMAIN row |-> IF q[f] # p[f] THEN q[f] ELSE row[f]]

\* A call that read s makes s1 of it.
Apply(s, s1) ==
  [i \in DOMAIN periods |-> IF i \in DOMAIN s THEN Merged(periods[i], s[i], s1[i]) ELSE periods[i]]
    \o SubSeq(s1, Len(s) + 1, Len(s1))

\* A sync in progress has read rows that are about to change.
Showing(c) == sweeper.pc = "show" \/ \E d \in SubCall \ {c} : subCall[d].pc = "show"

\* The call moves into the future a row that the sweep has expired since it was read.
Revived(seen) ==
  \E i \in DOMAIN seen : periods[i].status # seen[i].status /\ periods'[i].ends > now

\* The writes of the transaction.  The unique index allows one trial.
Write(c) ==
  LET k == subCall[c]
      twice == k.op = "trial" /\ \E i \in DOMAIN periods : periods[i].billing = "TRIAL"
  IN /\ k.pc = "write"
     /\ periods' =
          CASE twice -> periods
            [] k.op = "trial" /\ ~twice ->
                 Append(periods, Row(TrialPlan, "TRIAL", k.at, k.at + Length["TRIAL"]))
            [] k.op \in {"create", "replace"} ->
                 Apply(k.seen, Created(k.seen, k.at, k.plan, k.billing, k.op = "replace"))
            [] k.op = "next" -> Apply(k.seen, StartedNow(k.seen, k.at, k.id))
            [] k.op = "cancel" -> Cancelled(periods, k.at, k.id, k.seen[k.id].starts)
     /\ subCall' = [subCall EXCEPT ![c] = IF twice THEN Free ELSE [Free EXCEPT !.pc = "sync"]]
     /\ raced' = (raced \/ Deciding # {c} \/ Revived(k.seen))
     /\ missed' = (missed \/ Showing(c))
     /\ UNCHANGED <<now, withdrawn, until, sweeper, bounds>>

\* syncPriority.
ReadPriority(c) ==
  /\ subCall[c].pc = "sync"
  /\ subCall' = [subCall EXCEPT ![c].pc = "show", ![c].until = PriorityEnd(periods, now)]
  /\ UNCHANGED <<now, periods, withdrawn, shown, sweeper, bounds, raced>>

WritePriority(c) ==
  /\ subCall[c].pc = "show"
  /\ until' = subCall[c].until
  /\ subCall' = [subCall EXCEPT ![c] = Free]
  /\ UNCHANGED <<now, periods, withdrawn, missed, sweeper, bounds, raced>>

Dies(c) ==
  /\ subCall[c].pc # "idle" /\ deaths < MaxDeaths
  /\ deaths' = deaths + 1
  /\ missed' = (missed \/ subCall[c].pc \in {"sync", "show"})
  /\ subCall' = [subCall EXCEPT ![c] = Free]
  /\ UNCHANGED <<now, periods, withdrawn, until, sweeper, overlaps, raced>>

----------------------------------------------------------------------------
(* The hourly sweep, one at a time. *)

Lapsed(p) == IsRunning(p) /\ p.ends <= now /\ ~p.notified

SweepReads ==
  /\ sweeper.pc = "idle" /\ sweeper.todo = {}
  /\ sweeper' = [sweeper EXCEPT !.todo = {i \in DOMAIN periods : Lapsed(periods[i])}]
  /\ sweeper'.todo # {}
  /\ UNCHANGED <<now, periods, withdrawn, shown, subCall, bounds, raced>>

\* A row that a call has ended since the sweep read it is left alone.
SweepSkips(i) ==
  /\ sweeper.pc = "idle" /\ i \in sweeper.todo /\ periods[i].notified
  /\ sweeper' = [sweeper EXCEPT !.todo = @ \ {i}]
  /\ UNCHANGED <<now, periods, withdrawn, shown, subCall, bounds, raced>>

Expired(s, i) == [s EXCEPT ![i].status = "EXPIRED", ![i].notified = TRUE]

\* Mutant: the offers keep the priority they had.
ExpireUnsynced(i) ==
  /\ sweeper.pc = "idle" /\ i \in sweeper.todo /\ ~periods[i].notified
  /\ periods' = Expired(periods, i)
  /\ sweeper' = [sweeper EXCEPT !.todo = @ \ {i}]
  /\ UNCHANGED <<now, withdrawn, subCall, bounds, raced, shown>>

SweepExpire(i) ==
  /\ sweeper.pc = "idle" /\ i \in sweeper.todo /\ ~periods[i].notified
  /\ periods' = Expired(periods, i)
  /\ sweeper' = [sweeper EXCEPT !.pc = "sync", !.todo = @ \ {i}]
  /\ raced' = (raced \/ periods[i].ends > now)
  /\ missed' = (missed \/ \E c \in SubCall : subCall[c].pc = "show")
  /\ UNCHANGED <<now, withdrawn, until, subCall, bounds>>

SweepReadsPriority ==
  /\ sweeper.pc = "sync"
  /\ sweeper' = [sweeper EXCEPT !.pc = "show", !.until = PriorityEnd(periods, now)]
  /\ UNCHANGED <<now, periods, withdrawn, shown, subCall, bounds, raced>>

SweepWritesPriority ==
  /\ sweeper.pc = "show"
  /\ until' = sweeper.until
  /\ sweeper' = [sweeper EXCEPT !.pc = "idle", !.until = 0]
  /\ UNCHANGED <<now, periods, withdrawn, missed, subCall, bounds, raced>>

SweepDies ==
  /\ sweeper.pc # "idle" \/ sweeper.todo # {}
  /\ deaths < MaxDeaths
  /\ deaths' = deaths + 1 /\ missed' = (missed \/ sweeper.pc # "idle")
  /\ sweeper' = [pc |-> "idle", todo |-> {}, until |-> 0]
  /\ UNCHANGED <<now, periods, withdrawn, until, subCall, overlaps, raced>>

TimePasses ==
  /\ now < MaxTime
  /\ now' = now + 1
  /\ UNCHANGED <<periods, withdrawn, shown, subCall, sweeper, bounds, raced>>

----------------------------------------------------------------------------
SubNext ==
  \/ \E c \in SubCall :
       \/ AskTrial(c)
       \/ \E plan \in Plan, billing \in BillingPeriod, op \in {"create", "replace"} :
            AskPeriod(c, plan, billing, op)
       \/ \E id \in DOMAIN periods : AskNext(c, id) \/ AskCancel(c, id)
       \/ \E plan \in Plan : AskDelete(c, plan)
       \/ Write(c) \/ ReadPriority(c) \/ WritePriority(c) \/ Dies(c)
  \/ SweepReads
  \/ \E i \in sweeper.todo : SweepSkips(i) \/ SweepExpire(i)
  \/ SweepReadsPriority \/ SweepWritesPriority \/ SweepDies
  \/ TimePasses

SubSpec == SubInit /\ [][SubNext]_subVars
----------------------------------------------------------------------------
(* Properties. *)

\* Rows and calls hold values of the schema; a billing's only trial stays the only one.
SubTypeOK ==
  /\ now \in Nat /\ until \in Nat /\ overlaps \in Nat /\ deaths \in Nat
  /\ periods \in Seq(Period)
  /\ withdrawn \in SUBSET (Plan \ {TrialPlan})
  /\ subCall \in [SubCall -> SubCallState]
  /\ sweeper \in [pc : {"idle", "sync", "show"}, todo : SUBSET DOMAIN periods, until : Nat]
  /\ raced \in BOOLEAN /\ missed \in BOOLEAN

Live == {i \in DOMAIN periods : IsRunning(periods[i]) /\ periods[i].ends > now}

\* However periods are bought, granted, upgraded, started early and cancelled, what
\* the business has left is one run of periods from now on, without a gap and
\* without an overlap in which paid days would be lost ("paying early never loses
\* days"), unless a call decided on rows that another one then changed, or the sweep
\* expired a row that the call moves into the future.
ChainUnbroken ==
  ~raced =>
    /\ \A i \in Live : \/ periods[i].starts <= now
                       \/ \E j \in Live : periods[j].ends = periods[i].starts
    /\ \A i, j \in Live : i # j =>
         periods[i].ends <= periods[j].starts \/ periods[j].ends <= periods[i].starts

Quiet == sweeper.pc = "idle" /\ \A c \in SubCall : subCall[c].pc \notin {"sync", "show"}

\* Once the sweep has seen what has ended, the offers are shown first exactly as long
\* as the periods with priority go on, unless a sync was cut short or overtaken.
PriorityFollowsPlan ==
  ~raced /\ ~missed /\ Quiet /\ (\A i \in DOMAIN periods : ~Lapsed(periods[i])) =>
    (IF until > now THEN until ELSE 0) = PriorityEnd(periods, now)
==========================================================================
