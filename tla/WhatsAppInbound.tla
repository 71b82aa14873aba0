-------------------------- MODULE WhatsAppInbound --------------------------
(***************************************************************************)
(* Inbound WhatsApp messages, from the webhook to the answer.  A message is *)
(* a BullMQ job under its own id: delivered at least once, retried when an  *)
(* attempt throws, re-run when its worker stalls or dies.  An attempt asks  *)
(* for the message's done marker, claims its in-flight lock, lets the bot   *)
(* handle the message, writes the marker and releases the lock.  The lock   *)
(* expires on its own and carries no owner.                                 *)
(***************************************************************************)
EXTENDS Integers, FiniteSets

CONSTANTS
  Message,      \* inbound messages, by the provider's id
  Attempt,      \* attempts that may be running at the same time
  MaxAttempts,  \* attempts the queue makes of a job that throws
  MaxStalls,    \* bound on an external setting: stalls the queue forgives a job
  MaxJobs,      \* bound: jobs a message becomes (the provider delivers it again)
  Nobody        \* no attempt, no message

\* The attempts are countable, Nobody is none of the rest, a job is tried at least once.
ASSUME InboundAssumption ==
  /\ IsFiniteSet(Attempt) /\ Nobody \notin Attempt \cup Message
  /\ MaxAttempts \in Nat \ {0} /\ MaxStalls \in Nat /\ MaxJobs \in Nat

VARIABLES
  job,       \* the message's job in the queue ("none": no record of it)
  owner,     \* the attempt that holds the queue's own lock on the job
  failures,  \* attemptsMade
  stalls,    \* times the queue found the job stalled
  done,      \* messages whose marker (7 days) is set
  lock,      \* the attempt that set the in-flight key, Nobody when not set
  run,       \* what each attempt is doing
  jobs,      \* jobs a message has become
  handled,   \* times the bot handled a message (history)
  mishaps,   \* attempts that let a message be handled once more (history)
  stranded   \* messages whose key a failed SET or DEL has left set (history)

queueVars == <<job, owner, failures, stalls, jobs>>
inboundVars == <<queueVars, done, lock, run, handled, mishaps, stranded>>

Run == [pc : {"idle", "has", "claim", "handle", "mark", "release"},
        message : Message \cup {Nobody}, ok : BOOLEAN]

Resting == [pc |-> "idle", message |-> Nobody, ok |-> FALSE]

InboundInit ==
  /\ job = [m \in Message |-> "none"]
  /\ owner = [m \in Message |-> Nobody]
  /\ failures = [m \in Message |-> 0]
  /\ stalls = [m \in Message |-> 0]
  /\ done = {}
  /\ lock = [m \in Message |-> Nobody]
  /\ run = [w \in Attempt |-> Resting]
  /\ jobs = [m \in Message |-> 0]
  /\ handled = [m \in Message |-> 0]
  /\ mishaps = [m \in Message |-> 0]
  /\ stranded = {}

----------------------------------------------------------------------------
(* The queue. *)

\* The webhook adds the job under the message's id: refused while the queue
\* still has one, so a replay is a new job only once the record is gone.
Receive(m) ==
  /\ job[m] = "none" /\ jobs[m] < MaxJobs
  /\ job' = [job EXCEPT ![m] = "queued"]
  /\ jobs' = [jobs EXCEPT ![m] = @ + 1]
  /\ UNCHANGED <<owner, failures, stalls, done, lock, run, handled, mishaps, stranded>>

AtWork(m) == \E w \in Attempt : run[w].pc # "idle" /\ run[w].message = m

\* removeOnComplete, removeOnFail: the record of a settled job goes, by its age
\* or because too many are kept.
Forget(m) ==
  /\ job[m] \in {"completed", "failed"}
  /\ job' = [job EXCEPT ![m] = "none"]
  /\ failures' = [failures EXCEPT ![m] = 0]
  /\ stalls' = [stalls EXCEPT ![m] = 0]
  /\ UNCHANGED <<owner, jobs, done, lock, run, handled, mishaps, stranded>>

Take(w, m) ==
  /\ run[w].pc = "idle" /\ job[m] = "queued"
  /\ job' = [job EXCEPT ![m] = "active"]
  /\ owner' = [owner EXCEPT ![m] = w]
  /\ run' = [run EXCEPT ![w] = [pc |-> "has", message |-> m, ok |-> FALSE]]
  /\ UNCHANGED <<failures, stalls, jobs, done, lock, handled, mishaps, stranded>>

\* Mutant: the queue makes one attempt more than it was told.
SettleOnceMore(w, ok) ==
  LET m == run[w].message
      last == failures[m] >= MaxAttempts
  IN /\ run' = [run EXCEPT ![w] = Resting]
     /\ IF owner[m] # w THEN UNCHANGED <<job, owner, failures>>
        ELSE /\ owner' = [owner EXCEPT ![m] = Nobody]
             /\ job' = [job EXCEPT ![m] = IF ok THEN "completed"
                                           ELSE IF last THEN "failed" ELSE "queued"]
             /\ failures' = [failures EXCEPT ![m] = IF ok THEN @ ELSE @ + 1]
     /\ UNCHANGED <<stalls, jobs>>

\* The attempt returns or throws: the queue settles the job, unless it has
\* given the job to another attempt since.
Settle(w, ok) ==
  LET m == run[w].message
      last == failures[m] + 1 >= MaxAttempts
  IN /\ run' = [run EXCEPT ![w] = Resting]
     /\ IF owner[m] # w THEN UNCHANGED <<job, owner, failures>>
        ELSE /\ owner' = [owner EXCEPT ![m] = Nobody]
             /\ job' = [job EXCEPT ![m] = IF ok THEN "completed"
                                           ELSE IF last THEN "failed" ELSE "queued"]
             /\ failures' = [failures EXCEPT ![m] = IF ok THEN @ ELSE @ + 1]
     /\ UNCHANGED <<stalls, jobs>>

\* The queue's lock on an active job was not renewed, because its worker died
\* or its event loop was blocked: the job is taken away and run again, or fails.
Stall(m) ==
  /\ job[m] = "active"
  /\ job' = [job EXCEPT ![m] = IF stalls[m] < MaxStalls THEN "queued" ELSE "failed"]
  /\ owner' = [owner EXCEPT ![m] = Nobody]
  /\ stalls' = [stalls EXCEPT ![m] = @ + 1]
  /\ mishaps' = [mishaps EXCEPT ![m] = IF AtWork(m) THEN @ + 1 ELSE @]
  /\ UNCHANGED <<failures, jobs, done, lock, run, handled, stranded>>

----------------------------------------------------------------------------
(* One attempt. *)

\* Mutant: the marker is not asked for.
HasUnread(w) ==
  /\ run[w].pc = "has"
  /\ run' = [run EXCEPT ![w].pc = "claim"]
  /\ UNCHANGED <<queueVars, done, lock, handled, mishaps, stranded>>

\* A message already handled is dropped: the job completes.
Has(w) ==
  /\ run[w].pc = "has"
  /\ IF run[w].message \in done
       THEN Settle(w, TRUE)
       ELSE /\ run' = [run EXCEPT ![w].pc = "claim"]
            /\ UNCHANGED queueVars
  /\ UNCHANGED <<done, lock, handled, mishaps, stranded>>

\* SET NX.  When the lock is taken the attempt returns: the job completes too.
Claim(w) ==
  LET m == run[w].message
  IN /\ run[w].pc = "claim"
     /\ IF lock[m] # Nobody
          THEN Settle(w, TRUE) /\ UNCHANGED lock
          ELSE /\ lock' = [lock EXCEPT ![m] = w]
               /\ run' = [run EXCEPT ![w].pc = "handle"]
               /\ UNCHANGED queueVars
     /\ UNCHANGED <<done, handled, mishaps, stranded>>

\* The bot answers: what the message asks for is done, the reply is enqueued.
Handle(w) ==
  /\ run[w].pc = "handle"
  /\ handled' = [handled EXCEPT ![run[w].message] = @ + 1]
  /\ run' = [run EXCEPT ![w].pc = "mark"]
  /\ UNCHANGED <<queueVars, done, lock, mishaps, stranded>>

\* The marker is the last line of the work.
Mark(w) ==
  /\ run[w].pc = "mark"
  /\ done' = done \cup {run[w].message}
  /\ run' = [run EXCEPT ![w].pc = "release", ![w].ok = TRUE]
  /\ UNCHANGED <<queueVars, lock, handled, mishaps, stranded>>

\* What was handled without its marker will be handled again.
Unmarked(w) ==
  mishaps' = [mishaps EXCEPT ![run[w].message] = IF run[w].pc = "mark" THEN @ + 1 ELSE @]

\* Redis, the bot or the enqueue throws.  Only an attempt that has the lock has
\* something to release; when the DEL throws, the attempt fails and its key stays.
Throw(w) ==
  LET m == run[w].message
  IN /\ \/ run[w].pc \in {"has", "claim", "release"} /\ Settle(w, FALSE)
        \/ /\ run[w].pc \in {"handle", "mark"}
           /\ run' = [run EXCEPT ![w].pc = "release"]
           /\ UNCHANGED queueVars
     /\ stranded' = IF run[w].pc = "release" /\ lock[m] = w
                      THEN stranded \cup {m} ELSE stranded
     /\ Unmarked(w)
     /\ UNCHANGED <<done, lock, handled>>

\* The command has reached Redis and its answer is lost: the attempt throws.
Unheard(w) ==
  LET m == run[w].message
  IN /\ \/ /\ run[w].pc = "claim" /\ lock[m] = Nobody
           /\ lock' = [lock EXCEPT ![m] = w]
           /\ stranded' = stranded \cup {m}
           /\ Settle(w, FALSE) /\ UNCHANGED done
        \/ /\ run[w].pc = "mark"
           /\ done' = done \cup {m}
           /\ run' = [run EXCEPT ![w].pc = "release"]
           /\ UNCHANGED <<queueVars, lock, stranded>>
        \/ /\ run[w].pc = "release"
           /\ lock' = [lock EXCEPT ![m] = Nobody]
           /\ stranded' = stranded \ {m}
           /\ Settle(w, FALSE) /\ UNCHANGED done
     /\ UNCHANGED <<handled, mishaps>>

\* Mutant: an attempt that threw keeps its lock.
ReleaseIfHandled(w) ==
  /\ run[w].pc = "release"
  /\ lock' = IF run[w].ok THEN [lock EXCEPT ![run[w].message] = Nobody] ELSE lock
  /\ stranded' = IF run[w].ok THEN stranded \ {run[w].message} ELSE stranded
  /\ Settle(w, run[w].ok)
  /\ UNCHANGED <<done, handled, mishaps>>

\* The finally: DEL, whoever has the lock by now.
Release(w) ==
  /\ run[w].pc = "release"
  /\ lock' = [lock EXCEPT ![run[w].message] = Nobody]
  /\ stranded' = stranded \ {run[w].message}
  /\ Settle(w, run[w].ok)
  /\ UNCHANGED <<done, handled, mishaps>>

\* The process dies; the queue finds out when the job stalls.
Die(w) ==
  /\ run[w].pc # "idle"
  /\ Unmarked(w)
  /\ run' = [run EXCEPT ![w] = Resting]
  /\ UNCHANGED <<queueVars, done, lock, handled, stranded>>

\* IN_FLIGHT_TTL_SECONDS have passed, whether or not the attempt has ended.
LockExpires(m) ==
  /\ lock[m] # Nobody
  /\ lock' = [lock EXCEPT ![m] = Nobody]
  /\ stranded' = stranded \ {m}
  /\ UNCHANGED <<queueVars, done, run, handled, mishaps>>

Steps(w) == Has(w) \/ Claim(w) \/ Handle(w) \/ Mark(w) \/ Release(w)

InboundNext ==
  \/ \E m \in Message : Receive(m) \/ Forget(m) \/ Stall(m) \/ LockExpires(m)
  \/ \E w \in Attempt : Steps(w) \/ Throw(w) \/ Unheard(w) \/ Die(w)
  \/ \E w \in Attempt, m \in Message : Take(w, m)

\* The queue's workers go on working and the queue finds the jobs nobody works
\* at; throwing, dying and stalling while at work are nobody's duty.
InboundFairness ==
  /\ \A w \in Attempt : WF_inboundVars(Steps(w))
  /\ \A m \in Message : WF_inboundVars(\E w \in Attempt : Take(w, m))
  /\ \A m \in Message : WF_inboundVars(~AtWork(m) /\ Stall(m))

InboundSpec == InboundInit /\ [][InboundNext]_inboundVars /\ InboundFairness
----------------------------------------------------------------------------
(* Properties. *)

\* Jobs, keys and attempts hold the values the queue and Redis give them.
InboundTypeOK ==
  /\ job \in [Message -> {"none", "queued", "active", "completed", "failed"}]
  /\ owner \in [Message -> Attempt \cup {Nobody}]
  /\ failures \in [Message -> 0 .. MaxAttempts]
  /\ stalls \in [Message -> 0 .. MaxStalls + 1]
  /\ done \in SUBSET Message
  /\ lock \in [Message -> Attempt \cup {Nobody}]
  /\ run \in [Attempt -> Run]
  /\ jobs \in [Message -> 0 .. MaxJobs]
  /\ handled \in [Message -> Nat]
  /\ mishaps \in [Message -> Nat]
  /\ stranded \in SUBSET Message

\* Retries, replays and drops never make the bot handle a message twice: only an
\* attempt that ended between its work and its marker, or a job taken away from
\* an attempt still at work, does, once each (the marker and the lock together).
HandledOnce ==
  \A m \in Message : handled[m] <= 1 + mishaps[m]

Fresh(m) == job[m] = "queued" /\ stalls[m] = 0 /\ lock[m] = Nobody /\ ~AtWork(m)

\* A job no earlier attempt is in the way of, and no worker's stall or death
\* interrupts, is answered or has failed as often as the queue tries: the lock an
\* attempt claims shuts out its own retry only when Redis fails the attempt's last
\* word, its SET or its DEL, and then no longer than the key lives.
AnsweredOrFailed ==
  \A m \in Message :
    Fresh(m) ~> (m \in done \/ job[m] = "failed" \/ stalls[m] > 0 \/ m \in stranded)
==========================================================================
