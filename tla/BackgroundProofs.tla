--------------------------- MODULE BackgroundProofs ---------------------------
(* Proofs about the two queues of the background workers.  WhatsAppInbound: for *)
(* any messages, attempts running at once, retries, stalls, deaths and locks that *)
(* expire.  Broadcasts: for any audience, page size, workers, calls of the        *)
(* administration, runs, deaths and failed statements.                            *)
EXTENDS MCBackground, FiniteSetTheorems, TLAPS

----------------------------------------------------------------------------
(* The inbound queue. *)

\* What the queue keeps: a job is somebody's only while active, it is tried again
\* only while it has tries and stalls left, one the queue forgot starts afresh, and an attempt at work has a message.
JobFacts ==
  /\ \A m \in Message :
       /\ owner[m] # Nobody => job[m] = "active"
       /\ job[m] \in {"queued", "active"} => failures[m] < MaxAttempts /\ stalls[m] <= MaxStalls
       /\ job[m] = "none" => failures[m] = 0 /\ stalls[m] = 0
  /\ \A w \in Attempt : run[w].pc # "idle" => run[w].message \in Message

QueueSound ==
  /\ job \in [Message -> {"none", "queued", "active", "completed", "failed"}]
  /\ owner \in [Message -> Attempt \cup {Nobody}]
  /\ failures \in [Message -> 0 .. MaxAttempts]
  /\ stalls \in [Message -> 0 .. MaxStalls + 1]
  /\ run \in [Attempt -> Run]
  /\ jobs \in [Message -> 0 .. MaxJobs]
  /\ JobFacts

Sound == InboundTypeOK /\ JobFacts

\* The two parts of what is typed.
LEMMA SoundParts ==
  Sound <=> /\ QueueSound
            /\ done \in SUBSET Message /\ lock \in [Message -> Attempt \cup {Nobody}]
            /\ handled \in [Message -> Nat] /\ mishaps \in [Message -> Nat]
            /\ stranded \in SUBSET Message
  BY DEF Sound, QueueSound, InboundTypeOK

\* An attempt's record as its steps leave it.
LEMMA RunMoves ==
  ASSUME NEW x \in Run, NEW m \in Message, NEW b \in BOOLEAN,
         NEW l \in {"idle", "has", "claim", "handle", "mark", "release"}
  PROVE  /\ Resting \in Run /\ [pc |-> "has", message |-> m, ok |-> FALSE] \in Run
         /\ [x EXCEPT !.pc = l] \in Run /\ [x EXCEPT !.pc = l, !.ok = b] \in Run
  BY DEF Run, Resting

\* Whoever settles a job leaves the queue sound: a job thrown back has tries left.
LEMMA SettleSound ==
  ASSUME Sound, NEW w \in Attempt, run[w].pc # "idle", NEW ok \in BOOLEAN, Settle(w, ok)
  PROVE  QueueSound'
<1> DEFINE m == run[w].message
<1>1. m \in Message /\ QueueSound
  BY SoundParts DEF Sound, JobFacts
<1>2. run' = [run EXCEPT ![w] = Resting] /\ stalls' = stalls /\ jobs' = jobs
  BY DEF Settle
<1>3. run' \in [Attempt -> Run]
  BY <1>1, <1>2, RunMoves DEF QueueSound
<1>4. \A v \in Attempt : run'[v].pc # "idle" => run'[v].message \in Message
  <2> SUFFICES ASSUME NEW v \in Attempt, run'[v].pc # "idle" PROVE run'[v].message \in Message
    OBVIOUS
  <2>1. v # w /\ run'[v] = run[v]
    BY <1>1, <1>2 DEF QueueSound, Resting
  <2> QED
    BY <1>1, <2>1 DEF QueueSound, JobFacts
<1>5. CASE owner[m] # w
  <2>1. UNCHANGED <<job, owner, failures>>
    BY <1>5 DEF Settle
  <2> QED
    BY <1>1, <1>2, <1>3, <1>4, <2>1 DEF QueueSound, JobFacts
<1>6. CASE owner[m] = w
  <2>1. job[m] = "active" /\ failures[m] < MaxAttempts /\ stalls[m] <= MaxStalls
    BY <1>1, <1>6, InboundAssumption DEF QueueSound, JobFacts
  <2>2. /\ owner' = [owner EXCEPT ![m] = Nobody]
        /\ job' = [job EXCEPT ![m] = IF ok THEN "completed"
                     ELSE IF failures[m] + 1 >= MaxAttempts THEN "failed" ELSE "queued"]
        /\ failures' = [failures EXCEPT ![m] = IF ok THEN @ ELSE @ + 1]
    BY <1>6 DEF Settle
  <2>3. job' \in [Message -> {"none", "queued", "active", "completed", "failed"}]
    BY <1>1, <2>2 DEF QueueSound
  <2>4. owner' \in [Message -> Attempt \cup {Nobody}]
    BY <1>1, <2>2 DEF QueueSound
  <2>5. failures' \in [Message -> 0 .. MaxAttempts]
    BY <1>1, <2>1, <2>2, InboundAssumption DEF QueueSound
  <2>6. ASSUME NEW n \in Message
        PROVE  /\ owner'[n] # Nobody => job'[n] = "active"
               /\ job'[n] \in {"queued", "active"} => failures'[n] < MaxAttempts /\ stalls'[n] <= MaxStalls
               /\ job'[n] = "none" => failures'[n] = 0 /\ stalls'[n] = 0
    <3>1. CASE n = m
      <4>1. owner'[m] = Nobody
        BY <1>1, <2>2 DEF QueueSound
      <4>2. CASE ok
        BY <1>1, <2>2, <3>1, <4>1, <4>2 DEF QueueSound
      <4>3. CASE ~ok
        <5>1. failures'[m] = failures[m] + 1 /\ failures[m] \in Nat
          BY <1>1, <2>2, <4>3 DEF QueueSound
        <5>2. job'[m] = IF failures[m] + 1 >= MaxAttempts THEN "failed" ELSE "queued"
          BY <1>1, <2>2, <4>3 DEF QueueSound
        <5> QED
          BY <1>2, <2>1, <3>1, <4>1, <5>1, <5>2, InboundAssumption
      <4> QED
        BY <4>2, <4>3
    <3>2. CASE n # m
      <4>1. owner'[n] = owner[n] /\ job'[n] = job[n] /\ failures'[n] = failures[n]
        BY <1>1, <2>2, <3>2 DEF QueueSound
      <4> QED
        BY <1>1, <1>2, <4>1 DEF QueueSound, JobFacts
    <3> QED
      BY <3>1, <3>2
  <2>7. stalls' \in [Message -> 0 .. MaxStalls + 1] /\ jobs' \in [Message -> 0 .. MaxJobs]
    BY <1>1, <1>2 DEF QueueSound
  <2> QED
    BY <1>3, <1>4, <2>3, <2>4, <2>5, <2>6, <2>7 DEF QueueSound, JobFacts
<1> QED
  BY <1>5, <1>6

\* An attempt that goes on leaves the queue alone.
LEMMA GoOnSound ==
  ASSUME Sound, NEW w \in Attempt, run[w].pc # "idle", NEW x \in Run,
         x.message = run[w].message, run' = [run EXCEPT ![w] = x], UNCHANGED queueVars
  PROVE  QueueSound'
<1>1. QueueSound
  BY SoundParts
<1>2. run[w].message \in Message
  BY DEF Sound, JobFacts
<1>3. \A v \in Attempt : run'[v].pc # "idle" => run'[v].message \in Message
  BY <1>1, <1>2 DEF QueueSound, JobFacts
<1>4. run' \in [Attempt -> Run]
  BY <1>1 DEF QueueSound
<1>5. UNCHANGED <<job, owner, failures, stalls, jobs>>
  BY DEF queueVars
<1> QED
  BY <1>1, <1>3, <1>4, <1>5 DEF QueueSound, JobFacts

\* One more mishap at most.
LEMMA UnmarkedCounts ==
  ASSUME NEW w \in Attempt, mishaps \in [Message -> Nat], run[w].message \in Message, Unmarked(w)
  PROVE  mishaps' \in [Message -> Nat]
<1> DEFINE m == run[w].message
<1>1. mishaps[m] \in Nat /\ mishaps[m] + 1 \in Nat
  OBVIOUS
<1>2. CASE run[w].pc = "mark"
  <2>1. mishaps' = [mishaps EXCEPT ![m] = mishaps[m] + 1]
    BY <1>2 DEF Unmarked
  <2> QED
    BY <1>1, <2>1
<1>3. CASE run[w].pc # "mark"
  <2>1. mishaps' = [mishaps EXCEPT ![m] = mishaps[m]]
    BY <1>3 DEF Unmarked
  <2> QED
    BY <1>1, <2>1
<1> QED
  BY <1>2, <1>3

\* Every step keeps jobs, keys and attempts in their types and the queue sound.
LEMMA SoundStep ==
  ASSUME Sound, [InboundNext]_inboundVars
  PROVE  Sound'
<1> USE InboundAssumption
<1>0. /\ QueueSound /\ done \in SUBSET Message
      /\ lock \in [Message -> Attempt \cup {Nobody}]
      /\ handled \in [Message -> Nat] /\ mishaps \in [Message -> Nat]
      /\ stranded \in SUBSET Message
  BY SoundParts
<1>1. ASSUME NEW m \in Message, Receive(m) PROVE Sound'
  <2>1. QueueSound'
    BY <1>0, <1>1 DEF Receive, QueueSound, JobFacts
  <2> QED
    BY <1>0, <1>1, <2>1, SoundParts DEF Receive, Sound, InboundTypeOK, QueueSound
<1>2. ASSUME NEW m \in Message, Forget(m) PROVE Sound'
  <2>1. QueueSound'
    BY <1>0, <1>2 DEF Forget, QueueSound, JobFacts
  <2> QED
    BY <1>0, <1>2, <2>1 DEF Forget, Sound, InboundTypeOK, QueueSound
<1>3. ASSUME NEW m \in Message, Stall(m) PROVE Sound'
  <2>1. QueueSound'
    BY <1>0, <1>3 DEF Stall, QueueSound, JobFacts
  <2>2. mishaps' \in [Message -> Nat]
    BY <1>0, <1>3 DEF Stall
  <2> QED
    BY <1>0, <1>3, <2>1, <2>2 DEF Stall, Sound, InboundTypeOK, QueueSound
<1>4. ASSUME NEW m \in Message, LockExpires(m) PROVE Sound'
  <2>1. lock' \in [Message -> Attempt \cup {Nobody}]
    BY <1>0, <1>4 DEF LockExpires
  <2> QED
    BY <1>0, <1>4, <2>1 DEF LockExpires, Sound, InboundTypeOK, QueueSound, JobFacts, queueVars
<1>5. ASSUME NEW w \in Attempt, NEW m \in Message, Take(w, m) PROVE Sound'
  <2>1. run' \in [Attempt -> Run]
    BY <1>0, <1>5, RunMoves DEF Take, QueueSound
  <2>2. \A v \in Attempt : run'[v].pc # "idle" => run'[v].message \in Message
    BY <1>0, <1>5 DEF Take, QueueSound, JobFacts
  <2>3. QueueSound'
    BY <1>0, <1>5, <2>1, <2>2 DEF Take, QueueSound, JobFacts
  <2> QED
    BY <1>0, <1>5, <2>3 DEF Take, Sound, InboundTypeOK, QueueSound
<1>6. ASSUME NEW w \in Attempt, Has(w) PROVE Sound'
  <2>1. QueueSound'
    <3>1. CASE run[w].message \in done
      BY <1>6, <3>1, SettleSound DEF Has
    <3>2. CASE run[w].message \notin done
      <4>1. run[w] \in Run
        BY <1>0 DEF QueueSound
      <4>2. [run[w] EXCEPT !.pc = "claim"] \in Run
        BY <4>1 DEF Run
      <4>3. run' = [run EXCEPT ![w] = [run[w] EXCEPT !.pc = "claim"]] /\ UNCHANGED queueVars
        BY <1>0, <1>6, <3>2 DEF Has
      <4>4. [run[w] EXCEPT !.pc = "claim"].message = run[w].message
        BY <4>1 DEF Run
      <4> QED
        BY <1>6, <4>2, <4>3, <4>4, GoOnSound DEF Has
    <3> QED
      BY <3>1, <3>2
  <2> QED
    BY <1>0, <1>6, <2>1 DEF Has, Sound, InboundTypeOK, QueueSound
<1>7. ASSUME NEW w \in Attempt, Claim(w) PROVE Sound'
  <2>1. QueueSound'
    <3>1. CASE lock[run[w].message] # Nobody
      BY <1>7, <3>1, SettleSound DEF Claim
    <3>2. CASE lock[run[w].message] = Nobody
      <4>1. run[w] \in Run
        BY <1>0 DEF QueueSound
      <4>2. [run[w] EXCEPT !.pc = "handle"] \in Run
        BY <4>1 DEF Run
      <4>3. run' = [run EXCEPT ![w] = [run[w] EXCEPT !.pc = "handle"]] /\ UNCHANGED queueVars
        BY <1>0, <1>7, <3>2 DEF Claim
      <4>4. [run[w] EXCEPT !.pc = "handle"].message = run[w].message
        BY <4>1 DEF Run
      <4> QED
        BY <1>7, <4>2, <4>3, <4>4, GoOnSound DEF Claim
    <3> QED
      BY <3>1, <3>2
  <2>2. lock' \in [Message -> Attempt \cup {Nobody}]
    BY <1>0, <1>7 DEF Claim
  <2> QED
    BY <1>0, <1>7, <2>1, <2>2 DEF Claim, Sound, InboundTypeOK, QueueSound
<1>8. ASSUME NEW w \in Attempt, Handle(w) PROVE Sound'
  <2>1. run[w] \in Run /\ run[w].message \in Message
    BY <1>0, <1>8 DEF QueueSound, JobFacts, Handle
  <2>2. [run[w] EXCEPT !.pc = "mark"] \in Run
    BY <2>1 DEF Run
  <2>3. [run[w] EXCEPT !.pc = "mark"].message = run[w].message
    BY <2>1 DEF Run
  <2>4. QueueSound'
    BY <1>8, <2>2, <2>3, GoOnSound DEF Handle
  <2>5. handled' \in [Message -> Nat]
    BY <1>0, <1>8, <2>1 DEF Handle
  <2> QED
    BY <1>0, <1>8, <2>4, <2>5 DEF Handle, Sound, InboundTypeOK, QueueSound
<1>9. ASSUME NEW w \in Attempt, Mark(w) PROVE Sound'
  <2>1. run[w] \in Run /\ run[w].message \in Message
    BY <1>0, <1>9 DEF QueueSound, JobFacts, Mark
  <2>2. [run[w] EXCEPT !.pc = "release", !.ok = TRUE] \in Run
    BY <2>1 DEF Run
  <2>3. [run[w] EXCEPT !.pc = "release", !.ok = TRUE].message = run[w].message
    BY <2>1 DEF Run
  <2>4. QueueSound'
    BY <1>9, <2>2, <2>3, GoOnSound DEF Mark
  <2>5. done' \in SUBSET Message
    BY <1>0, <1>9, <2>1 DEF Mark
  <2> QED
    BY <1>0, <1>9, <2>4, <2>5 DEF Mark, Sound, InboundTypeOK, QueueSound
<1>10. ASSUME NEW w \in Attempt, Throw(w) PROVE Sound'
  <2>1. QueueSound'
    <3>1. CASE run[w].pc \in {"has", "claim", "release"}
      BY <1>10, <3>1, SettleSound DEF Throw
    <3>2. CASE run[w].pc \in {"handle", "mark"}
      <4>1. run[w] \in Run
        BY <1>0 DEF QueueSound
      <4>2. [run[w] EXCEPT !.pc = "release"] \in Run
        BY <4>1 DEF Run
      <4>3. run' = [run EXCEPT ![w] = [run[w] EXCEPT !.pc = "release"]] /\ UNCHANGED queueVars
        BY <1>10, <3>2 DEF Throw
      <4>4. [run[w] EXCEPT !.pc = "release"].message = run[w].message
        BY <4>1 DEF Run
      <4> QED
        BY <3>2, <4>2, <4>3, <4>4, GoOnSound
    <3> QED
      BY <1>10, <3>1, <3>2 DEF Throw
  <2>2. mishaps' \in [Message -> Nat]
    <3>1. run[w].message \in Message
      BY <1>0, <1>10 DEF Throw, QueueSound, JobFacts
    <3> QED
      BY <1>0, <1>10, <3>1, UnmarkedCounts DEF Throw
  <2>3. stranded' \in SUBSET Message
    BY <1>0, <1>10 DEF Throw, QueueSound, JobFacts
  <2> QED
    BY <1>0, <1>10, <2>1, <2>2, <2>3 DEF Throw, Sound, InboundTypeOK, QueueSound
<1>11. ASSUME NEW w \in Attempt, Release(w) PROVE Sound'
  <2>1. run[w].ok \in BOOLEAN
    BY <1>0 DEF QueueSound, Run
  <2>2. QueueSound'
    BY <1>11, <2>1, SettleSound DEF Release
  <2>3. lock' \in [Message -> Attempt \cup {Nobody}]
    BY <1>0, <1>11 DEF Release
  <2> QED
    BY <1>0, <1>11, <2>2, <2>3 DEF Release, Sound, InboundTypeOK, QueueSound
<1>12. ASSUME NEW w \in Attempt, Die(w) PROVE Sound'
  <2>1. run' \in [Attempt -> Run]
    BY <1>0, <1>12, RunMoves DEF Die, QueueSound, Run, Resting
  <2>2. \A v \in Attempt : run'[v].pc # "idle" => run'[v].message \in Message
    BY <1>0, <1>12 DEF Die, QueueSound, JobFacts, Resting
  <2>3. QueueSound'
    BY <1>0, <1>12, <2>1, <2>2 DEF Die, QueueSound, JobFacts, queueVars
  <2>4. mishaps' \in [Message -> Nat]
    <3>1. run[w].message \in Message
      BY <1>0, <1>12 DEF Die, QueueSound, JobFacts
    <3> QED
      BY <1>0, <1>12, <3>1, UnmarkedCounts DEF Die
  <2> QED
    BY <1>0, <1>12, <2>3, <2>4 DEF Die, Sound, InboundTypeOK, QueueSound
<1>13. ASSUME UNCHANGED inboundVars PROVE Sound'
  BY <1>13 DEF inboundVars, queueVars, Sound, InboundTypeOK, JobFacts
<1>14. ASSUME NEW w \in Attempt, Unheard(w) PROVE Sound'
  <2>1. run[w] \in Run /\ run[w].message \in Message
    BY <1>0, <1>14 DEF QueueSound, JobFacts, Unheard
  <2>2. QueueSound'
    <3>1. CASE run[w].pc \in {"claim", "release"}
      BY <1>14, <3>1, SettleSound DEF Unheard
    <3>2. CASE run[w].pc = "mark"
      <4>1. [run[w] EXCEPT !.pc = "release"] \in Run
        BY <2>1 DEF Run
      <4>2. run' = [run EXCEPT ![w] = [run[w] EXCEPT !.pc = "release"]] /\ UNCHANGED queueVars
        BY <1>14, <3>2 DEF Unheard
      <4>3. [run[w] EXCEPT !.pc = "release"].message = run[w].message
        BY <2>1 DEF Run
      <4> QED
        BY <3>2, <4>1, <4>2, <4>3, GoOnSound
    <3> QED
      BY <1>14, <3>1, <3>2 DEF Unheard
  <2>3. done' \in SUBSET Message /\ stranded' \in SUBSET Message
    BY <1>0, <1>14, <2>1 DEF Unheard
  <2>4. lock' \in [Message -> Attempt \cup {Nobody}]
    BY <1>0, <1>14 DEF Unheard
  <2>5. UNCHANGED <<handled, mishaps>>
    BY <1>14 DEF Unheard
  <2> QED
    BY <1>0, <2>2, <2>3, <2>4, <2>5 DEF Sound, InboundTypeOK, QueueSound
<1> QED
  BY <1>1, <1>2, <1>3, <1>4, <1>5, <1>6, <1>7, <1>8, <1>9, <1>10, <1>11, <1>12, <1>13, <1>14
     DEF InboundNext, Steps

----------------------------------------------------------------------------
(* HandledOnce, by counting what may still be handled. *)

\* The attempt may still come to handle m.
InboundOwes(w, m) ==
  /\ run[w].message = m
  /\ run[w].pc \in {"claim", "handle"} \/ (run[w].pc = "has" /\ m \notin done)

\* The attempt has handled m and has not written the marker.
Marking(w, m) == run[w].message = m /\ run[w].pc = "mark"

\* The job's own attempt is on its way, or m needs no other.
Answering(m) ==
  m \in done \/ \E w \in Attempt : owner[m] = w /\ (InboundOwes(w, m) \/ Marking(w, m))

InboundOwing(m) == {w \in Attempt : InboundOwes(w, m)}
InboundOnce(b) == IF b THEN 1 ELSE 0

InboundWithinBudget(m) == handled[m] + Cardinality(InboundOwing(m)) <= mishaps[m] + InboundOnce(Answering(m))
InboundBudget == \A m \in Message : InboundWithinBudget(m)

\* Attempts are countable.
LEMMA InboundOwingIsFinite ==
  ASSUME NEW m PROVE IsFiniteSet(InboundOwing(m)) /\ Cardinality(InboundOwing(m)) \in Nat
<1>1. InboundOwing(m) \in SUBSET Attempt
  BY DEF InboundOwing
<1> QED
  BY <1>1, InboundAssumption, FS_Subset, FS_CardinalityType

\* Two sets of which one has w and the other has not, the rest being the same.
LEMMA InboundOneApart ==
  ASSUME NEW S, NEW T, NEW w, IsFiniteSet(S), T \ {w} \subseteq S \ {w}
  PROVE  /\ Cardinality(S) \in Nat /\ Cardinality(T) \in Nat
         /\ Cardinality(T) + InboundOnce(w \in S) <= Cardinality(S) + InboundOnce(w \in T)
<1>1. /\ IsFiniteSet(S \ {w}) /\ Cardinality(S) \in Nat /\ Cardinality(S \ {w}) \in Nat
  BY FS_RemoveElement, FS_CardinalityType
<1>2. /\ IsFiniteSet(T \ {w}) /\ Cardinality(T \ {w}) \in Nat
      /\ Cardinality(T \ {w}) <= Cardinality(S \ {w})
  BY <1>1, FS_Subset, FS_CardinalityType
<1>3. Cardinality(S) = Cardinality(S \ {w}) + InboundOnce(w \in S)
  <2>1. CASE w \in S
    <3>1. S = (S \ {w}) \cup {w}
      BY <2>1
    <3> QED
      BY <1>1, <3>1, <2>1, FS_AddElement DEF InboundOnce
  <2>2. CASE w \notin S
    <3>1. S = S \ {w}
      BY <2>2
    <3> QED
      BY <1>1, <3>1, <2>2 DEF InboundOnce
  <2> QED
    BY <2>1, <2>2
<1>4. Cardinality(T) = Cardinality(T \ {w}) + InboundOnce(w \in T) /\ Cardinality(T) \in Nat
  <2>1. CASE w \in T
    <3>1. T = (T \ {w}) \cup {w}
      BY <2>1
    <3>2. Cardinality(T) = Cardinality(T \ {w}) + 1
      BY <1>2, <3>1, FS_AddElement
    <3>3. Cardinality(T) \in Nat
      BY <1>2, <3>2
    <3> QED
      BY <3>2, <3>3, <2>1 DEF InboundOnce
  <2>2. CASE w \notin T
    <3>1. T = T \ {w}
      BY <2>2
    <3>2. Cardinality(T) = Cardinality(T \ {w}) + 0 /\ Cardinality(T) \in Nat
      BY <1>2, <3>1
    <3> QED
      BY <3>2, <2>2 DEF InboundOnce
  <2> QED
    BY <2>1, <2>2
<1>5. InboundOnce(w \in S) \in {0, 1} /\ InboundOnce(w \in T) \in {0, 1}
  BY DEF InboundOnce
<1> QED
  BY <1>1, <1>2, <1>3, <1>4, <1>5

\* A step of one attempt keeps the budget of m when what it handles and takes on is
\* paid for by what it gives up, the mishaps it notes, and m being answered or not.
LEMMA InboundBudgetKept ==
  ASSUME Sound, Sound', NEW w \in Attempt, NEW m \in Message, InboundWithinBudget(m),
         \A v \in Attempt \ {w} : run'[v] = run[v], done \subseteq done',
         handled'[m] + InboundOnce(InboundOwes(w, m)') + mishaps[m] + InboundOnce(Answering(m))
           <= handled[m] + InboundOnce(InboundOwes(w, m)) + mishaps'[m] + InboundOnce(Answering(m)')
  PROVE  InboundWithinBudget(m)'
<1>1. handled[m] \in Nat /\ handled'[m] \in Nat /\ mishaps[m] \in Nat /\ mishaps'[m] \in Nat
  BY DEF Sound, InboundTypeOK
<1>2. \A v \in Attempt \ {w} : InboundOwes(v, m)' => InboundOwes(v, m)
  BY DEF InboundOwes
<1>3. InboundOwing(m)' \ {w} \subseteq InboundOwing(m) \ {w}
  BY <1>2 DEF InboundOwing
<1>4. InboundOnce(w \in InboundOwing(m)) = InboundOnce(InboundOwes(w, m)) /\ InboundOnce(w \in InboundOwing(m)') = InboundOnce(InboundOwes(w, m)')
  BY DEF InboundOwing, InboundOnce
<1>5. /\ Cardinality(InboundOwing(m)) \in Nat /\ Cardinality(InboundOwing(m)') \in Nat
      /\ Cardinality(InboundOwing(m)') + InboundOnce(InboundOwes(w, m)) <= Cardinality(InboundOwing(m)) + InboundOnce(InboundOwes(w, m)')
  BY <1>3, <1>4, InboundOwingIsFinite, InboundOneApart
<1>6. /\ InboundOnce(Answering(m)) \in {0, 1} /\ InboundOnce(Answering(m)') \in {0, 1}
      /\ InboundOnce(InboundOwes(w, m)) \in {0, 1} /\ InboundOnce(InboundOwes(w, m)') \in {0, 1}
  BY DEF InboundOnce
<1>7. handled[m] + Cardinality(InboundOwing(m)) <= mishaps[m] + InboundOnce(Answering(m))
  BY DEF InboundWithinBudget
<1>8. handled'[m] + Cardinality(InboundOwing(m)') <= mishaps'[m] + InboundOnce(Answering(m)')
  BY <1>1, <1>5, <1>6, <1>7
<1> QED
  BY <1>8 DEF InboundWithinBudget

\* Steps that leave the attempts and what they handled alone.
LEMMA InboundBudgetUntouched ==
  ASSUME Sound, InboundBudget, UNCHANGED <<run, done, owner, handled, mishaps>>
  PROVE  InboundBudget'
  BY DEF InboundBudget, InboundWithinBudget, InboundOwing, InboundOwes, Marking, Answering, InboundOnce

\* Whether m is being answered changes only where its attempt or its job does.
LEMMA StillAnswering ==
  ASSUME NEW w \in Attempt, NEW m \in Message, done \subseteq done',
         \A v \in Attempt \ {w} : run'[v] = run[v],
         owner'[m] = owner[m] \/ owner[m] = w
  PROVE  /\ ~InboundOwes(w, m) /\ ~Marking(w, m) => (Answering(m) => Answering(m)')
         /\ owner'[m] = owner[m] /\ (InboundOwes(w, m)' \/ Marking(w, m)')
              => (Answering(m) => Answering(m)')
<1>1. \A v \in Attempt \ {w} : m \in done' \/ (InboundOwes(v, m)' = InboundOwes(v, m) /\ Marking(v, m)' = Marking(v, m))
  BY DEF InboundOwes, Marking
<1> QED
  BY <1>1 DEF Answering

\* A step of one attempt that handles nothing: what it gives up of m it has owed or
\* noted as a mishap, or m stays answered.
LEMMA BudgetGivenUp ==
  ASSUME Sound, Sound', NEW w \in Attempt, NEW m \in Message, InboundWithinBudget(m),
         \A v \in Attempt \ {w} : run'[v] = run[v], done \subseteq done',
         owner'[m] = owner[m] \/ owner[m] = w,
         handled'[m] = handled[m],
         \/ InboundOwes(w, m) /\ ~InboundOwes(w, m)' /\ mishaps'[m] = mishaps[m]
         \/ ~InboundOwes(w, m) /\ ~InboundOwes(w, m)' /\ mishaps'[m] = mishaps[m] + 1
         \/ ~InboundOwes(w, m) /\ ~InboundOwes(w, m)' /\ ~Marking(w, m) /\ mishaps'[m] = mishaps[m]
  PROVE  InboundWithinBudget(m)'
<1>1. handled[m] \in Nat /\ mishaps[m] \in Nat
  BY DEF Sound, InboundTypeOK
<1>2. InboundOnce(Answering(m)) \in {0, 1} /\ InboundOnce(Answering(m)') \in {0, 1} /\ InboundOnce(InboundOwes(w, m)') = 0
  BY DEF InboundOnce
<1>3. handled'[m] + InboundOnce(InboundOwes(w, m)') + mishaps[m] + InboundOnce(Answering(m))
        <= handled[m] + InboundOnce(InboundOwes(w, m)) + mishaps'[m] + InboundOnce(Answering(m)')
  <2>1. CASE InboundOwes(w, m) /\ mishaps'[m] = mishaps[m]
    <3>1. InboundOnce(InboundOwes(w, m)) = 1 /\ mishaps'[m] = mishaps[m]
      BY <2>1 DEF InboundOnce
    <3> QED
      BY <1>1, <1>2, <3>1
  <2>2. CASE ~InboundOwes(w, m) /\ mishaps'[m] = mishaps[m] + 1
    <3>1. InboundOnce(InboundOwes(w, m)) = 0 /\ mishaps'[m] = mishaps[m] + 1
      BY <2>2 DEF InboundOnce
    <3> QED
      BY <1>1, <1>2, <3>1
  <2>3. CASE ~InboundOwes(w, m) /\ ~Marking(w, m) /\ mishaps'[m] = mishaps[m]
    <3>1. Answering(m) => Answering(m)'
      BY <2>3, StillAnswering
    <3>2. InboundOnce(Answering(m)) <= InboundOnce(Answering(m)')
      BY <1>2, <3>1 DEF InboundOnce
    <3>3. InboundOnce(InboundOwes(w, m)) = 0 /\ mishaps'[m] = mishaps[m]
      BY <2>3 DEF InboundOnce
    <3> QED
      BY <1>1, <1>2, <3>2, <3>3
  <2> QED
    BY <2>1, <2>2, <2>3
<1> QED
  BY <1>3, InboundBudgetKept

\* A step of one attempt that keeps what it owes of m, on the same job.
LEMMA BudgetGoesOn ==
  ASSUME Sound, Sound', NEW w \in Attempt, NEW m \in Message, InboundWithinBudget(m),
         \A v \in Attempt \ {w} : run'[v] = run[v], done \subseteq done',
         owner'[m] = owner[m], handled'[m] = handled[m], mishaps'[m] = mishaps[m],
         InboundOwes(w, m) /\ InboundOwes(w, m)'
  PROVE  InboundWithinBudget(m)'
<1>1. handled[m] \in Nat /\ mishaps[m] \in Nat
  BY DEF Sound, InboundTypeOK
<1>2. InboundOnce(InboundOwes(w, m)) = 1 /\ InboundOnce(InboundOwes(w, m)') = 1
  BY DEF InboundOnce
<1>3. Answering(m) => Answering(m)'
  BY StillAnswering
<1>4. /\ InboundOnce(Answering(m)) \in {0, 1} /\ InboundOnce(Answering(m)') \in {0, 1}
      /\ InboundOnce(Answering(m)) <= InboundOnce(Answering(m)')
  BY <1>3 DEF InboundOnce
<1>5. handled'[m] + InboundOnce(InboundOwes(w, m)') + mishaps[m] + InboundOnce(Answering(m))
        <= handled[m] + InboundOnce(InboundOwes(w, m)) + mishaps'[m] + InboundOnce(Answering(m)')
  <2>1. \A a, b, c, d \in Nat : c <= d => a + 1 + b + c <= a + 1 + b + d
    OBVIOUS
  <2>2. InboundOnce(Answering(m)) \in Nat /\ InboundOnce(Answering(m)') \in Nat
    BY <1>4
  <2>3. handled[m] + 1 + mishaps[m] + InboundOnce(Answering(m)) <= handled[m] + 1 + mishaps[m] + InboundOnce(Answering(m)')
    BY <1>1, <1>4, <2>1, <2>2
  <2> QED
    BY <1>2, <2>3
<1> QED
  BY <1>5, InboundBudgetKept

\* An attempt's step leaves the messages it has not in hand alone.
LEMMA OtherMessages ==
  ASSUME Sound, Sound', NEW w \in Attempt, NEW m \in Message, InboundWithinBudget(m),
         \A v \in Attempt \ {w} : run'[v] = run[v], done \subseteq done',
         owner'[m] = owner[m] \/ owner[m] = w,
         handled'[m] = handled[m], mishaps'[m] = mishaps[m],
         run[w].message # m, run'[w].message # m
  PROVE  InboundWithinBudget(m)'
<1>1. ~InboundOwes(w, m) /\ ~InboundOwes(w, m)' /\ ~Marking(w, m)
  BY DEF InboundOwes, Marking
<1> QED
  BY <1>1, BudgetGivenUp

\* What settling does to attempts and to the queue's locks.
LEMMA SettleFacts ==
  ASSUME Sound, NEW w \in Attempt, run[w].pc # "idle", NEW ok, Settle(w, ok)
  PROVE  /\ run[w].message \in Message /\ run'[w] = Resting
         /\ \A v \in Attempt \ {w} : run'[v] = run[v]
         /\ \A m \in Message : run'[w].message # m /\ ~InboundOwes(w, m)'
         /\ \A m \in Message : owner'[m] = owner[m] \/ owner[m] = w
<1>1. run[w].message \in Message /\ run \in [Attempt -> Run] /\ owner \in [Message -> Attempt \cup {Nobody}]
  BY DEF Sound, JobFacts, InboundTypeOK
<1>2. run' = [run EXCEPT ![w] = Resting]
  BY DEF Settle
<1>3. \/ owner' = owner
      \/ owner[run[w].message] = w /\ owner' = [owner EXCEPT ![run[w].message] = Nobody]
  BY DEF Settle
<1>4. Resting.message \notin Message
  BY InboundAssumption DEF Resting
<1> QED
  BY <1>1, <1>2, <1>3, <1>4 DEF InboundOwes

\* What going on does to attempts: the message stays in hand.
LEMMA GoOnFacts ==
  ASSUME Sound, NEW w \in Attempt, run[w].pc # "idle", NEW x \in Run,
         x.message = run[w].message, run' = [run EXCEPT ![w] = x]
  PROVE  /\ run[w].message \in Message /\ run'[w] = x
         /\ \A v \in Attempt \ {w} : run'[v] = run[v]
         /\ run'[w].message = run[w].message
  BY DEF Sound, JobFacts, InboundTypeOK

\* No step handles more than is paid for.
LEMMA InboundBudgetStep ==
  ASSUME Sound, Sound', InboundBudget, [InboundNext]_inboundVars
  PROVE  InboundBudget'
<1>0. /\ run \in [Attempt -> Run] /\ done \subseteq Message
      /\ handled \in [Message -> Nat] /\ mishaps \in [Message -> Nat]
      /\ owner \in [Message -> Attempt \cup {Nobody}]
  BY DEF Sound, InboundTypeOK
<1>1. ASSUME NEW m \in Message, Receive(m) PROVE InboundBudget'
  BY <1>1, InboundBudgetUntouched DEF Receive
<1>2. ASSUME NEW m \in Message, Forget(m) PROVE InboundBudget'
  BY <1>2, InboundBudgetUntouched DEF Forget
<1>3. ASSUME NEW n \in Message, Stall(n) PROVE InboundBudget'
  <2> SUFFICES ASSUME NEW m \in Message PROVE InboundWithinBudget(m)'
    BY DEF InboundBudget
  <2>1. handled[m] \in Nat /\ mishaps[m] \in Nat /\ InboundWithinBudget(m)
    BY <1>0 DEF InboundBudget
  <2>2. UNCHANGED <<run, done, handled>>
    BY <1>3 DEF Stall
  <2>3. InboundOwing(m)' = InboundOwing(m)
    BY <2>2 DEF InboundOwing, InboundOwes
  <2>4. CASE m # n
    <3>1. owner'[m] = owner[m] /\ mishaps'[m] = mishaps[m]
      BY <1>0, <1>3, <2>4 DEF Stall
    <3>2. Answering(m)' = Answering(m)
      BY <2>2, <3>1 DEF Answering, InboundOwes, Marking
    <3> QED
      BY <2>1, <2>2, <2>3, <3>1, <3>2 DEF InboundWithinBudget, InboundOnce
  <2>5. CASE m = n /\ AtWork(n)
    <3>1. mishaps'[m] = mishaps[m] + 1
      BY <1>0, <1>3, <2>5 DEF Stall
    <3>2. handled[m] + Cardinality(InboundOwing(m)) <= mishaps[m] + InboundOnce(Answering(m))
      BY <2>1 DEF InboundWithinBudget
    <3>3. InboundOnce(Answering(m)) \in {0, 1} /\ InboundOnce(Answering(m)') \in {0, 1}
      BY DEF InboundOnce
    <3>4. handled'[m] + Cardinality(InboundOwing(m)') <= mishaps'[m] + InboundOnce(Answering(m)')
      BY <2>1, <2>2, <2>3, <3>1, <3>2, <3>3, InboundOwingIsFinite
    <3> QED
      BY <3>4 DEF InboundWithinBudget
  <2>6. CASE m = n /\ ~AtWork(n)
    <3>1. mishaps'[m] = mishaps[m]
      BY <1>0, <1>3, <2>6 DEF Stall
    <3>2. \A v \in Attempt : ~InboundOwes(v, m) /\ ~Marking(v, m)
      BY <2>6 DEF AtWork, InboundOwes, Marking
    <3>3. \A v \in Attempt : ~InboundOwes(v, m)' /\ ~Marking(v, m)'
      BY <2>2, <3>2 DEF InboundOwes, Marking
    <3>4. Answering(m)' = Answering(m)
      BY <2>2, <3>2, <3>3 DEF Answering
    <3> QED
      BY <2>1, <2>2, <2>3, <3>1, <3>4 DEF InboundWithinBudget, InboundOnce
  <2> QED
    BY <2>4, <2>5, <2>6
<1>4. ASSUME NEW m \in Message, LockExpires(m) PROVE InboundBudget'
  BY <1>4, InboundBudgetUntouched DEF LockExpires, queueVars
<1>5. ASSUME NEW w \in Attempt, NEW n \in Message, Take(w, n) PROVE InboundBudget'
  <2> SUFFICES ASSUME NEW m \in Message PROVE InboundWithinBudget(m)'
    BY DEF InboundBudget
  <2>1. handled[m] \in Nat /\ mishaps[m] \in Nat /\ InboundWithinBudget(m)
    BY <1>0 DEF InboundBudget
  <2>2. /\ run[w].pc = "idle" /\ run'[w] = [pc |-> "has", message |-> n, ok |-> FALSE]
        /\ \A v \in Attempt \ {w} : run'[v] = run[v]
        /\ UNCHANGED <<done, handled, mishaps>>
    BY <1>0, <1>5 DEF Take
  <2>3. owner[n] = Nobody /\ owner'[n] = w /\ \A k \in Message \ {n} : owner'[k] = owner[k]
    BY <1>0, <1>5 DEF Take, Sound, JobFacts
  <2>4. ~InboundOwes(w, m) /\ ~Marking(w, m)
    BY <2>2 DEF InboundOwes, Marking
  <2>5. CASE m # n
    <3>1. ~InboundOwes(w, m)'
      BY <2>2, <2>5 DEF InboundOwes
    <3> QED
      BY <2>1, <2>2, <2>3, <2>4, <2>5, <3>1, BudgetGivenUp
  <2>6. CASE m = n
    <3>1. Answering(m)'
      BY <2>2, <2>3, <2>6 DEF Answering, InboundOwes
    <3>2. Answering(m) <=> m \in done
      BY <2>3, <2>6, InboundAssumption DEF Answering
    <3>3. InboundOwes(w, m)' <=> m \notin done
      BY <2>2, <2>6 DEF InboundOwes
    <3>4. InboundOnce(InboundOwes(w, m)') + InboundOnce(Answering(m)) = 1 /\ InboundOnce(Answering(m)') = 1 /\ InboundOnce(InboundOwes(w, m)) = 0
      BY <2>4, <3>1, <3>2, <3>3 DEF InboundOnce
    <3>5. InboundOnce(InboundOwes(w, m)') \in {0, 1} /\ InboundOnce(Answering(m)) \in {0, 1}
      BY DEF InboundOnce
    <3>6. handled'[m] = handled[m] /\ mishaps'[m] = mishaps[m]
      BY <2>2
    <3>7. handled'[m] + InboundOnce(InboundOwes(w, m)') + mishaps[m] + InboundOnce(Answering(m))
            <= handled[m] + InboundOnce(InboundOwes(w, m)) + mishaps'[m] + InboundOnce(Answering(m)')
      BY <2>1, <3>4, <3>5, <3>6
    <3> QED
      BY <2>1, <2>2, <3>7, InboundBudgetKept
  <2> QED
    BY <2>5, <2>6
<1>6. ASSUME NEW w \in Attempt, Has(w) PROVE InboundBudget'
  <2> SUFFICES ASSUME NEW m \in Message PROVE InboundWithinBudget(m)'
    BY DEF InboundBudget
  <2>1. InboundWithinBudget(m) /\ run[w].pc = "has" /\ UNCHANGED <<done, handled, mishaps>>
    BY <1>6 DEF InboundBudget, Has
  <2>2. CASE run[w].message \in done
    <3>1. Settle(w, TRUE)
      BY <1>6, <2>2 DEF Has
    <3>2. ~InboundOwes(w, m) /\ ~Marking(w, m)
      BY <2>1, <2>2 DEF InboundOwes, Marking
    <3> QED
      BY <2>1, <3>1, <3>2, SettleFacts, BudgetGivenUp
  <2>3. CASE run[w].message \notin done
    <3>1. [run[w] EXCEPT !.pc = "claim"] \in Run /\ [run[w] EXCEPT !.pc = "claim"].message = run[w].message
          /\ [run[w] EXCEPT !.pc = "claim"].pc = "claim"
      BY <1>0 DEF Run
    <3>2. run' = [run EXCEPT ![w] = [run[w] EXCEPT !.pc = "claim"]] /\ owner' = owner
      BY <1>0, <1>6, <2>3 DEF Has, queueVars
    <3>3. CASE run[w].message = m
      <4>1. InboundOwes(w, m) /\ InboundOwes(w, m)'
        BY <2>1, <2>3, <3>1, <3>2, <3>3, GoOnFacts DEF InboundOwes
      <4> QED
        BY <2>1, <3>1, <3>2, <4>1, GoOnFacts, BudgetGoesOn
    <3>4. CASE run[w].message # m
      BY <2>1, <3>1, <3>2, <3>4, GoOnFacts, OtherMessages
    <3> QED
      BY <3>3, <3>4
  <2> QED
    BY <2>2, <2>3
<1>7. ASSUME NEW w \in Attempt, Claim(w) PROVE InboundBudget'
  <2> SUFFICES ASSUME NEW m \in Message PROVE InboundWithinBudget(m)'
    BY DEF InboundBudget
  <2>1. InboundWithinBudget(m) /\ run[w].pc = "claim" /\ UNCHANGED <<done, handled, mishaps>>
    BY <1>7 DEF InboundBudget, Claim
  <2>2. CASE lock[run[w].message] # Nobody
    <3>1. Settle(w, TRUE)
      BY <1>7, <2>2 DEF Claim
    <3>2. CASE run[w].message = m
      <4>1. InboundOwes(w, m)
        BY <2>1, <3>2 DEF InboundOwes
      <4> QED
        BY <2>1, <3>1, <4>1, SettleFacts, BudgetGivenUp
    <3>3. CASE run[w].message # m
      BY <2>1, <3>1, <3>3, SettleFacts, OtherMessages
    <3> QED
      BY <3>2, <3>3
  <2>3. CASE lock[run[w].message] = Nobody
    <3>1. [run[w] EXCEPT !.pc = "handle"] \in Run /\ [run[w] EXCEPT !.pc = "handle"].message = run[w].message
          /\ [run[w] EXCEPT !.pc = "handle"].pc = "handle"
      BY <1>0 DEF Run
    <3>2. run' = [run EXCEPT ![w] = [run[w] EXCEPT !.pc = "handle"]] /\ owner' = owner
      BY <1>0, <1>7, <2>3 DEF Claim, queueVars
    <3>3. CASE run[w].message = m
      <4>1. InboundOwes(w, m) /\ InboundOwes(w, m)'
        BY <2>1, <3>1, <3>2, <3>3, GoOnFacts DEF InboundOwes
      <4> QED
        BY <2>1, <3>1, <3>2, <4>1, GoOnFacts, BudgetGoesOn
    <3>4. CASE run[w].message # m
      BY <2>1, <3>1, <3>2, <3>4, GoOnFacts, OtherMessages
    <3> QED
      BY <3>3, <3>4
  <2> QED
    BY <2>2, <2>3
<1>8. ASSUME NEW w \in Attempt, Handle(w) PROVE InboundBudget'
  <2> SUFFICES ASSUME NEW m \in Message PROVE InboundWithinBudget(m)'
    BY DEF InboundBudget
  <2>1. InboundWithinBudget(m) /\ run[w].pc = "handle" /\ UNCHANGED <<done, mishaps, owner>>
    BY <1>8 DEF InboundBudget, Handle, queueVars
  <2>2. [run[w] EXCEPT !.pc = "mark"] \in Run /\ [run[w] EXCEPT !.pc = "mark"].message = run[w].message
        /\ [run[w] EXCEPT !.pc = "mark"].pc = "mark"
    BY <1>0 DEF Run
  <2>3. run' = [run EXCEPT ![w] = [run[w] EXCEPT !.pc = "mark"]]
    BY <1>0, <1>8 DEF Handle
  <2>4. CASE run[w].message = m
    <3>1. handled[m] \in Nat /\ mishaps[m] \in Nat
      BY <1>0
    <3>2. handled'[m] = handled[m] + 1 /\ mishaps'[m] = mishaps[m]
      BY <1>0, <1>8, <2>4 DEF Handle
    <3>3. InboundOwes(w, m) /\ ~InboundOwes(w, m)' /\ Marking(w, m)'
      BY <2>1, <2>2, <2>3, <2>4, GoOnFacts DEF InboundOwes, Marking
    <3>4. Answering(m) => Answering(m)'
      BY <2>1, <2>2, <2>3, <3>3, GoOnFacts, StillAnswering
    <3>5. /\ InboundOnce(Answering(m)) \in {0, 1} /\ InboundOnce(Answering(m)') \in {0, 1}
          /\ InboundOnce(Answering(m)) <= InboundOnce(Answering(m)')
      BY <3>4 DEF InboundOnce
    <3>6. InboundOnce(InboundOwes(w, m)) = 1 /\ InboundOnce(InboundOwes(w, m)') = 0
      BY <3>3 DEF InboundOnce
    <3>7. handled'[m] + InboundOnce(InboundOwes(w, m)') + mishaps[m] + InboundOnce(Answering(m))
            <= handled[m] + InboundOnce(InboundOwes(w, m)) + mishaps'[m] + InboundOnce(Answering(m)')
      BY <3>1, <3>2, <3>5, <3>6
    <3> QED
      BY <2>1, <2>2, <2>3, <3>7, GoOnFacts, InboundBudgetKept
  <2>5. CASE run[w].message # m
    <3>1. handled'[m] = handled[m]
      BY <1>0, <1>8, <2>5 DEF Handle
    <3> QED
      BY <2>1, <2>2, <2>3, <2>5, <3>1, GoOnFacts, OtherMessages
  <2> QED
    BY <2>4, <2>5
<1>9. ASSUME NEW w \in Attempt, Mark(w) PROVE InboundBudget'
  <2> SUFFICES ASSUME NEW m \in Message PROVE InboundWithinBudget(m)'
    BY DEF InboundBudget
  <2>1. /\ InboundWithinBudget(m) /\ run[w].pc = "mark" /\ UNCHANGED <<handled, mishaps, owner>>
        /\ done' = done \cup {run[w].message}
    BY <1>9 DEF InboundBudget, Mark, queueVars
  <2>2. [run[w] EXCEPT !.pc = "release", !.ok = TRUE] \in Run
        /\ [run[w] EXCEPT !.pc = "release", !.ok = TRUE].message = run[w].message
        /\ [run[w] EXCEPT !.pc = "release", !.ok = TRUE].pc = "release"
    BY <1>0 DEF Run
  <2>3. run' = [run EXCEPT ![w] = [run[w] EXCEPT !.pc = "release", !.ok = TRUE]]
    BY <1>0, <1>9 DEF Mark
  <2>4. CASE run[w].message = m
    <3>1. handled[m] \in Nat /\ mishaps[m] \in Nat /\ handled'[m] = handled[m] /\ mishaps'[m] = mishaps[m]
      BY <1>0, <2>1
    <3>2. ~InboundOwes(w, m) /\ ~InboundOwes(w, m)' /\ Answering(m)'
      BY <2>1, <2>2, <2>3, <2>4, GoOnFacts DEF InboundOwes, Answering
    <3>3. InboundOnce(InboundOwes(w, m)) = 0 /\ InboundOnce(InboundOwes(w, m)') = 0 /\ InboundOnce(Answering(m)') = 1 /\ InboundOnce(Answering(m)) \in {0, 1}
      BY <3>2 DEF InboundOnce
    <3>4. handled'[m] + InboundOnce(InboundOwes(w, m)') + mishaps[m] + InboundOnce(Answering(m))
            <= handled[m] + InboundOnce(InboundOwes(w, m)) + mishaps'[m] + InboundOnce(Answering(m)')
      BY <3>1, <3>3
    <3> QED
      BY <2>1, <2>2, <2>3, <3>4, GoOnFacts, InboundBudgetKept
  <2>5. CASE run[w].message # m
    BY <2>1, <2>2, <2>3, <2>5, GoOnFacts, OtherMessages
  <2> QED
    BY <2>4, <2>5
<1>10. ASSUME NEW w \in Attempt, Throw(w) PROVE InboundBudget'
  <2> SUFFICES ASSUME NEW m \in Message PROVE InboundWithinBudget(m)'
    BY DEF InboundBudget
  <2>1. InboundWithinBudget(m) /\ run[w].pc # "idle" /\ UNCHANGED <<done, handled>> /\ run[w].message \in Message
    BY <1>10 DEF InboundBudget, Throw, Sound, JobFacts
  <2>2. mishaps' = [mishaps EXCEPT ![run[w].message] = IF run[w].pc = "mark" THEN @ + 1 ELSE @]
    BY <1>10 DEF Throw, Unmarked
  <2>3. CASE run[w].pc \in {"has", "claim", "release"}
    <3>1. Settle(w, FALSE)
      BY <1>10, <2>3 DEF Throw
    <3>2. mishaps'[m] = mishaps[m]
      BY <1>0, <2>2, <2>3
    <3>3. ~Marking(w, m)
      BY <2>3 DEF Marking
    <3> QED
      BY ZenonT(60), <2>1, <3>1, <3>2, <3>3, SettleFacts, BudgetGivenUp
  <2>4. CASE run[w].pc \in {"handle", "mark"}
    <3>1. [run[w] EXCEPT !.pc = "release"] \in Run /\ [run[w] EXCEPT !.pc = "release"].message = run[w].message
          /\ [run[w] EXCEPT !.pc = "release"].pc = "release"
      BY <1>0 DEF Run
    <3>2. run' = [run EXCEPT ![w] = [run[w] EXCEPT !.pc = "release"]] /\ owner' = owner
      BY <1>0, <1>10, <2>4 DEF Throw, queueVars
    <3>3. ~InboundOwes(w, m)'
      BY <2>1, <3>1, <3>2, GoOnFacts DEF InboundOwes
    <3>4. CASE run[w].message = m /\ run[w].pc = "mark"
      <4>1. mishaps'[m] = mishaps[m] + 1 /\ ~InboundOwes(w, m)
        BY <1>0, <2>2, <3>4 DEF InboundOwes
      <4> QED
        BY <2>1, <3>1, <3>2, <3>3, <4>1, GoOnFacts, BudgetGivenUp
    <3>5. CASE run[w].message = m /\ run[w].pc = "handle"
      <4>1. mishaps'[m] = mishaps[m] /\ InboundOwes(w, m)
        BY <1>0, <2>2, <3>5 DEF InboundOwes
      <4> QED
        BY <2>1, <3>1, <3>2, <3>3, <4>1, GoOnFacts, BudgetGivenUp
    <3>6. CASE run[w].message # m
      <4>1. mishaps'[m] = mishaps[m]
        BY <1>0, <2>2, <3>6
      <4> QED
        BY <2>1, <3>1, <3>2, <3>6, <4>1, GoOnFacts, OtherMessages
    <3> QED
      BY <2>4, <3>4, <3>5, <3>6
  <2> QED
    BY <1>10, <2>3, <2>4 DEF Throw
<1>11. ASSUME NEW w \in Attempt, Release(w) PROVE InboundBudget'
  <2> SUFFICES ASSUME NEW m \in Message PROVE InboundWithinBudget(m)'
    BY DEF InboundBudget
  <2>1. InboundWithinBudget(m) /\ run[w].pc = "release" /\ UNCHANGED <<done, handled, mishaps>> /\ Settle(w, run[w].ok)
    BY <1>11 DEF InboundBudget, Release
  <2>2. ~InboundOwes(w, m) /\ ~Marking(w, m)
    BY <2>1 DEF InboundOwes, Marking
  <2> QED
    BY <2>1, <2>2, SettleFacts, BudgetGivenUp
<1>12. ASSUME NEW w \in Attempt, Die(w) PROVE InboundBudget'
  <2> SUFFICES ASSUME NEW m \in Message PROVE InboundWithinBudget(m)'
    BY DEF InboundBudget
  <2>1. InboundWithinBudget(m) /\ run[w].pc # "idle" /\ UNCHANGED <<done, handled, owner>> /\ run[w].message \in Message
    BY <1>12 DEF InboundBudget, Die, queueVars, Sound, JobFacts
  <2>2. mishaps' = [mishaps EXCEPT ![run[w].message] = IF run[w].pc = "mark" THEN @ + 1 ELSE @]
    BY <1>12 DEF Die, Unmarked
  <2>3. run'[w] = Resting /\ \A v \in Attempt \ {w} : run'[v] = run[v]
    BY <1>0, <1>12 DEF Die
  <2>4. ~InboundOwes(w, m)'
    BY <2>3 DEF InboundOwes, Resting
  <2>5. CASE run[w].message = m /\ run[w].pc = "mark"
    <3>1. mishaps'[m] = mishaps[m] + 1 /\ ~InboundOwes(w, m)
      BY <1>0, <2>2, <2>5 DEF InboundOwes
    <3> QED
      BY <2>1, <2>3, <2>4, <3>1, BudgetGivenUp
  <2>6. CASE run[w].message # m \/ run[w].pc # "mark"
    <3>1. mishaps'[m] = mishaps[m] /\ ~Marking(w, m)
      BY <1>0, <2>2, <2>6 DEF Marking
    <3> QED
      BY <2>1, <2>3, <2>4, <3>1, BudgetGivenUp
  <2> QED
    BY <2>5, <2>6
<1>13. ASSUME UNCHANGED inboundVars PROVE InboundBudget'
  BY <1>13, InboundBudgetUntouched DEF inboundVars, queueVars
<1>14. ASSUME NEW w \in Attempt, Unheard(w) PROVE InboundBudget'
  <2> SUFFICES ASSUME NEW m \in Message PROVE InboundWithinBudget(m)'
    BY DEF InboundBudget
  <2>1. InboundWithinBudget(m) /\ run[w].pc # "idle" /\ UNCHANGED <<handled, mishaps>>
    BY <1>14 DEF InboundBudget, Unheard
  <2>2. CASE run[w].pc \in {"claim", "release"}
    <3>1. Settle(w, FALSE) /\ done' = done
      BY <1>14, <2>2 DEF Unheard
    <3>2. ~Marking(w, m)
      BY <2>2 DEF Marking
    <3> QED
      BY ZenonT(60), <2>1, <3>1, <3>2, SettleFacts, BudgetGivenUp
  <2>3. CASE run[w].pc = "mark"
    <3>1. [run[w] EXCEPT !.pc = "release"] \in Run /\ [run[w] EXCEPT !.pc = "release"].message = run[w].message
          /\ [run[w] EXCEPT !.pc = "release"].pc = "release"
      BY <1>0 DEF Run
    <3>2. run' = [run EXCEPT ![w] = [run[w] EXCEPT !.pc = "release"]] /\ owner' = owner
          /\ done' = done \cup {run[w].message}
      BY <1>0, <1>14, <2>3 DEF Unheard, queueVars
    <3>3. CASE run[w].message = m
      <4>1. handled[m] \in Nat /\ mishaps[m] \in Nat /\ handled'[m] = handled[m] /\ mishaps'[m] = mishaps[m]
        BY <1>0, <2>1
      <4>2. ~InboundOwes(w, m) /\ ~InboundOwes(w, m)' /\ Answering(m)'
        BY <2>1, <2>3, <3>1, <3>2, <3>3, GoOnFacts DEF InboundOwes, Answering
      <4>3. InboundOnce(InboundOwes(w, m)) = 0 /\ InboundOnce(InboundOwes(w, m)') = 0 /\ InboundOnce(Answering(m)') = 1 /\ InboundOnce(Answering(m)) \in {0, 1}
        BY <4>2 DEF InboundOnce
      <4>4. handled'[m] + InboundOnce(InboundOwes(w, m)') + mishaps[m] + InboundOnce(Answering(m))
              <= handled[m] + InboundOnce(InboundOwes(w, m)) + mishaps'[m] + InboundOnce(Answering(m)')
        BY <4>1, <4>3
      <4> QED
        BY <2>1, <3>1, <3>2, <4>4, GoOnFacts, InboundBudgetKept
    <3>4. CASE run[w].message # m
      BY <2>1, <3>1, <3>2, <3>4, GoOnFacts, OtherMessages
    <3> QED
      BY <3>3, <3>4
  <2> QED
    BY <1>14, <2>2, <2>3 DEF Unheard
<1> QED
  BY <1>1, <1>2, <1>3, <1>4, <1>5, <1>6, <1>7, <1>8, <1>9, <1>10, <1>11, <1>12, <1>13, <1>14
     DEF InboundNext, Steps

----------------------------------------------------------------------------
InboundInv == Sound /\ InboundBudget

\* Nothing has been handled before the first message comes.
LEMMA InitInbound == InboundInit => InboundInv
<1> SUFFICES ASSUME InboundInit PROVE InboundInv
  OBVIOUS
<1>1. run \in [Attempt -> Run] /\ \A w \in Attempt : run[w].pc = "idle"
  BY DEF InboundInit, Run, Resting
<1>2. Sound
  BY <1>1, InboundAssumption DEF InboundInit, Sound, InboundTypeOK, JobFacts
<1>3. InboundBudget
  <2> SUFFICES ASSUME NEW m \in Message PROVE InboundWithinBudget(m)
    BY DEF InboundBudget
  <2>1. InboundOwing(m) = {}
    BY <1>1 DEF InboundOwing, InboundOwes
  <2>2. Cardinality(InboundOwing(m)) = 0
    BY <2>1, FS_EmptySet
  <2>3. handled[m] = 0 /\ mishaps[m] = 0
    BY DEF InboundInit
  <2> QED
    BY <2>2, <2>3 DEF InboundWithinBudget, InboundOnce
<1> QED
  BY <1>2, <1>3 DEF InboundInv

\* The inductive invariant holds whatever is delivered again, lost, stalled and thrown.
THEOREM InboundInvariance == InboundSpec => []InboundInv
<1>1. InboundInit => InboundInv
  BY InitInbound
<1>2. InboundInv /\ [InboundNext]_inboundVars => InboundInv'
  BY SoundStep, InboundBudgetStep DEF InboundInv
<1> QED
  BY <1>1, <1>2, PTL DEF InboundSpec

\* Jobs, keys and attempts keep the values of the queue and of Redis.
THEOREM InboundTypes == InboundSpec => []InboundTypeOK
<1>1. InboundInv => InboundTypeOK
  BY DEF InboundInv, Sound
<1> QED
  BY <1>1, InboundInvariance, PTL

\* However often a message is delivered and its job tried, however many attempts run
\* at once and whenever the lock expires, the bot handles it again only after an
\* attempt that ended unmarked or a stall of one still at work (process).
THEOREM MessagesHandledOnce == InboundSpec => []HandledOnce
<1>1. InboundInv => HandledOnce
  <2> SUFFICES ASSUME InboundInv, NEW m \in Message PROVE handled[m] <= 1 + mishaps[m]
    BY DEF HandledOnce
  <2>1. handled[m] \in Nat /\ mishaps[m] \in Nat /\ InboundWithinBudget(m)
    BY DEF InboundInv, Sound, InboundTypeOK, InboundBudget
  <2>2. InboundOnce(Answering(m)) \in {0, 1}
    BY DEF InboundOnce
  <2> QED
    BY <2>1, <2>2, InboundOwingIsFinite DEF InboundWithinBudget
<1> QED
  BY <1>1, InboundInvariance, PTL

----------------------------------------------------------------------------
(* Broadcasts. *)

\* Any of the recipients can be counted.
LEMMA CardNat == ASSUME NEW S \in SUBSET Recipient PROVE Cardinality(S) \in Nat
  BY BroadcastAssumption, FS_Subset, FS_CardinalityType

\* One more for some, a number each as before.
LEMMA MoreIsNat ==
  ASSUME NEW f \in [Recipient -> Nat], NEW S, NEW n \in Nat PROVE More(f, S, n) \in [Recipient -> Nat]
  BY DEF More

\* A worker's record replaced by another.
LEMMA WorkMoves ==
  ASSUME work \in [Worker -> Work], NEW w \in Worker, NEW x \in Work,
         work' = [work EXCEPT ![w] = x]
  PROVE  work' \in [Worker -> Work]
  OBVIOUS

\* A worker's record as its steps change it.
LEMMA WorkKeepsShape ==
  ASSUME NEW x \in Work, NEW n \in Nat, NEW S \in SUBSET Recipient, NEW b \in BOOLEAN,
         NEW k \in BOOLEAN, NEW l \in {"mark", "page", "deliver", "count", "next", "finish", "ack"}
  PROVE  /\ [x EXCEPT !.pc = l] \in Work
         /\ [x EXCEPT !.pc = l, !.failed = b] \in Work
         /\ [x EXCEPT !.pc = l, !.todo = S, !.next = n] \in Work
         /\ [x EXCEPT !.pc = "row", !.item = S, !.failed = b, !.caught = k] \in Work
         /\ [x EXCEPT !.pc = l, !.todo = S, !.item = {}, !.failed = FALSE, !.caught = FALSE] \in Work
         /\ [x EXCEPT !.pc = "row", !.failed = TRUE, !.caught = TRUE] \in Work
<1>1. [x EXCEPT !.pc = l] \in Work
  BY DEF Work
<1>2. [x EXCEPT !.pc = l, !.failed = b] \in Work
  BY DEF Work
<1>3. [x EXCEPT !.pc = l, !.todo = S, !.next = n] \in Work
  BY DEF Work
<1>4. [x EXCEPT !.pc = "row", !.item = S, !.failed = b, !.caught = k] \in Work
  BY DEF Work
<1>5. [x EXCEPT !.pc = l, !.todo = S, !.item = {}, !.failed = FALSE, !.caught = FALSE] \in Work
  BY DEF Work
<1>6. [x EXCEPT !.pc = "row", !.failed = TRUE, !.caught = TRUE] \in Work
  BY DEF Work
<1> QED
  BY <1>1, <1>2, <1>3, <1>4, <1>5, <1>6

\* A worker that goes on with the same job.
LEMMA StepKeepsShape ==
  ASSUME work \in [Worker -> Work], NEW w \in Worker,
         NEW l \in {"mark", "page", "deliver", "count", "next", "finish", "ack"}, Step(w, l)
  PROVE  work' \in [Worker -> Work]
<1>1. [work[w] EXCEPT !.pc = l] \in Work
  BY WorkKeepsShape
<1> QED
  BY <1>1 DEF Step

\* The records of a worker that has nothing to do or takes a job.
LEMMA NoWorkIsWork ==
  /\ NoWork \in Work
  /\ \A j \in Job : [NoWork EXCEPT !.pc = "load", !.job = j] \in Work
<1>1. NoJob \in Job
  BY BroadcastAssumption DEF NoJob, Job
<1>2. NoWork \in Work
  BY <1>1 DEF NoWork, Work
<1>3. ASSUME NEW j \in Job PROVE [NoWork EXCEPT !.pc = "load", !.job = j] \in Work
  BY <1>2 DEF Work
<1> QED
  BY <1>2, <1>3

\* Every step keeps rows, counters, jobs and calls in their types.
LEMMA TypeStep ==
  ASSUME CastTypeOK, [CastNext]_castVars
  PROVE  CastTypeOK'
<1> USE BroadcastAssumption DEF CastTypeOK, CastStatus, AdminCall, NoCall, counters, queue, record, More
<1>1. ASSUME NEW c \in Admin, LoadSend(c) PROVE CastTypeOK'
  BY <1>1 DEF LoadSend
<1>2. ASSUME NEW c \in Admin, LoadRetry(c) PROVE CastTypeOK'
  BY <1>2 DEF LoadRetry
<1>3. ASSUME NEW c \in Admin, LoadCancel(c) PROVE CastTypeOK'
  BY <1>3 DEF LoadCancel, Then
<1>4. ASSUME NEW c \in Admin, Snapshot(c) PROVE CastTypeOK'
  BY <1>4 DEF Snapshot, Then
<1>5. ASSUME NEW c \in Admin, StartRun(c) PROVE CastTypeOK'
  BY <1>5 DEF StartRun, Then
<1>6. ASSUME NEW c \in Admin, EnqueueRun(c) PROVE CastTypeOK'
  <2>1. admin[c].run \in 0 .. MaxRuns
    OBVIOUS
  <2>2. waiting' \in SUBSET Job /\ known' \in SUBSET ((0 .. MaxRuns) \X Nat)
    BY <1>6, <2>1 DEF EnqueueRun, Enqueue, Job
  <2>3. admin' \in [Admin -> AdminCall]
    BY <1>6 DEF EnqueueRun, Leave
  <2> QED
    BY <1>6, <2>2, <2>3 DEF EnqueueRun
<1>7. ASSUME NEW c \in Admin, ResetFailed(c) PROVE CastTypeOK'
  BY <1>7 DEF ResetFailed, Then
<1>8. ASSUME NEW c \in Admin, Recount(c) PROVE CastTypeOK'
  <2>1. Cardinality(Rows("FAILED")) \in Nat
    BY CardNat DEF Rows
  <2>2. admin' \in [Admin -> AdminCall]
    BY <1>8, <2>1 DEF Recount
  <2> QED
    BY <1>8, <2>2 DEF Recount
<1>9. ASSUME NEW c \in Admin, RestartRun(c) PROVE CastTypeOK'
  BY <1>9 DEF RestartRun, Then
<1>10. ASSUME NEW c \in Admin, WriteCancel(c) PROVE CastTypeOK'
  BY <1>10 DEF WriteCancel, Leave
<1>11. ASSUME NEW c \in Admin, CallDies(c) PROVE CastTypeOK'
  BY <1>11 DEF CallDies, Leave
<1>12. ASSUME NEW w \in Worker, NEW j \in waiting, TakeJob(w, j) PROVE CastTypeOK'
  <2>1. [NoWork EXCEPT !.pc = "load", !.job = j] \in Work
    BY NoWorkIsWork
  <2>2. work' \in [Worker -> Work]
    BY <1>12, <2>1, WorkMoves DEF TakeJob
  <2> QED
    BY <1>12, <2>2 DEF TakeJob
<1>13. ASSUME NEW w \in Worker, ReadStatus(w) PROVE CastTypeOK'
  <2>1. PICK l \in {"ack", "mark", "page"} : Step(w, l)
    BY <1>13 DEF ReadStatus
  <2>2. work' \in [Worker -> Work]
    BY <2>1, StepKeepsShape
  <2> QED
    BY <1>13, <2>2 DEF ReadStatus
<1>14. ASSUME NEW w \in Worker, MarkSending(w) PROVE CastTypeOK'
  <2>1. work' \in [Worker -> Work]
    BY <1>14, StepKeepsShape DEF MarkSending
  <2> QED
    BY <1>14, <2>1 DEF MarkSending
<1>15. ASSUME NEW w \in Worker, TakePage(w) PROVE CastTypeOK'
  <2>1. PICK S \in SUBSET Rows("PENDING") :
          /\ work' = [work EXCEPT ![w].pc = "deliver", ![w].todo = S,
                        ![w].next = work[w].job.cursor + Cardinality(S)]
          /\ repeats' = More(repeats, {r \in S : \E v \in Worker \ {w} : r \in work[v].todo}, 1)
          /\ drift' = (drift \/ {r \in S : \E v \in Worker \ {w} : r \in work[v].todo} # {})
    BY <1>15 DEF TakePage
  <2>2. S \subseteq Recipient
    BY DEF Rows
  <2>3. work[w].job.cursor + Cardinality(S) \in Nat
    BY <2>2, CardNat DEF Work, Job
  <2>4. work' \in [Worker -> Work]
    BY <2>1, <2>2, <2>3, WorkKeepsShape
  <2>5. repeats' \in [Recipient -> Nat] /\ drift' \in BOOLEAN
    BY <2>1, MoreIsNat
  <2> QED
    BY <1>15, <2>4, <2>5 DEF TakePage
<1>16. ASSUME NEW w \in Worker, LastPage(w) PROVE CastTypeOK'
  <2>1. PICK b \in BOOLEAN : b = (sentCount = 0 /\ failedCount > 0)
    OBVIOUS
  <2>2. work' = [work EXCEPT ![w].pc = "finish", ![w].failed = b]
    BY <1>16, <2>1 DEF LastPage
  <2>3. work' \in [Worker -> Work]
    BY <2>2, WorkKeepsShape
  <2> QED
    BY <1>16, <2>3 DEF LastPage
<1>17. ASSUME NEW w \in Worker, NEW S \in SUBSET Recipient, NEW left \in 0 .. 2,
             NEW sent \in BOOLEAN, NEW caught \in BOOLEAN, Deliver(w, S, left, sent, caught)
      PROVE  CastTypeOK'
  <2>1. PICK b \in BOOLEAN : b = ~sent
    OBVIOUS
  <2>2. work' = [work EXCEPT ![w].pc = "row", ![w].item = S, ![w].failed = b, ![w].caught = caught]
    BY <1>17, <2>1 DEF Deliver
  <2>3. [work[w] EXCEPT !.pc = "row", !.item = S, !.failed = b, !.caught = caught] \in Work
    BY WorkKeepsShape, 0 \in Nat
  <2>4. work' \in [Worker -> Work]
    BY <2>2, <2>3
  <2>5. left \in Nat /\ (IF sent THEN left - 1 ELSE left) \in Nat
    BY <1>17 DEF Deliver
  <2>6. messages' \in [Recipient -> Nat]
    BY <1>17, <2>5, MoreIsNat DEF Deliver
  <2>7. repeats' \in [Recipient -> Nat]
    BY <1>17, <2>5, MoreIsNat DEF Deliver
  <2>8. faults' \in 0 .. MaxFaults
    BY <1>17 DEF Deliver
  <2> QED
    BY <1>17, <2>4, <2>6, <2>7, <2>8 DEF Deliver
<1>26. ASSUME NEW w \in Worker, NEW s \in Recipient, Skip(w, s)
      PROVE  CastTypeOK'
  <2>0. PICK b \in BOOLEAN : b = TRUE
    OBVIOUS
  <2>1. work' = [work EXCEPT ![w].pc = "row", ![w].item = {s}, ![w].failed = b, ![w].caught = b]
    BY <1>26, <2>0 DEF Skip
  <2>2. [work[w] EXCEPT !.pc = "row", !.item = {s}, !.failed = b, !.caught = b] \in Work
    <3>1. {s} \in SUBSET Recipient
      OBVIOUS
    <3> QED
      BY <3>1, WorkKeepsShape, 0 \in Nat
  <2>3. work' \in [Worker -> Work]
    BY <2>1, <2>2
  <2> QED
    BY <1>26, <2>3 DEF Skip
<1>18. ASSUME NEW w \in Worker, SettleRow(w) PROVE CastTypeOK'
  <2>1. row' \in [Recipient -> {"NONE", "PENDING", "SENT", "FAILED"}]
    BY <1>18 DEF SettleRow
  <2>2. work' \in [Worker -> Work]
    BY <1>18, StepKeepsShape DEF SettleRow
  <2>3. drift' \in BOOLEAN
    BY <1>18 DEF SettleRow
  <2> QED
    BY <1>18, <2>1, <2>2, <2>3 DEF SettleRow
<1>19. ASSUME NEW w \in Worker, SettleCount(w) PROVE CastTypeOK'
  <2>1. Cardinality(work[w].item) \in Nat /\ work[w].todo \in SUBSET Recipient
    BY CardNat DEF Work
  <2>2. PICK l \in {"next", "deliver"} :
          l = IF work[w].todo \ work[w].item = {} THEN "next" ELSE "deliver"
    OBVIOUS
  <2>3. work' = [work EXCEPT ![w].pc = l, ![w].todo = work[w].todo \ work[w].item,
                   ![w].item = {}, ![w].failed = FALSE, ![w].caught = FALSE]
    BY <1>19, <2>2 DEF SettleCount
  <2>4. [work[w] EXCEPT !.pc = l, !.todo = work[w].todo \ work[w].item,
           !.item = {}, !.failed = FALSE, !.caught = FALSE] \in Work
    BY <2>1, WorkKeepsShape, 0 \in Nat
  <2>5. work' \in [Worker -> Work]
    BY <2>3, <2>4
  <2>6. sentCount' \in Nat /\ failedCount' \in Nat
    <3>1. \/ failedCount' = failedCount + Cardinality(work[w].item) /\ sentCount' = sentCount
          \/ sentCount' = sentCount + Cardinality(work[w].item) /\ failedCount' = failedCount
      BY <1>19, Zenon DEF SettleCount
    <3> QED
      BY <3>1, <2>1
  <2>7. drift' \in BOOLEAN
    BY <1>19 DEF SettleCount
  <2> QED
    BY <1>19, <2>5, <2>6, <2>7 DEF SettleCount
<1>20. ASSUME NEW w \in Worker, NextPage(w) PROVE CastTypeOK'
  <2>1. work[w].job.run \in 0 .. MaxRuns /\ work[w].next \in Nat
    BY DEF Work, Job
  <2>2. waiting' \in SUBSET Job /\ known' \in SUBSET ((0 .. MaxRuns) \X Nat)
    BY <1>20, <2>1 DEF NextPage, Enqueue, Job
  <2>3. work' \in [Worker -> Work]
    BY <1>20, StepKeepsShape DEF NextPage
  <2> QED
    BY <1>20, <2>2, <2>3 DEF NextPage
<1>21. ASSUME NEW w \in Worker, Finish(w) PROVE CastTypeOK'
  <2>1. work' \in [Worker -> Work]
    BY <1>21, StepKeepsShape DEF Finish
  <2> QED
    BY <1>21, <2>1 DEF Finish
<1>22. ASSUME NEW w \in Worker, Complete(w) PROVE CastTypeOK'
  <2>1. work' \in [Worker -> Work]
    BY <1>22, NoWorkIsWork DEF Complete
  <2> QED
    BY <1>22, <2>1 DEF Complete
<1>23. ASSUME NEW w \in Worker, SettleFails(w) PROVE CastTypeOK'
  <2>1. work' \in [Worker -> Work]
    BY <1>23, WorkKeepsShape DEF SettleFails
  <2>2. repeats' \in [Recipient -> Nat]
    BY <1>23, MoreIsNat DEF SettleFails
  <2> QED
    BY <1>23, <2>1, <2>2 DEF SettleFails
<1>24. ASSUME NEW w \in Worker, WorkerFails(w) PROVE CastTypeOK'
  <2>1. [work[w].job EXCEPT !.tries = @ + 1] \in Job
    BY DEF Work, Job
  <2>2. waiting' \in SUBSET Job /\ lost' \in BOOLEAN
    BY <1>24, <2>1 DEF WorkerFails
  <2>3. NoWork \in Work
    BY NoWorkIsWork
  <2>4. work' \in [Worker -> Work]
    BY <1>24, <2>3, WorkMoves DEF WorkerFails
  <2>5. repeats' \in [Recipient -> Nat] /\ drift' \in BOOLEAN
    BY <1>24, MoreIsNat DEF WorkerFails
  <2> QED
    BY <1>24, <2>2, <2>4, <2>5 DEF WorkerFails
<1>25. ASSUME UNCHANGED castVars PROVE CastTypeOK'
  BY <1>25 DEF castVars
<1> HIDE DEF CastTypeOK, More
<1> QED
  BY <1>1, <1>2, <1>3, <1>4, <1>5, <1>6, <1>7, <1>8, <1>9, <1>10, <1>11,
     <1>12, <1>13, <1>14, <1>15, <1>16, <1>17, <1>18, <1>19, <1>20, <1>21,
     <1>22, <1>23, <1>24, <1>25, <1>26
     DEF CastNext, CallSteps, WorkSteps

\* The rows a worker settles are of its page, which it has only between reading and
\* leaving it.
PageFacts ==
  \A w \in Worker :
    /\ work[w].item \subseteq work[w].todo
    /\ work[w].pc \notin {"deliver", "row", "count"} => work[w].todo = {}
    /\ work[w].pc \notin {"row", "count"} => work[w].item = {}

\* A worker's record is replaced, the others keep theirs.
LEMMA PageFactsKept ==
  ASSUME PageFacts, NEW w \in Worker,
         \A v \in Worker \ {w} : work'[v] = work[v],
         work'[w].item \subseteq work'[w].todo,
         work'[w].pc \notin {"deliver", "row", "count"} => work'[w].todo = {},
         work'[w].pc \notin {"row", "count"} => work'[w].item = {}
  PROVE  PageFacts'
  BY DEF PageFacts

\* Every step keeps what a page's worker holds consistent.
LEMMA PageStep ==
  ASSUME CastTypeOK, PageFacts, [CastNext]_castVars
  PROVE  PageFacts'
<1> USE DEF CastTypeOK
<1>1. ASSUME NEW c \in Admin, LoadSend(c) PROVE PageFacts'
  BY <1>1 DEF LoadSend, PageFacts
<1>2. ASSUME NEW c \in Admin, LoadRetry(c) PROVE PageFacts'
  BY <1>2 DEF LoadRetry, PageFacts
<1>3. ASSUME NEW c \in Admin, LoadCancel(c) PROVE PageFacts'
  BY <1>3 DEF LoadCancel, PageFacts
<1>4. ASSUME NEW c \in Admin, Snapshot(c) PROVE PageFacts'
  BY <1>4 DEF Snapshot, PageFacts
<1>5. ASSUME NEW c \in Admin, StartRun(c) PROVE PageFacts'
  BY <1>5 DEF StartRun, PageFacts
<1>6. ASSUME NEW c \in Admin, EnqueueRun(c) PROVE PageFacts'
  BY <1>6 DEF EnqueueRun, PageFacts
<1>7. ASSUME NEW c \in Admin, ResetFailed(c) PROVE PageFacts'
  BY <1>7 DEF ResetFailed, PageFacts
<1>8. ASSUME NEW c \in Admin, Recount(c) PROVE PageFacts'
  BY <1>8 DEF Recount, PageFacts
<1>9. ASSUME NEW c \in Admin, RestartRun(c) PROVE PageFacts'
  BY <1>9 DEF RestartRun, PageFacts
<1>10. ASSUME NEW c \in Admin, WriteCancel(c) PROVE PageFacts'
  BY <1>10 DEF WriteCancel, PageFacts
<1>11. ASSUME NEW c \in Admin, CallDies(c) PROVE PageFacts'
  BY <1>11 DEF CallDies, PageFacts
<1>12. ASSUME NEW w \in Worker, NEW j \in waiting, TakeJob(w, j) PROVE PageFacts'
  <2>1. /\ \A v \in Worker \ {w} : work'[v] = work[v]
        /\ work'[w].item = {} /\ work'[w].todo = {}
    BY <1>12 DEF TakeJob, NoWork
  <2> QED
    BY <2>1, PageFactsKept DEF PageFacts
<1>13. ASSUME NEW w \in Worker, ReadStatus(w) PROVE PageFacts'
  <2>1. /\ \A v \in Worker \ {w} : work'[v] = work[v]
        /\ work'[w].item = work[w].item /\ work'[w].todo = work[w].todo /\ work[w].pc = "load"
    BY <1>13 DEF ReadStatus, Step, Work
  <2> QED
    BY <2>1, PageFactsKept DEF PageFacts
<1>14. ASSUME NEW w \in Worker, MarkSending(w) PROVE PageFacts'
  <2>1. /\ \A v \in Worker \ {w} : work'[v] = work[v]
        /\ work'[w].item = work[w].item /\ work'[w].todo = work[w].todo /\ work[w].pc = "mark"
    BY <1>14 DEF MarkSending, Step, Work
  <2> QED
    BY <2>1, PageFactsKept DEF PageFacts
<1>15. ASSUME NEW w \in Worker, TakePage(w) PROVE PageFacts'
  <2>1. /\ \A v \in Worker \ {w} : work'[v] = work[v]
        /\ work'[w].item = work[w].item /\ work[w].pc = "page" /\ work'[w].pc = "deliver"
    BY <1>15 DEF TakePage, Work
  <2> QED
    BY <2>1, PageFactsKept DEF PageFacts
<1>16. ASSUME NEW w \in Worker, LastPage(w) PROVE PageFacts'
  <2>1. /\ \A v \in Worker \ {w} : work'[v] = work[v]
        /\ work'[w].item = work[w].item /\ work'[w].todo = work[w].todo /\ work[w].pc = "page"
    BY <1>16 DEF LastPage, Step, Work
  <2> QED
    BY <2>1, PageFactsKept DEF PageFacts
<1>17. ASSUME NEW w \in Worker, NEW S \in SUBSET Recipient, NEW left \in 0 .. 2,
             NEW sent \in BOOLEAN, NEW caught \in BOOLEAN, Deliver(w, S, left, sent, caught)
      PROVE  PageFacts'
  <2>1. /\ \A v \in Worker \ {w} : work'[v] = work[v]
        /\ work'[w].item = S /\ work'[w].todo = work[w].todo /\ work'[w].pc = "row" /\ S \subseteq work[w].todo
    BY <1>17 DEF Deliver, Work
  <2> QED
    BY <2>1, PageFactsKept DEF PageFacts
<1>26. ASSUME NEW w \in Worker, NEW s \in Recipient, Skip(w, s)
      PROVE  PageFacts'
  <2>1. /\ \A v \in Worker \ {w} : work'[v] = work[v]
        /\ work'[w].item = {s} /\ work'[w].todo = work[w].todo /\ work'[w].pc = "row" /\ s \in work[w].todo
    BY <1>26 DEF Skip, Work
  <2> QED
    BY <2>1, PageFactsKept DEF PageFacts
<1>18. ASSUME NEW w \in Worker, SettleRow(w) PROVE PageFacts'
  <2>1. /\ \A v \in Worker \ {w} : work'[v] = work[v]
        /\ work'[w].item = work[w].item /\ work'[w].todo = work[w].todo /\ work[w].pc = "row" /\ work'[w].pc = "count"
    BY <1>18 DEF SettleRow, Step, Work
  <2> QED
    BY <2>1, PageFactsKept DEF PageFacts
<1>19. ASSUME NEW w \in Worker, SettleCount(w) PROVE PageFacts'
  <2>1. /\ \A v \in Worker \ {w} : work'[v] = work[v]
        /\ work'[w].item = {} /\ (work'[w].pc = "deliver" \/ work'[w].todo = {})
    BY ZenonT(60), <1>19 DEF SettleCount, Work
  <2> QED
    BY <2>1, PageFactsKept DEF PageFacts
<1>20. ASSUME NEW w \in Worker, NextPage(w) PROVE PageFacts'
  <2>1. /\ \A v \in Worker \ {w} : work'[v] = work[v]
        /\ work'[w].item = work[w].item /\ work'[w].todo = work[w].todo /\ work[w].pc = "next"
    BY <1>20 DEF NextPage, Step, Work
  <2> QED
    BY <2>1, PageFactsKept DEF PageFacts
<1>21. ASSUME NEW w \in Worker, Finish(w) PROVE PageFacts'
  <2>1. /\ \A v \in Worker \ {w} : work'[v] = work[v]
        /\ work'[w].item = work[w].item /\ work'[w].todo = work[w].todo /\ work[w].pc = "finish"
    BY <1>21 DEF Finish, Step, Work
  <2> QED
    BY <2>1, PageFactsKept DEF PageFacts
<1>22. ASSUME NEW w \in Worker, Complete(w) PROVE PageFacts'
  <2>1. /\ \A v \in Worker \ {w} : work'[v] = work[v]
        /\ work'[w].item = {} /\ work'[w].todo = {}
    BY <1>22 DEF Complete, NoWork
  <2> QED
    BY <2>1, PageFactsKept DEF PageFacts
<1>23. ASSUME NEW w \in Worker, SettleFails(w) PROVE PageFacts'
  <2>1. /\ \A v \in Worker \ {w} : work'[v] = work[v]
        /\ work'[w].item = work[w].item /\ work'[w].todo = work[w].todo /\ work'[w].pc = "row"
    BY <1>23 DEF SettleFails, Work
  <2> QED
    BY <2>1, PageFactsKept DEF PageFacts
<1>24. ASSUME NEW w \in Worker, WorkerFails(w) PROVE PageFacts'
  <2>1. /\ \A v \in Worker \ {w} : work'[v] = work[v]
        /\ work'[w].item = {} /\ work'[w].todo = {}
    BY <1>24 DEF WorkerFails, NoWork
  <2> QED
    BY <2>1, PageFactsKept DEF PageFacts
<1>25. ASSUME UNCHANGED castVars PROVE PageFacts'
  BY <1>25 DEF castVars, PageFacts
<1> HIDE DEF CastTypeOK, More
<1> QED
  BY <1>1, <1>2, <1>3, <1>4, <1>5, <1>6, <1>7, <1>8, <1>9, <1>10, <1>11,
     <1>12, <1>13, <1>14, <1>15, <1>16, <1>17, <1>18, <1>19, <1>20, <1>21,
     <1>22, <1>23, <1>24, <1>25, <1>26
     DEF CastNext, CallSteps, WorkSteps

----------------------------------------------------------------------------
(* A budget of messages: what a recipient got, plus one for each worker that   *)
(* may still send or still spoil its row, is covered by the repetitions noted  *)
(* and one message that is settled or on its way.                              *)

\* The worker may still send to r, or will make a failure of its row.
Owes(w, r) ==
  /\ r \in work[w].todo
  /\ r \in work[w].item => work[w].failed /\ (work[w].pc = "row" \/ ~work[w].caught)

\* The worker has sent to r and settles its row next.
Sending(w, r) == r \in work[w].item /\ ~work[w].failed /\ work[w].pc = "row"

Owing(r) == {w \in Worker : Owes(w, r)}
Claimed(r) == row[r] = "SENT" \/ \E w \in Worker : Owes(w, r) \/ Sending(w, r)
Once(b) == IF b THEN 1 ELSE 0

WithinBudget(r) == messages[r] + Cardinality(Owing(r)) <= repeats[r] + Once(Claimed(r))
Budget == \A r \in Recipient : WithinBudget(r)

\* Workers are countable.
LEMMA OwingIsFinite ==
  ASSUME NEW r PROVE IsFiniteSet(Owing(r)) /\ Cardinality(Owing(r)) \in Nat
<1>1. Owing(r) \in SUBSET Worker
  BY DEF Owing
<1> QED
  BY <1>1, BroadcastAssumption, FS_Subset, FS_CardinalityType

\* Two sets that differ in one element at most.
LEMMA OneApart ==
  ASSUME NEW S, NEW T, NEW w, IsFiniteSet(S), S \ {w} = T \ {w}
  PROVE  /\ IsFiniteSet(T) /\ Cardinality(S) \in Nat /\ Cardinality(T) \in Nat
         /\ Cardinality(T) + Once(w \in S) = Cardinality(S) + Once(w \in T)
<1>1. IsFiniteSet(S \ {w}) /\ Cardinality(S) \in Nat
  BY FS_RemoveElement, FS_CardinalityType
<1>2. Cardinality(S \ {w}) \in Nat
  BY <1>1, FS_CardinalityType
<1>3. Cardinality(S) = Cardinality(S \ {w}) + Once(w \in S)
  <2>1. CASE w \in S
    <3>1. S = (S \ {w}) \cup {w}
      BY <2>1
    <3> QED
      BY <1>1, <3>1, <2>1, FS_AddElement DEF Once
  <2>2. CASE w \notin S
    <3>1. S = S \ {w}
      BY <2>2
    <3> QED
      BY <1>1, <3>1, <2>2 DEF Once
  <2> QED
    BY <2>1, <2>2
<1>4. IsFiniteSet(T) /\ Cardinality(T) = Cardinality(S \ {w}) + Once(w \in T)
  <2>1. CASE w \in T
    <3>1. T = (S \ {w}) \cup {w}
      BY <2>1
    <3>2. IsFiniteSet(T) /\ Cardinality(T) = Cardinality(S \ {w}) + 1
      BY <1>1, <3>1, FS_AddElement
    <3> QED
      BY <3>2, <2>1 DEF Once
  <2>2. CASE w \notin T
    <3>1. T = S \ {w}
      BY <2>2
    <3>2. IsFiniteSet(T) /\ Cardinality(T) = Cardinality(S \ {w}) + 0
      BY <1>1, <1>2, <3>1
    <3> QED
      BY <3>2, <2>2 DEF Once
  <2> QED
    BY <2>1, <2>2
<1> QED
  BY <1>1, <1>2, <1>3, <1>4 DEF Once

\* Steps that leave the workers, the messages and the rows settled as sent alone.
LEMMA BudgetUntouched ==
  ASSUME CastTypeOK, Budget, UNCHANGED <<work, messages, repeats>>,
         \A r \in Recipient : row[r] = "SENT" => row'[r] = "SENT"
  PROVE  Budget'
<1> SUFFICES ASSUME NEW r \in Recipient PROVE WithinBudget(r)'
  BY DEF Budget
<1>1. Owing(r)' = Owing(r)
  BY DEF Owing, Owes
<1>2. CASE row[r] = "SENT"
  <2>1. Claimed(r)' /\ Claimed(r)
    BY <1>2 DEF Claimed
  <2> QED
    BY <1>1, <2>1 DEF Budget, WithinBudget, Once
<1>3. CASE row[r] # "SENT"
  <2>1. Claimed(r) => Claimed(r)'
    BY <1>3 DEF Claimed, Owes, Sending
  <2>2. messages[r] + Cardinality(Owing(r)) <= repeats[r] + Once(Claimed(r))'
    <3>1. messages \in [Recipient -> Nat] /\ repeats \in [Recipient -> Nat]
      BY DEF CastTypeOK
    <3> QED
      BY <2>1, <3>1, OwingIsFinite DEF Budget, WithinBudget, Once
  <2> QED
    BY <1>1, <2>2 DEF WithinBudget
<1> QED
  BY <1>2, <1>3

\* A step of one worker keeps the budget of r if what it sends and takes on is paid
\* for by what it gives up and the repetitions it notes, and r stays claimed.
LEMMA BudgetKept ==
  ASSUME CastTypeOK, CastTypeOK', NEW w \in Worker, NEW r \in Recipient, WithinBudget(r),
         \A v \in Worker \ {w} : work'[v] = work[v],
         \/ messages'[r] + Once(Owes(w, r)') + repeats[r] + 1
              <= messages[r] + Once(Owes(w, r)) + repeats'[r]
         \/ /\ messages'[r] + Once(Owes(w, r)') + repeats[r]
                 <= messages[r] + Once(Owes(w, r)) + repeats'[r]
            /\ \/ Owes(w, r)' \/ Sending(w, r)' \/ row'[r] = "SENT"
               \/ ~Owes(w, r) /\ ~Sending(w, r) /\ (row[r] = "SENT" => row'[r] = "SENT")
         \/ /\ messages'[r] + Once(Owes(w, r)') + repeats[r]
                 <= messages[r] + Once(Owes(w, r)) + repeats'[r] + 1
            /\ ~Claimed(r) /\ Owes(w, r)'
  PROVE  WithinBudget(r)'
<1>1. messages[r] \in Nat /\ messages'[r] \in Nat /\ repeats[r] \in Nat /\ repeats'[r] \in Nat
  BY DEF CastTypeOK
<1>2. \A v \in Worker \ {w} : /\ Owes(v, r)' = Owes(v, r)
                             /\ Sending(v, r)' = Sending(v, r)
  BY DEF Owes, Sending
<1>3. Owing(r) \ {w} = Owing(r)' \ {w}
  BY <1>2 DEF Owing
<1>4. Once(w \in Owing(r)) = Once(Owes(w, r)) /\ Once(w \in Owing(r)') = Once(Owes(w, r)')
  BY DEF Owing, Once
<1>5. /\ Cardinality(Owing(r)) \in Nat /\ Cardinality(Owing(r)') \in Nat
      /\ Cardinality(Owing(r)') + Once(Owes(w, r)) = Cardinality(Owing(r)) + Once(Owes(w, r)')
  BY <1>3, <1>4, OwingIsFinite, OneApart
<1>6. Cardinality(Owing(r))' = Cardinality(Owing(r)')
  OBVIOUS
<1>7. \/ Owes(w, r)' \/ Sending(w, r)' \/ row'[r] = "SENT"
      \/ ~Owes(w, r) /\ ~Sending(w, r) /\ (row[r] = "SENT" => row'[r] = "SENT")
      => (Claimed(r) => Claimed(r)')
  BY <1>2 DEF Claimed
<1>8. /\ Once(Claimed(r)) \in {0, 1} /\ Once(Claimed(r)') \in {0, 1}
      /\ Once(Owes(w, r)) \in {0, 1} /\ Once(Owes(w, r)') \in {0, 1}
  BY DEF Once
<1>9. (Claimed(r) => Claimed(r)') => Once(Claimed(r)) <= Once(Claimed(r)')
  BY <1>8 DEF Once
<1>10. messages[r] + Cardinality(Owing(r)) <= repeats[r] + Once(Claimed(r))
  BY DEF WithinBudget
<1>11. messages'[r] + Cardinality(Owing(r)') <= repeats'[r] + Once(Claimed(r)')
  <2>1. CASE messages'[r] + Once(Owes(w, r)') + repeats[r] + 1
              <= messages[r] + Once(Owes(w, r)) + repeats'[r]
    BY <2>1, <1>1, <1>5, <1>8, <1>10
  <2>2. CASE /\ messages'[r] + Once(Owes(w, r)') + repeats[r]
                 <= messages[r] + Once(Owes(w, r)) + repeats'[r]
             /\ Once(Claimed(r)) <= Once(Claimed(r)')
    BY <2>2, <1>1, <1>5, <1>8, <1>10
  <2>3. CASE /\ messages'[r] + Once(Owes(w, r)') + repeats[r]
                 <= messages[r] + Once(Owes(w, r)) + repeats'[r] + 1
             /\ ~Claimed(r) /\ Owes(w, r)'
    <3>1. Once(Claimed(r)) = 0
      BY <2>3 DEF Once
    <3>2. Claimed(r)'
      BY <2>3 DEF Claimed
    <3>3. Once(Claimed(r)') = 1
      BY <3>2 DEF Once
    <3>4. messages'[r] + Once(Owes(w, r)') + repeats[r]
            <= messages[r] + Once(Owes(w, r)) + repeats'[r] + 1
      BY <2>3
    <3>5. messages[r] + Cardinality(Owing(r)) <= repeats[r]
      BY <3>1, <1>10, <1>1
    <3>6. messages'[r] + Cardinality(Owing(r)') <= repeats'[r] + 1
      BY <3>4, <3>5, <1>1, <1>5, <1>8
    <3> QED
      BY <3>3, <3>6
  <2> QED
    BY <2>1, <2>2, <2>3, <1>7, <1>9
<1> QED
  BY <1>6, <1>11 DEF WithinBudget

\* Steps of a worker that has no page before and after.
LEMMA BudgetAtRest ==
  ASSUME CastTypeOK, CastTypeOK', Budget, NEW w \in Worker,
         \A v \in Worker \ {w} : work'[v] = work[v],
         work[w].todo = {}, work[w].item = {}, work'[w].todo = {}, work'[w].item = {},
         UNCHANGED <<row, messages, repeats>>
  PROVE  Budget'
<1> SUFFICES ASSUME NEW r \in Recipient PROVE WithinBudget(r)'
  BY DEF Budget
<1>1. /\ ~Owes(w, r) /\ ~Owes(w, r)' /\ ~Sending(w, r)
  BY DEF Owes, Sending
<1>2. Once(Owes(w, r)) = 0 /\ Once(Owes(w, r)') = 0
  BY <1>1 DEF Once
<1>3. messages[r] \in Nat /\ repeats[r] \in Nat
  BY DEF CastTypeOK
<1>4. messages'[r] + Once(Owes(w, r)') + repeats[r] <= messages[r] + Once(Owes(w, r)) + repeats'[r]
  BY <1>2, <1>3
<1>5. row[r] = "SENT" => row'[r] = "SENT"
  OBVIOUS
<1>6. WithinBudget(r)
  BY DEF Budget
<1> QED
  BY <1>1, <1>4, <1>5, <1>6, BudgetKept

\* Every step keeps to the budget of every recipient.
LEMMA BudgetStep ==
  ASSUME CastTypeOK, CastTypeOK', PageFacts, Budget, [CastNext]_castVars
  PROVE  Budget'
<1>1. ASSUME NEW c \in Admin, LoadSend(c) PROVE Budget'
  <2>1. UNCHANGED <<row, work, messages, repeats>>
    BY <1>1 DEF LoadSend, record
  <2> QED
    BY <2>1, BudgetUntouched
<1>2. ASSUME NEW c \in Admin, LoadRetry(c) PROVE Budget'
  <2>1. UNCHANGED <<row, work, messages, repeats>>
    BY <1>2 DEF LoadRetry, record
  <2> QED
    BY <2>1, BudgetUntouched
<1>3. ASSUME NEW c \in Admin, LoadCancel(c) PROVE Budget'
  <2>1. UNCHANGED <<row, work, messages, repeats>>
    BY <1>3 DEF LoadCancel, record
  <2> QED
    BY <2>1, BudgetUntouched
<1>4. ASSUME NEW c \in Admin, Snapshot(c) PROVE Budget'
  <2>1. UNCHANGED <<work, messages, repeats>>
    BY <1>4 DEF Snapshot, record
  <2>2. \A r \in Recipient : row[r] = "SENT" => row'[r] = "SENT"
    BY <1>4 DEF Snapshot
  <2> QED
    BY <2>1, <2>2, BudgetUntouched
<1>5. ASSUME NEW c \in Admin, StartRun(c) PROVE Budget'
  <2>1. UNCHANGED <<row, work, messages, repeats>>
    BY <1>5 DEF StartRun, record
  <2> QED
    BY <2>1, BudgetUntouched
<1>6. ASSUME NEW c \in Admin, EnqueueRun(c) PROVE Budget'
  <2>1. UNCHANGED <<row, work, messages, repeats>>
    BY <1>6 DEF EnqueueRun, record
  <2> QED
    BY <2>1, BudgetUntouched
<1>7. ASSUME NEW c \in Admin, ResetFailed(c) PROVE Budget'
  <2>1. UNCHANGED <<work, messages, repeats>>
    BY <1>7 DEF ResetFailed, record
  <2>2. \A r \in Recipient : row[r] = "SENT" => row'[r] = "SENT"
    BY <1>7 DEF ResetFailed
  <2> QED
    BY <2>1, <2>2, BudgetUntouched
<1>8. ASSUME NEW c \in Admin, Recount(c) PROVE Budget'
  <2>1. UNCHANGED <<row, work, messages, repeats>>
    BY <1>8 DEF Recount, record
  <2> QED
    BY <2>1, BudgetUntouched
<1>9. ASSUME NEW c \in Admin, RestartRun(c) PROVE Budget'
  <2>1. UNCHANGED <<row, work, messages, repeats>>
    BY <1>9 DEF RestartRun, record
  <2> QED
    BY <2>1, BudgetUntouched
<1>10. ASSUME NEW c \in Admin, WriteCancel(c) PROVE Budget'
  <2>1. UNCHANGED <<row, work, messages, repeats>>
    BY <1>10 DEF WriteCancel, record
  <2> QED
    BY <2>1, BudgetUntouched
<1>11. ASSUME NEW c \in Admin, CallDies(c) PROVE Budget'
  <2>1. UNCHANGED <<row, work, messages, repeats>>
    BY <1>11 DEF CallDies, record
  <2> QED
    BY <2>1, BudgetUntouched
<1>12. ASSUME NEW w \in Worker, NEW j \in waiting, TakeJob(w, j) PROVE Budget'
  <2>1. work[w].todo = {} /\ work[w].item = {}
    BY <1>12 DEF TakeJob, PageFacts
  <2>2. /\ \A v \in Worker \ {w} : work'[v] = work[v]
        /\ work'[w].item = {} /\ work'[w].todo = {}
        /\ UNCHANGED <<row, messages, repeats>>
    BY <1>12 DEF TakeJob, NoWork, CastTypeOK, record
  <2> QED
    BY <2>1, <2>2, BudgetAtRest
<1>13. ASSUME NEW w \in Worker, ReadStatus(w) PROVE Budget'
  <2>1. work[w].todo = {} /\ work[w].item = {}
    BY <1>13 DEF ReadStatus, PageFacts
  <2>2. /\ \A v \in Worker \ {w} : work'[v] = work[v]
        /\ work'[w].item = work[w].item /\ work'[w].todo = work[w].todo
        /\ UNCHANGED <<row, messages, repeats>>
    BY <1>13 DEF ReadStatus, Step, CastTypeOK, Work, record
  <2> QED
    BY <2>1, <2>2, BudgetAtRest
<1>14. ASSUME NEW w \in Worker, MarkSending(w) PROVE Budget'
  <2>1. work[w].todo = {} /\ work[w].item = {}
    BY <1>14 DEF MarkSending, PageFacts
  <2>2. /\ \A v \in Worker \ {w} : work'[v] = work[v]
        /\ work'[w].item = work[w].item /\ work'[w].todo = work[w].todo
        /\ UNCHANGED <<row, messages, repeats>>
    BY <1>14 DEF MarkSending, Step, CastTypeOK, Work, record
  <2> QED
    BY <2>1, <2>2, BudgetAtRest
<1>15. ASSUME NEW w \in Worker, TakePage(w) PROVE Budget'
  <2> SUFFICES ASSUME NEW r \in Recipient PROVE WithinBudget(r)'
    BY DEF Budget
  <2>1. messages[r] \in Nat /\ repeats[r] \in Nat /\ WithinBudget(r)
    BY DEF CastTypeOK, Budget
  <2>2. PICK S \in SUBSET Rows("PENDING") :
          /\ work' = [work EXCEPT ![w].pc = "deliver", ![w].todo = S,
                        ![w].next = work[w].job.cursor + Cardinality(S)]
          /\ repeats' = More(repeats, {x \in S : \E v \in Worker \ {w} : x \in work[v].todo}, 1)
    BY <1>15 DEF TakePage
  <2>3. UNCHANGED <<row, messages>>
    BY <1>15 DEF TakePage
  <2>4. work[w].todo = {} /\ work[w].item = {}
    BY <1>15 DEF TakePage, PageFacts
  <2>5. /\ \A v \in Worker \ {w} : work'[v] = work[v]
        /\ work'[w].item = {} /\ work'[w].todo = S
    BY <2>2, <2>4 DEF CastTypeOK, Work
  <2>6. ~Owes(w, r) /\ ~Sending(w, r) /\ Once(Owes(w, r)) = 0
    BY <2>4 DEF Owes, Sending, Once
  <2>7. CASE r \notin S
    <3>1. repeats'[r] = repeats[r]
      BY <2>2, <2>7 DEF More
    <3>2. Once(Owes(w, r)') = 0
      BY <2>5, <2>7 DEF Owes, Once
    <3>3. messages'[r] + Once(Owes(w, r)') + repeats[r] <= messages[r] + Once(Owes(w, r)) + repeats'[r]
      BY <3>1, <3>2, <2>1, <2>3, <2>6
    <3> QED
      BY <3>3, <2>1, <2>3, <2>5, <2>6, BudgetKept
  <2>8. CASE r \in S
    <3>1. Owes(w, r)' /\ Once(Owes(w, r)') = 1
      BY <2>5, <2>8 DEF Owes, Once
    <3>4. Once(Owes(w, r)') = 1
      BY <3>1
    <3>5. messages'[r] = messages[r] /\ Once(Owes(w, r)) = 0
      BY <2>1, <2>3, <2>5, <2>6 DEF Owes, Once
    <3>2. CASE \E v \in Worker \ {w} : r \in work[v].todo
      <4>1. repeats'[r] = repeats[r] + 1
        BY <2>2, <2>8, <3>2 DEF More
      <4>2. messages'[r] + Once(Owes(w, r)') + repeats[r] <= messages[r] + Once(Owes(w, r)) + repeats'[r]
        BY <3>4, <3>5, <4>1, <2>1
      <4> QED
        BY <4>2, <3>1, <2>1, <2>5, BudgetKept
    <3>3. CASE ~\E v \in Worker \ {w} : r \in work[v].todo
      <4>1. repeats'[r] = repeats[r]
        BY <2>2, <3>3 DEF More
      <4>2. \A v \in Worker : ~Owes(v, r) /\ ~Sending(v, r)
        BY <3>3, <2>6 DEF Owes, Sending, PageFacts
      <4>3. row[r] = "PENDING"
        BY <2>8 DEF Rows
      <4>4. ~Claimed(r)
        BY <4>2, <4>3 DEF Claimed
      <4>5. messages'[r] + Once(Owes(w, r)') + repeats[r]
              <= messages[r] + Once(Owes(w, r)) + repeats'[r] + 1
        BY <3>4, <3>5, <4>1, <2>1
      <4> QED
        BY <4>4, <4>5, <3>1, <2>1, <2>5, BudgetKept
    <3> QED
      BY <3>2, <3>3
  <2> QED
    BY <2>7, <2>8
<1>16. ASSUME NEW w \in Worker, LastPage(w) PROVE Budget'
  <2>1. work[w].todo = {} /\ work[w].item = {}
    BY <1>16 DEF LastPage, PageFacts
  <2>2. /\ \A v \in Worker \ {w} : work'[v] = work[v]
        /\ work'[w].item = work[w].item /\ work'[w].todo = work[w].todo
        /\ UNCHANGED <<row, messages, repeats>>
    BY <1>16 DEF LastPage, Step, CastTypeOK, Work, record
  <2> QED
    BY <2>1, <2>2, BudgetAtRest
<1>17. ASSUME NEW w \in Worker, NEW S \in SUBSET Recipient, NEW left \in 0 .. 2,
             NEW sent \in BOOLEAN, NEW caught \in BOOLEAN, Deliver(w, S, left, sent, caught)
      PROVE  Budget'
  <2> SUFFICES ASSUME NEW r \in Recipient PROVE WithinBudget(r)'
    BY DEF Budget
  <2> DEFINE unsaid == IF sent THEN left - 1 ELSE left
  <2>1. /\ messages[r] \in Nat /\ repeats[r] \in Nat /\ WithinBudget(r)
        /\ left \in Nat /\ unsaid \in Nat
    BY <1>17 DEF Deliver, CastTypeOK, Budget
  <2>2. /\ \A v \in Worker \ {w} : work'[v] = work[v]
        /\ work'[w].item = S /\ work'[w].todo = work[w].todo
        /\ work'[w].pc = "row" /\ work'[w].failed = ~sent
        /\ UNCHANGED row
    BY <1>17 DEF Deliver, CastTypeOK, Work
  <2>3. work[w].item = {} /\ S \subseteq work[w].todo
    BY <1>17 DEF Deliver, PageFacts
  <2>7. messages' = More(messages, S, left) /\ repeats' = More(repeats, S, unsaid)
    BY <1>17 DEF Deliver
  <2>8. r \in S => unsaid = IF sent THEN left - 1 ELSE left
    OBVIOUS
  <2> HIDE DEF unsaid
  <2>4. CASE r \notin S
    <3>1. messages'[r] = messages[r] /\ repeats'[r] = repeats[r]
      BY <2>4, <2>7 DEF More
    <3>2. Owes(w, r)' <=> Owes(w, r)
      BY <2>2, <2>3, <2>4 DEF Owes
    <3>3. Once(Owes(w, r)') = Once(Owes(w, r)) /\ Once(Owes(w, r)) \in Nat
      BY <3>2 DEF Once
    <3>4. ~Sending(w, r)
      BY <2>3 DEF Sending
    <3>5. messages'[r] + Once(Owes(w, r)') + repeats[r] <= messages[r] + Once(Owes(w, r)) + repeats'[r]
      BY <3>1, <3>3, <2>1
    <3> QED
      BY <3>2, <3>4, <3>5, <2>1, <2>2, BudgetKept
  <2>5. CASE r \in S /\ sent
    <3>1. messages'[r] = messages[r] + left /\ repeats'[r] = repeats[r] + (left - 1)
      BY <2>5, <2>7, <2>8 DEF More
    <3>2. Once(Owes(w, r)) = 1 /\ Once(Owes(w, r)') = 0
      BY <2>2, <2>3, <2>5 DEF Owes, Once
    <3>3. Sending(w, r)'
      BY <2>2, <2>5 DEF Sending
    <3>4. messages'[r] + Once(Owes(w, r)') + repeats[r] <= messages[r] + Once(Owes(w, r)) + repeats'[r]
      BY <3>1, <3>2, <2>1
    <3> QED
      BY <3>3, <3>4, <2>1, <2>2, BudgetKept
  <2>6. CASE r \in S /\ ~sent
    <3>1. messages'[r] = messages[r] + left /\ repeats'[r] = repeats[r] + left
      BY <2>6, <2>7, <2>8 DEF More
    <3>2. Owes(w, r)' /\ Once(Owes(w, r)) = 1 /\ Once(Owes(w, r)') = 1
      BY <2>2, <2>3, <2>6 DEF Owes, Once
    <3>4. Once(Owes(w, r)) = 1 /\ Once(Owes(w, r)') = 1
      BY <3>2
    <3>3. messages'[r] + Once(Owes(w, r)') + repeats[r] <= messages[r] + Once(Owes(w, r)) + repeats'[r]
      BY <3>1, <3>4, <2>1
    <3> QED
      BY <3>2, <3>3, <2>1, <2>2, BudgetKept
  <2> QED
    BY <2>4, <2>5, <2>6
<1>26. ASSUME NEW w \in Worker, NEW s \in Recipient, Skip(w, s)
      PROVE  Budget'
  <2> SUFFICES ASSUME NEW r \in Recipient PROVE WithinBudget(r)'
    BY DEF Budget
  <2>1. messages[r] \in Nat /\ repeats[r] \in Nat /\ WithinBudget(r)
    BY DEF CastTypeOK, Budget
  <2>2. /\ \A v \in Worker \ {w} : work'[v] = work[v]
        /\ work'[w].item = {s} /\ work'[w].todo = work[w].todo
        /\ work'[w].pc = "row" /\ work'[w].failed
        /\ UNCHANGED <<row, messages, repeats>>
    BY <1>26 DEF Skip, CastTypeOK, Work, record
  <2>3. work[w].item = {} /\ s \in work[w].todo
    BY <1>26 DEF Skip, PageFacts
  <2>4. Owes(w, r)' <=> Owes(w, r)
    BY <2>2, <2>3 DEF Owes
  <2>5. Once(Owes(w, r)') = Once(Owes(w, r)) /\ Once(Owes(w, r)) \in Nat
    BY <2>4 DEF Once
  <2>6. ~Sending(w, r)
    BY <2>3 DEF Sending
  <2>7. messages'[r] + Once(Owes(w, r)') + repeats[r] <= messages[r] + Once(Owes(w, r)) + repeats'[r]
    BY <2>1, <2>2, <2>5
  <2> QED
    BY <2>1, <2>2, <2>4, <2>6, <2>7, BudgetKept
<1>18. ASSUME NEW w \in Worker, SettleRow(w) PROVE Budget'
  <2> SUFFICES ASSUME NEW r \in Recipient PROVE WithinBudget(r)'
    BY DEF Budget
  <2>1. messages[r] \in Nat /\ repeats[r] \in Nat /\ WithinBudget(r)
    BY DEF CastTypeOK, Budget
  <2>2. /\ \A v \in Worker \ {w} : work'[v] = work[v]
        /\ work'[w].item = work[w].item /\ work'[w].todo = work[w].todo
        /\ work[w].pc = "row" /\ work'[w].pc = "count"
        /\ work'[w].failed = work[w].failed /\ work'[w].caught = work[w].caught
        /\ work[w].failed \in BOOLEAN /\ work[w].caught \in BOOLEAN
        /\ UNCHANGED <<messages, repeats>>
    BY <1>18 DEF SettleRow, Step, CastTypeOK, Work
  <2>3. work[w].item \subseteq work[w].todo
    BY DEF PageFacts
  <2>4. CASE r \notin work[w].item
    <3>1. row'[r] = row[r]
      BY <1>18, <2>4 DEF SettleRow
    <3>2. Owes(w, r)' <=> Owes(w, r)
      BY <2>2, <2>4 DEF Owes
    <3>3. Once(Owes(w, r)') = Once(Owes(w, r)) /\ Once(Owes(w, r)) \in Nat
      BY <3>2 DEF Once
    <3>4. ~Sending(w, r)
      BY <2>4 DEF Sending
    <3>5. messages'[r] + Once(Owes(w, r)') + repeats[r] <= messages[r] + Once(Owes(w, r)) + repeats'[r]
      BY <3>3, <2>1, <2>2
    <3> QED
      BY <3>1, <3>2, <3>4, <3>5, <2>1, <2>2, BudgetKept
  <2>5. CASE r \in work[w].item /\ ~work[w].failed
    <3>1. row'[r] = "SENT"
      BY <1>18, <2>5 DEF SettleRow
    <3>2. Once(Owes(w, r)) = 0 /\ Once(Owes(w, r)') = 0
      BY <2>2, <2>5 DEF Owes, Once
    <3>3. messages'[r] + Once(Owes(w, r)') + repeats[r] <= messages[r] + Once(Owes(w, r)) + repeats'[r]
      BY <3>2, <2>1, <2>2
    <3> QED
      BY <3>1, <3>3, <2>1, <2>2, BudgetKept
  <2>6. CASE r \in work[w].item /\ work[w].failed /\ ~work[w].caught
    <3>1. Owes(w, r)' /\ Once(Owes(w, r)) = 1 /\ Once(Owes(w, r)') = 1
      BY <2>2, <2>3, <2>6 DEF Owes, Once
    <3>3. Once(Owes(w, r)) = 1 /\ Once(Owes(w, r)') = 1
      BY <3>1
    <3>4. messages'[r] = messages[r] /\ repeats'[r] = repeats[r]
      BY <2>2
    <3>2. messages'[r] + Once(Owes(w, r)') + repeats[r] <= messages[r] + Once(Owes(w, r)) + repeats'[r]
      BY <3>3, <3>4, <2>1
    <3> QED
      BY <3>1, <3>2, <2>1, <2>2, BudgetKept
  <2>7. CASE r \in work[w].item /\ work[w].failed /\ work[w].caught
    <3>1. Once(Owes(w, r)) = 1 /\ Once(Owes(w, r)') = 0
      BY <2>2, <2>3, <2>7 DEF Owes, Once
    <3>2. messages'[r] + Once(Owes(w, r)') + repeats[r] + 1 <= messages[r] + Once(Owes(w, r)) + repeats'[r]
      BY <3>1, <2>1, <2>2
    <3> QED
      BY <3>2, <2>1, <2>2, BudgetKept
  <2> QED
    BY <2>4, <2>5, <2>6, <2>7
<1>19. ASSUME NEW w \in Worker, SettleCount(w) PROVE Budget'
  <2> SUFFICES ASSUME NEW r \in Recipient PROVE WithinBudget(r)'
    BY DEF Budget
  <2>1. messages[r] \in Nat /\ repeats[r] \in Nat /\ WithinBudget(r)
    BY DEF CastTypeOK, Budget
  <2>2. /\ \A v \in Worker \ {w} : work'[v] = work[v]
        /\ work'[w].item = {} /\ work'[w].todo = work[w].todo \ work[w].item
        /\ work[w].pc = "count"
        /\ UNCHANGED <<row, messages, repeats>>
    BY ZenonT(60), <1>19 DEF SettleCount, CastTypeOK, Work
  <2>3. ~Sending(w, r)
    BY <2>2 DEF Sending
  <2>4. CASE r \notin work[w].item
    <3>1. Owes(w, r)' <=> Owes(w, r)
      BY <2>2, <2>4 DEF Owes
    <3>2. Once(Owes(w, r)') = Once(Owes(w, r)) /\ Once(Owes(w, r)) \in Nat
      BY <3>1 DEF Once
    <3>3. messages'[r] + Once(Owes(w, r)') + repeats[r] <= messages[r] + Once(Owes(w, r)) + repeats'[r]
      BY <3>2, <2>1, <2>2
    <3> QED
      BY <3>1, <3>3, <2>1, <2>2, <2>3, BudgetKept
  <2>5. CASE r \in work[w].item /\ Owes(w, r)
    <3>1. Once(Owes(w, r)) = 1 /\ Once(Owes(w, r)') = 0
      BY <2>2, <2>5 DEF Owes, Once
    <3>2. messages'[r] + Once(Owes(w, r)') + repeats[r] + 1 <= messages[r] + Once(Owes(w, r)) + repeats'[r]
      BY <3>1, <2>1, <2>2
    <3> QED
      BY <3>2, <2>1, <2>2, BudgetKept
  <2>6. CASE r \in work[w].item /\ ~Owes(w, r)
    <3>1. Once(Owes(w, r)) = 0 /\ Once(Owes(w, r)') = 0
      BY <2>2, <2>6 DEF Owes, Once
    <3>2. messages'[r] + Once(Owes(w, r)') + repeats[r] <= messages[r] + Once(Owes(w, r)) + repeats'[r]
      BY <3>1, <2>1, <2>2
    <3> QED
      BY <3>2, <2>1, <2>2, <2>3, <2>6, BudgetKept
  <2> QED
    BY <2>4, <2>5, <2>6
<1>20. ASSUME NEW w \in Worker, NextPage(w) PROVE Budget'
  <2>1. work[w].todo = {} /\ work[w].item = {}
    BY <1>20 DEF NextPage, PageFacts
  <2>2. /\ \A v \in Worker \ {w} : work'[v] = work[v]
        /\ work'[w].item = work[w].item /\ work'[w].todo = work[w].todo
        /\ UNCHANGED <<row, messages, repeats>>
    BY <1>20 DEF NextPage, Step, CastTypeOK, Work, record
  <2> QED
    BY <2>1, <2>2, BudgetAtRest
<1>21. ASSUME NEW w \in Worker, Finish(w) PROVE Budget'
  <2>1. work[w].todo = {} /\ work[w].item = {}
    BY <1>21 DEF Finish, PageFacts
  <2>2. /\ \A v \in Worker \ {w} : work'[v] = work[v]
        /\ work'[w].item = work[w].item /\ work'[w].todo = work[w].todo
        /\ UNCHANGED <<row, messages, repeats>>
    BY <1>21 DEF Finish, Step, CastTypeOK, Work, record
  <2> QED
    BY <2>1, <2>2, BudgetAtRest
<1>22. ASSUME NEW w \in Worker, Complete(w) PROVE Budget'
  <2>1. work[w].todo = {} /\ work[w].item = {}
    BY <1>22 DEF Complete, PageFacts
  <2>2. /\ \A v \in Worker \ {w} : work'[v] = work[v]
        /\ work'[w].item = {} /\ work'[w].todo = {}
        /\ UNCHANGED <<row, messages, repeats>>
    BY <1>22 DEF Complete, NoWork, CastTypeOK, record
  <2> QED
    BY <2>1, <2>2, BudgetAtRest
<1>23. ASSUME NEW w \in Worker, SettleFails(w) PROVE Budget'
  <2> SUFFICES ASSUME NEW r \in Recipient PROVE WithinBudget(r)'
    BY DEF Budget
  <2>1. messages[r] \in Nat /\ repeats[r] \in Nat /\ WithinBudget(r)
    BY DEF CastTypeOK, Budget
  <2>2. /\ \A v \in Worker \ {w} : work'[v] = work[v]
        /\ work'[w].item = work[w].item /\ work'[w].todo = work[w].todo
        /\ work'[w].pc = "row" /\ work'[w].failed /\ ~work[w].caught
        /\ work[w].failed \in BOOLEAN
        /\ UNCHANGED <<row, messages>>
    BY <1>23 DEF SettleFails, CastTypeOK, Work
  <2>3. work[w].item \subseteq work[w].todo
    BY DEF PageFacts
  <2>4. CASE r \notin work[w].item
    <3>1. repeats'[r] = repeats[r]
      BY <1>23, <2>4 DEF SettleFails, More, CastTypeOK
    <3>2. Owes(w, r)' <=> Owes(w, r)
      BY <2>2, <2>4 DEF Owes
    <3>3. Once(Owes(w, r)') = Once(Owes(w, r)) /\ Once(Owes(w, r)) \in Nat
      BY <3>2 DEF Once
    <3>4. ~Sending(w, r)
      BY <2>4 DEF Sending
    <3>5. messages'[r] + Once(Owes(w, r)') + repeats[r] <= messages[r] + Once(Owes(w, r)) + repeats'[r]
      BY <3>1, <3>3, <2>1, <2>2
    <3> QED
      BY <3>2, <3>4, <3>5, <2>1, <2>2, BudgetKept
  <2>5. CASE r \in work[w].item
    <3>1. Owes(w, r)' /\ Once(Owes(w, r)') = 1
      BY <2>2, <2>3, <2>5 DEF Owes, Once
    <3>4. Once(Owes(w, r)') = 1
      BY <3>1
    <3>5. messages'[r] = messages[r]
      BY <2>2
    <3>2. CASE work[w].failed
      <4>1. Once(Owes(w, r)) = 1
        BY <2>2, <2>3, <2>5, <3>2 DEF Owes, Once
      <4>2. repeats'[r] = repeats[r]
        BY <1>23, <3>2 DEF SettleFails
      <4>3. messages'[r] + Once(Owes(w, r)') + repeats[r] <= messages[r] + Once(Owes(w, r)) + repeats'[r]
        BY <3>4, <3>5, <4>1, <4>2, <2>1
      <4> QED
        BY <4>3, <3>1, <2>1, <2>2, BudgetKept
    <3>3. CASE ~work[w].failed
      <4>1. Once(Owes(w, r)) = 0
        BY <2>5, <3>3 DEF Owes, Once
      <4>2. repeats'[r] = repeats[r] + 1
        BY <1>23, <2>5, <3>3 DEF SettleFails, More
      <4>3. messages'[r] + Once(Owes(w, r)') + repeats[r] <= messages[r] + Once(Owes(w, r)) + repeats'[r]
        BY <3>4, <3>5, <4>1, <4>2, <2>1
      <4> QED
        BY <4>3, <3>1, <2>1, <2>2, BudgetKept
    <3> QED
      BY <3>2, <3>3
  <2> QED
    BY <2>4, <2>5
<1>24. ASSUME NEW w \in Worker, WorkerFails(w) PROVE Budget'
  <2> SUFFICES ASSUME NEW r \in Recipient PROVE WithinBudget(r)'
    BY DEF Budget
  <2>1. messages[r] \in Nat /\ repeats[r] \in Nat /\ WithinBudget(r)
    BY DEF CastTypeOK, Budget
  <2>2. /\ \A v \in Worker \ {w} : work'[v] = work[v]
        /\ work'[w].item = {} /\ work'[w].todo = {}
        /\ UNCHANGED <<row, messages>>
    BY <1>24 DEF WorkerFails, NoWork, CastTypeOK
  <2>3. Once(Owes(w, r)') = 0
    BY <2>2 DEF Owes, Once
  <2>4. repeats' = More(repeats, IF work[w].pc = "row" /\ ~work[w].failed THEN work[w].item ELSE {}, 1)
    BY <1>24 DEF WorkerFails
  <2>5. CASE Sending(w, r)
    <3>1. repeats'[r] = repeats[r] + 1
      BY <2>4, <2>5 DEF More, Sending
    <3>2. Once(Owes(w, r)) = 0
      BY <2>5 DEF Owes, Sending, Once
    <3>3. messages'[r] + Once(Owes(w, r)') + repeats[r] + 1 <= messages[r] + Once(Owes(w, r)) + repeats'[r]
      BY <3>1, <3>2, <2>1, <2>2, <2>3
    <3> QED
      BY <3>3, <2>1, <2>2, BudgetKept
  <2>6. CASE ~Sending(w, r)
    <3>1. repeats'[r] = repeats[r]
      BY <2>4, <2>6 DEF More, Sending
    <3>2. CASE Owes(w, r)
      <4>1. Once(Owes(w, r)) = 1
        BY <3>2 DEF Once
      <4>2. messages'[r] + Once(Owes(w, r)') + repeats[r] + 1 <= messages[r] + Once(Owes(w, r)) + repeats'[r]
        BY <3>1, <4>1, <2>1, <2>2, <2>3
      <4> QED
        BY <4>2, <2>1, <2>2, BudgetKept
    <3>3. CASE ~Owes(w, r)
      <4>1. Once(Owes(w, r)) = 0
        BY <3>3 DEF Once
      <4>2. messages'[r] + Once(Owes(w, r)') + repeats[r] <= messages[r] + Once(Owes(w, r)) + repeats'[r]
        BY <3>1, <4>1, <2>1, <2>2, <2>3
      <4> QED
        BY <4>2, <3>3, <2>1, <2>2, <2>6, BudgetKept
    <3> QED
      BY <3>2, <3>3
  <2> QED
    BY <2>5, <2>6
<1>25. ASSUME UNCHANGED castVars PROVE Budget'
  <2>1. UNCHANGED <<row, work, messages, repeats>>
    BY <1>25 DEF castVars, record
  <2> QED
    BY <2>1, BudgetUntouched
<1> QED
  BY <1>1, <1>2, <1>3, <1>4, <1>5, <1>6, <1>7, <1>8, <1>9, <1>10, <1>11,
     <1>12, <1>13, <1>14, <1>15, <1>16, <1>17, <1>18, <1>19, <1>20, <1>21,
     <1>22, <1>23, <1>24, <1>25, <1>26
     DEF CastNext, CallSteps, WorkSteps

----------------------------------------------------------------------------
CastInv == CastTypeOK /\ PageFacts /\ Budget

\* Nobody has been sent anything when the broadcast is a draft.
LEMMA InitCastInv == CastInit => CastInv
<1> SUFFICES ASSUME CastInit PROVE CastInv
  OBVIOUS
<1>1. CastTypeOK
  <2>1. work \in [Worker -> Work]
    BY NoWorkIsWork DEF CastInit
  <2>2. admin \in [Admin -> AdminCall]
    BY BroadcastAssumption DEF CastInit, AdminCall, NoCall
  <2>3. /\ row \in [Recipient -> {"NONE", "PENDING", "SENT", "FAILED"}]
        /\ messages \in [Recipient -> Nat] /\ repeats \in [Recipient -> Nat]
    BY DEF CastInit
  <2>4. runs \in 0 .. MaxRuns /\ faults \in 0 .. MaxFaults
    BY BroadcastAssumption DEF CastInit
  <2>5. status \in CastStatus /\ waiting \in SUBSET Job /\ known \in SUBSET ((0 .. MaxRuns) \X Nat)
    BY DEF CastInit, CastStatus
  <2>6. sentCount \in Nat /\ failedCount \in Nat /\ drift \in BOOLEAN /\ lost \in BOOLEAN
    BY DEF CastInit
  <2> QED
    BY <2>1, <2>2, <2>3, <2>4, <2>5, <2>6 DEF CastTypeOK
<1>2. PageFacts
  BY DEF CastInit, PageFacts, NoWork
<1>3. Budget
  <2> SUFFICES ASSUME NEW r \in Recipient PROVE WithinBudget(r)
    BY DEF Budget
  <2>1. Owing(r) = {}
    BY DEF CastInit, NoWork, Owing, Owes
  <2>2. Cardinality(Owing(r)) = 0
    BY <2>1, FS_EmptySet
  <2>3. messages[r] = 0 /\ repeats[r] = 0
    BY DEF CastInit
  <2> QED
    BY <2>2, <2>3 DEF WithinBudget, Once
<1> QED
  BY <1>1, <1>2, <1>3 DEF CastInv

\* The inductive invariant holds whatever is sent, cancelled, retried and lost.
THEOREM BroadcastInvariance == CastSpec => []CastInv
<1>1. CastInit => CastInv
  BY InitCastInv
<1>2. CastInv /\ [CastNext]_castVars => CastInv'
  BY TypeStep, PageStep, BudgetStep DEF CastInv
<1> QED
  BY <1>1, <1>2, PTL DEF CastSpec

\* Rows, counters, pages and calls keep values of the schema and the queue.
THEOREM BroadcastTypes == CastSpec => []CastTypeOK
<1>1. CastInv => CastTypeOK
  BY DEF CastInv
<1> QED
  BY <1>1, BroadcastInvariance, PTL

\* However often a broadcast is sent, cancelled and retried and however many workers
\* take its pages, a recipient gets the message again only where an earlier one left
\* and its row does not say so (the provider's answer was lost, its settlement failed)
\* or two workers had the row at once (retryFailed, settle, NotificationDispatcher).
THEOREM NobodyMessagedTwice == CastSpec => []DeliveredOnce
<1>1. CastInv => DeliveredOnce
  <2> SUFFICES ASSUME CastInv, NEW r \in Recipient PROVE messages[r] <= 1 + repeats[r]
    BY DEF DeliveredOnce
  <2>1. messages[r] \in Nat /\ repeats[r] \in Nat /\ WithinBudget(r)
    BY DEF CastInv, CastTypeOK, Budget
  <2>2. Once(Claimed(r)) \in {0, 1}
    BY DEF Once
  <2> QED
    BY <2>1, <2>2, OwingIsFinite DEF WithinBudget
<1> QED
  BY <1>1, BroadcastInvariance, PTL

\* What a worker is settling is in hand: its rows may be written and not counted.
InHand == {r \in Recipient : \E w \in Worker : r \in work[w].item}

\* The rows settled as s, and counted as well.
Closed(s) == Rows(s) \ InHand

\* What a worker writes to the rows of its delivery.
Outcome(w) == IF work[w].failed THEN "FAILED" ELSE "SENT"

\* No two workers have a row at once.
Apart == \A w, v \in Worker : w # v => work[w].todo \cap work[v].todo = {}

\* The rows a worker has not come to are pending, and those it is about to count are
\* what it has made them.
Awaiting ==
  \A w \in Worker :
    /\ \A r \in work[w].todo \ work[w].item : row[r] = "PENDING"
    /\ work[w].pc = "count" => \A r \in work[w].item : row[r] = Outcome(w)

\* From its reset to its restart a retry leaves no failed row, and has counted none.
Recounted ==
  Recounting =>
    /\ Rows("FAILED") = {}
    /\ \A r \in InHand : row[r] = "PENDING"
    /\ \A c \in Admin : admin[c].pc = "restart" => admin[c].failed = 0

\* The counters are the numbers of the rows counted, the failed ones but for a retry
\* that is about to write theirs.
Sums ==
  /\ sentCount = Cardinality(Closed("SENT"))
  /\ ~Recounting => failedCount = Cardinality(Closed("FAILED"))

\* While nothing was cut short or crossed a retry the counters keep up with the rows.
Tally == ~drift => Apart /\ Awaiting /\ Recounted /\ Sums


\* The history of a crossed or interrupted settlement is kept.
LEMMA DriftStays ==
  ASSUME CastTypeOK, [CastNext]_castVars, ~drift'
  PROVE  ~drift
<1>1. ASSUME NEW c \in Admin, LoadSend(c) PROVE ~drift
  BY <1>1 DEF LoadSend, record
<1>2. ASSUME NEW c \in Admin, LoadRetry(c) PROVE ~drift
  BY <1>2 DEF LoadRetry, record
<1>3. ASSUME NEW c \in Admin, LoadCancel(c) PROVE ~drift
  BY <1>3 DEF LoadCancel, record
<1>4. ASSUME NEW c \in Admin, Snapshot(c) PROVE ~drift
  BY <1>4 DEF Snapshot, record
<1>5. ASSUME NEW c \in Admin, StartRun(c) PROVE ~drift
  BY <1>5 DEF StartRun, record
<1>6. ASSUME NEW c \in Admin, EnqueueRun(c) PROVE ~drift
  BY <1>6 DEF EnqueueRun, record
<1>7. ASSUME NEW c \in Admin, ResetFailed(c) PROVE ~drift
  BY <1>7 DEF ResetFailed, record
<1>8. ASSUME NEW c \in Admin, Recount(c) PROVE ~drift
  BY <1>8 DEF Recount, record
<1>9. ASSUME NEW c \in Admin, RestartRun(c) PROVE ~drift
  BY <1>9 DEF RestartRun, record
<1>10. ASSUME NEW c \in Admin, WriteCancel(c) PROVE ~drift
  BY <1>10 DEF WriteCancel, record
<1>11. ASSUME NEW c \in Admin, CallDies(c) PROVE ~drift
  BY <1>11 DEF CallDies, record
<1>12. ASSUME NEW w \in Worker, NEW j \in waiting, TakeJob(w, j) PROVE ~drift
  BY <1>12 DEF TakeJob, record
<1>13. ASSUME NEW w \in Worker, ReadStatus(w) PROVE ~drift
  BY <1>13 DEF ReadStatus, record
<1>14. ASSUME NEW w \in Worker, MarkSending(w) PROVE ~drift
  BY <1>14 DEF MarkSending, record
<1>15. ASSUME NEW w \in Worker, TakePage(w) PROVE ~drift
  <2> PICK S \in SUBSET Rows("PENDING") :
          drift' = (drift \/ {r \in S : \E v \in Worker \ {w} : r \in work[v].todo} # {})
    BY <1>15 DEF TakePage
  <2> QED
    OBVIOUS
<1>16. ASSUME NEW w \in Worker, LastPage(w) PROVE ~drift
  BY <1>16 DEF LastPage, record
<1>17. ASSUME NEW w \in Worker, NEW S \in SUBSET Recipient, NEW left \in 0 .. 2,
             NEW sent \in BOOLEAN, NEW caught \in BOOLEAN, Deliver(w, S, left, sent, caught)
      PROVE  ~drift
  BY <1>17 DEF Deliver, record
<1>26. ASSUME NEW w \in Worker, NEW s \in Recipient, Skip(w, s)
      PROVE  ~drift
  BY <1>26 DEF Skip, record
<1>18. ASSUME NEW w \in Worker, SettleRow(w) PROVE ~drift
  BY <1>18 DEF SettleRow, record
<1>19. ASSUME NEW w \in Worker, SettleCount(w) PROVE ~drift
  BY <1>19 DEF SettleCount, record
<1>20. ASSUME NEW w \in Worker, NextPage(w) PROVE ~drift
  BY <1>20 DEF NextPage, record
<1>21. ASSUME NEW w \in Worker, Finish(w) PROVE ~drift
  BY <1>21 DEF Finish, record
<1>22. ASSUME NEW w \in Worker, Complete(w) PROVE ~drift
  BY <1>22 DEF Complete, record
<1>23. ASSUME NEW w \in Worker, SettleFails(w) PROVE ~drift
  BY <1>23 DEF SettleFails, record
<1>24. ASSUME NEW w \in Worker, WorkerFails(w) PROVE ~drift
  BY <1>24 DEF WorkerFails, record
<1>25. ASSUME UNCHANGED castVars PROVE ~drift
  BY <1>25 DEF castVars, record
<1> QED
  BY <1>1, <1>2, <1>3, <1>4, <1>5, <1>6, <1>7, <1>8, <1>9, <1>10, <1>11,
     <1>12, <1>13, <1>14, <1>15, <1>16, <1>17, <1>18, <1>19, <1>20, <1>21,
     <1>22, <1>23, <1>24, <1>25, <1>26
     DEF CastNext, CallSteps, WorkSteps

\* Workers that take no more rows stay apart.
LEMMA ApartKept ==
  ASSUME Apart, \A v \in Worker : work'[v].todo \subseteq work[v].todo
  PROVE  Apart'
  BY DEF Apart

\* Without a page that two workers had at once they stay apart.
LEMMA ApartStep ==
  ASSUME CastTypeOK, PageFacts, Apart, [CastNext]_castVars, ~drift'
  PROVE  Apart'
<1>1. ASSUME NEW c \in Admin, LoadSend(c) PROVE Apart'
  BY <1>1 DEF LoadSend, Apart
<1>2. ASSUME NEW c \in Admin, LoadRetry(c) PROVE Apart'
  BY <1>2 DEF LoadRetry, Apart
<1>3. ASSUME NEW c \in Admin, LoadCancel(c) PROVE Apart'
  BY <1>3 DEF LoadCancel, Apart
<1>4. ASSUME NEW c \in Admin, Snapshot(c) PROVE Apart'
  BY <1>4 DEF Snapshot, Apart
<1>5. ASSUME NEW c \in Admin, StartRun(c) PROVE Apart'
  BY <1>5 DEF StartRun, Apart
<1>6. ASSUME NEW c \in Admin, EnqueueRun(c) PROVE Apart'
  BY <1>6 DEF EnqueueRun, Apart
<1>7. ASSUME NEW c \in Admin, ResetFailed(c) PROVE Apart'
  BY <1>7 DEF ResetFailed, Apart
<1>8. ASSUME NEW c \in Admin, Recount(c) PROVE Apart'
  BY <1>8 DEF Recount, Apart
<1>9. ASSUME NEW c \in Admin, RestartRun(c) PROVE Apart'
  BY <1>9 DEF RestartRun, Apart
<1>10. ASSUME NEW c \in Admin, WriteCancel(c) PROVE Apart'
  BY <1>10 DEF WriteCancel, Apart
<1>11. ASSUME NEW c \in Admin, CallDies(c) PROVE Apart'
  BY <1>11 DEF CallDies, Apart
<1>12. ASSUME NEW w \in Worker, NEW j \in waiting, TakeJob(w, j) PROVE Apart'
  <2>1. \A v \in Worker : work'[v].todo \subseteq work[v].todo
    BY <1>12 DEF TakeJob, NoWork, CastTypeOK, Work
  <2> QED
    BY <2>1, ApartKept
<1>13. ASSUME NEW w \in Worker, ReadStatus(w) PROVE Apart'
  <2>1. \A v \in Worker : work'[v].todo \subseteq work[v].todo
    BY <1>13 DEF ReadStatus, Step, CastTypeOK, Work
  <2> QED
    BY <2>1, ApartKept
<1>14. ASSUME NEW w \in Worker, MarkSending(w) PROVE Apart'
  <2>1. \A v \in Worker : work'[v].todo \subseteq work[v].todo
    BY <1>14 DEF MarkSending, Step, CastTypeOK, Work
  <2> QED
    BY <2>1, ApartKept
<1>15. ASSUME NEW w \in Worker, TakePage(w) PROVE Apart'
  <2>1. PICK S \in SUBSET Rows("PENDING") :
          /\ work' = [work EXCEPT ![w].pc = "deliver", ![w].todo = S,
                        ![w].next = work[w].job.cursor + Cardinality(S)]
          /\ drift' = (drift \/ {r \in S : \E v \in Worker \ {w} : r \in work[v].todo} # {})
    BY <1>15 DEF TakePage
  <2>2. \A v \in Worker \ {w} : S \cap work[v].todo = {}
    BY <2>1
  <2>3. work'[w].todo = S /\ \A v \in Worker \ {w} : work'[v] = work[v]
    BY <2>1 DEF CastTypeOK, Work
  <2> QED
    BY <2>2, <2>3 DEF Apart
<1>16. ASSUME NEW w \in Worker, LastPage(w) PROVE Apart'
  <2>1. \A v \in Worker : work'[v].todo \subseteq work[v].todo
    BY <1>16 DEF LastPage, CastTypeOK, Work
  <2> QED
    BY <2>1, ApartKept
<1>17. ASSUME NEW w \in Worker, NEW S \in SUBSET Recipient, NEW left \in 0 .. 2,
             NEW sent \in BOOLEAN, NEW caught \in BOOLEAN, Deliver(w, S, left, sent, caught)
      PROVE  Apart'
  <2>1. \A v \in Worker : work'[v].todo \subseteq work[v].todo
    BY <1>17 DEF Deliver, CastTypeOK, Work
  <2> QED
    BY <2>1, ApartKept
<1>26. ASSUME NEW w \in Worker, NEW s \in Recipient, Skip(w, s)
      PROVE  Apart'
  <2>1. \A v \in Worker : work'[v].todo \subseteq work[v].todo
    BY <1>26 DEF Skip, CastTypeOK, Work
  <2> QED
    BY <2>1, ApartKept
<1>18. ASSUME NEW w \in Worker, SettleRow(w) PROVE Apart'
  <2>1. \A v \in Worker : work'[v].todo \subseteq work[v].todo
    BY <1>18 DEF SettleRow, Step, CastTypeOK, Work
  <2> QED
    BY <2>1, ApartKept
<1>19. ASSUME NEW w \in Worker, SettleCount(w) PROVE Apart'
  <2>0. PICK l \in {"next", "deliver"} :
          l = IF work[w].todo \ work[w].item = {} THEN "next" ELSE "deliver"
    OBVIOUS
  <2>9. work' = [work EXCEPT ![w].pc = l, ![w].todo = work[w].todo \ work[w].item,
                   ![w].item = {}, ![w].failed = FALSE, ![w].caught = FALSE]
    BY <1>19, <2>0 DEF SettleCount
  <2>1. \A v \in Worker : work'[v].todo \subseteq work[v].todo
    BY <2>9 DEF CastTypeOK, Work
  <2> QED
    BY <2>1, ApartKept
<1>20. ASSUME NEW w \in Worker, NextPage(w) PROVE Apart'
  <2>1. \A v \in Worker : work'[v].todo \subseteq work[v].todo
    BY <1>20 DEF NextPage, Step, CastTypeOK, Work
  <2> QED
    BY <2>1, ApartKept
<1>21. ASSUME NEW w \in Worker, Finish(w) PROVE Apart'
  <2>1. \A v \in Worker : work'[v].todo \subseteq work[v].todo
    BY <1>21 DEF Finish, Step, CastTypeOK, Work
  <2> QED
    BY <2>1, ApartKept
<1>22. ASSUME NEW w \in Worker, Complete(w) PROVE Apart'
  <2>1. \A v \in Worker : work'[v].todo \subseteq work[v].todo
    BY <1>22 DEF Complete, NoWork, CastTypeOK, Work
  <2> QED
    BY <2>1, ApartKept
<1>23. ASSUME NEW w \in Worker, SettleFails(w) PROVE Apart'
  <2>1. \A v \in Worker : work'[v].todo \subseteq work[v].todo
    BY <1>23 DEF SettleFails, CastTypeOK, Work
  <2> QED
    BY <2>1, ApartKept
<1>24. ASSUME NEW w \in Worker, WorkerFails(w) PROVE Apart'
  <2>1. \A v \in Worker : work'[v].todo \subseteq work[v].todo
    BY <1>24 DEF WorkerFails, NoWork, CastTypeOK, Work
  <2> QED
    BY <2>1, ApartKept
<1>25. ASSUME UNCHANGED castVars PROVE Apart'
  BY <1>25 DEF castVars, Apart
<1> QED
  BY <1>1, <1>2, <1>3, <1>4, <1>5, <1>6, <1>7, <1>8, <1>9, <1>10, <1>11,
     <1>12, <1>13, <1>14, <1>15, <1>16, <1>17, <1>18, <1>19, <1>20, <1>21,
     <1>22, <1>23, <1>24, <1>25, <1>26
     DEF CastNext, CallSteps, WorkSteps

\* The others keep their rows, and this worker's are as it should find them.
LEMMA AwaitingKept ==
  ASSUME Awaiting, Apart, PageFacts, NEW w \in Worker,
         \A v \in Worker \ {w} : work'[v] = work[v],
         \A r \in Recipient \ work[w].item : row'[r] = row[r],
         CastTypeOK,
         \A r \in work'[w].todo \ work'[w].item : row'[r] = "PENDING",
         work'[w].pc = "count" => \A r \in work'[w].item : row'[r] = Outcome(w)'
  PROVE  Awaiting'
<1> SUFFICES ASSUME NEW v \in Worker, v # w
             PROVE  /\ \A r \in work'[v].todo \ work'[v].item : row'[r] = "PENDING"
                    /\ work'[v].pc = "count" => \A r \in work'[v].item : row'[r] = Outcome(v)'
  BY DEF Awaiting
<1>1. work'[v] = work[v]
  OBVIOUS
<1>2. \A r \in work[v].todo : r \in Recipient /\ r \notin work[w].item
  BY DEF CastTypeOK, Work, Apart, PageFacts
<1>3. \A r \in work[v].todo : row'[r] = row[r]
  BY <1>2
<1>4. Outcome(v)' = Outcome(v)
  BY <1>1 DEF Outcome
<1>5. work[v].item \subseteq work[v].todo
  BY DEF PageFacts
<1> QED
  BY <1>1, <1>3, <1>4, <1>5 DEF Awaiting

\* The rows a worker has not come to stay pending, those it has settled as it left them.
LEMMA AwaitingStep ==
  ASSUME CastTypeOK, PageFacts, Apart, Awaiting, [CastNext]_castVars, ~drift'
  PROVE  Awaiting'
<1>1. ASSUME NEW c \in Admin, LoadSend(c) PROVE Awaiting'
  BY <1>1 DEF LoadSend, Awaiting, Outcome
<1>2. ASSUME NEW c \in Admin, LoadRetry(c) PROVE Awaiting'
  BY <1>2 DEF LoadRetry, Awaiting, Outcome
<1>3. ASSUME NEW c \in Admin, LoadCancel(c) PROVE Awaiting'
  BY <1>3 DEF LoadCancel, Awaiting, Outcome
<1>4. ASSUME NEW c \in Admin, Snapshot(c) PROVE Awaiting'
  <2> SUFFICES ASSUME NEW v \in Worker
               PROVE  /\ \A r \in work'[v].todo \ work'[v].item : row'[r] = "PENDING"
                      /\ work'[v].pc = "count" => \A r \in work'[v].item : row'[r] = Outcome(v)'
    BY DEF Awaiting
  <2>1. work' = work /\ \A r \in Recipient : row[r] # "NONE" => row'[r] = row[r]
    BY <1>4 DEF Snapshot
  <2>2. Outcome(v)' = Outcome(v) /\ Outcome(v) \in {"SENT", "FAILED"}
    BY <2>1 DEF Outcome
  <2>3. work[v].todo \subseteq Recipient /\ work[v].item \subseteq Recipient
    BY DEF CastTypeOK, Work
  <2> QED
    BY <2>1, <2>2, <2>3 DEF Awaiting
<1>5. ASSUME NEW c \in Admin, StartRun(c) PROVE Awaiting'
  BY <1>5 DEF StartRun, Awaiting, Outcome
<1>6. ASSUME NEW c \in Admin, EnqueueRun(c) PROVE Awaiting'
  BY <1>6 DEF EnqueueRun, Awaiting, Outcome
<1>7. ASSUME NEW c \in Admin, ResetFailed(c) PROVE Awaiting'
  <2> SUFFICES ASSUME NEW v \in Worker
               PROVE  /\ \A r \in work'[v].todo \ work'[v].item : row'[r] = "PENDING"
                      /\ work'[v].pc = "count" => \A r \in work'[v].item : row'[r] = Outcome(v)'
    BY DEF Awaiting
  <2>1. work' = work /\ \A r \in Recipient : row[r] = "PENDING" => row'[r] = row[r]
    BY <1>7 DEF ResetFailed
  <2>2. \A r \in work[v].item : row[r] = "PENDING"
    BY <1>7 DEF ResetFailed, Uncounted
  <2>3. Outcome(v) # "PENDING"
    BY DEF Outcome
  <2>4. work[v].todo \subseteq Recipient
    BY DEF CastTypeOK, Work
  <2> QED
    BY <2>1, <2>2, <2>3, <2>4 DEF Awaiting
<1>8. ASSUME NEW c \in Admin, Recount(c) PROVE Awaiting'
  BY <1>8 DEF Recount, Awaiting, Outcome
<1>9. ASSUME NEW c \in Admin, RestartRun(c) PROVE Awaiting'
  BY <1>9 DEF RestartRun, Awaiting, Outcome
<1>10. ASSUME NEW c \in Admin, WriteCancel(c) PROVE Awaiting'
  BY <1>10 DEF WriteCancel, Awaiting, Outcome
<1>11. ASSUME NEW c \in Admin, CallDies(c) PROVE Awaiting'
  BY <1>11 DEF CallDies, Awaiting, Outcome
<1>12. ASSUME NEW w \in Worker, NEW j \in waiting, TakeJob(w, j) PROVE Awaiting'
  <2>1. /\ \A v \in Worker \ {w} : work'[v] = work[v]
        /\ \A r \in Recipient \ work[w].item : row'[r] = row[r]
    BY <1>12 DEF TakeJob, NoWork, CastTypeOK
  <2>2. work'[w].todo = {} /\ work'[w].item = {}
    BY <1>12 DEF TakeJob, NoWork, CastTypeOK, Work, PageFacts
  <2> QED
    BY <2>1, <2>2, AwaitingKept
<1>13. ASSUME NEW w \in Worker, ReadStatus(w) PROVE Awaiting'
  <2>1. /\ \A v \in Worker \ {w} : work'[v] = work[v]
        /\ \A r \in Recipient \ work[w].item : row'[r] = row[r]
    BY <1>13 DEF ReadStatus, Step, CastTypeOK
  <2>2. work'[w].todo = {} /\ work'[w].item = {}
    BY <1>13 DEF ReadStatus, Step, CastTypeOK, Work, PageFacts
  <2> QED
    BY <2>1, <2>2, AwaitingKept
<1>14. ASSUME NEW w \in Worker, MarkSending(w) PROVE Awaiting'
  <2>1. /\ \A v \in Worker \ {w} : work'[v] = work[v]
        /\ \A r \in Recipient \ work[w].item : row'[r] = row[r]
    BY <1>14 DEF MarkSending, Step, CastTypeOK
  <2>2. work'[w].todo = {} /\ work'[w].item = {}
    BY <1>14 DEF MarkSending, Step, CastTypeOK, Work, PageFacts
  <2> QED
    BY <2>1, <2>2, AwaitingKept
<1>15. ASSUME NEW w \in Worker, TakePage(w) PROVE Awaiting'
  <2>1. PICK S \in SUBSET Rows("PENDING") :
          work' = [work EXCEPT ![w].pc = "deliver", ![w].todo = S,
                     ![w].next = work[w].job.cursor + Cardinality(S)]
    BY <1>15 DEF TakePage
  <2>2. work'[w].todo = S /\ work'[w].pc = "deliver" /\ \A v \in Worker \ {w} : work'[v] = work[v]
    BY <2>1 DEF CastTypeOK, Work
  <2>3. row' = row
    BY <1>15 DEF TakePage
  <2> QED
    BY <2>2, <2>3, AwaitingKept DEF Rows
<1>16. ASSUME NEW w \in Worker, LastPage(w) PROVE Awaiting'
  <2>1. /\ \A v \in Worker \ {w} : work'[v] = work[v]
        /\ \A r \in Recipient \ work[w].item : row'[r] = row[r]
    BY <1>16 DEF LastPage, CastTypeOK
  <2>2. work'[w].todo = {} /\ work'[w].item = {}
    BY <1>16 DEF LastPage, CastTypeOK, Work, PageFacts
  <2> QED
    BY <2>1, <2>2, AwaitingKept
<1>17. ASSUME NEW w \in Worker, NEW S \in SUBSET Recipient, NEW left \in 0 .. 2,
             NEW sent \in BOOLEAN, NEW caught \in BOOLEAN, Deliver(w, S, left, sent, caught)
      PROVE  Awaiting'
  <2>1. /\ \A v \in Worker \ {w} : work'[v] = work[v]
        /\ \A r \in Recipient \ work[w].item : row'[r] = row[r]
    BY <1>17 DEF Deliver, CastTypeOK
  <2>2. work'[w].todo = work[w].todo /\ work[w].item = {} /\ work'[w].pc = "row" /\ row' = row
    BY <1>17 DEF Deliver, CastTypeOK, Work, PageFacts
  <2>3. \A r \in work'[w].todo \ work'[w].item : row'[r] = "PENDING"
    BY <2>2 DEF Awaiting
  <2> QED
    BY <2>1, <2>2, AwaitingKept, <2>3
<1>26. ASSUME NEW w \in Worker, NEW s \in Recipient, Skip(w, s)
      PROVE  Awaiting'
  <2>1. /\ \A v \in Worker \ {w} : work'[v] = work[v]
        /\ \A r \in Recipient \ work[w].item : row'[r] = row[r]
    BY <1>26 DEF Skip, CastTypeOK
  <2>2. work'[w].todo = work[w].todo /\ work[w].item = {} /\ work'[w].pc = "row" /\ row' = row
    BY <1>26 DEF Skip, CastTypeOK, Work, PageFacts
  <2>3. \A r \in work'[w].todo \ work'[w].item : row'[r] = "PENDING"
    BY <2>2 DEF Awaiting
  <2> QED
    BY <2>1, <2>2, AwaitingKept, <2>3
<1>18. ASSUME NEW w \in Worker, SettleRow(w) PROVE Awaiting'
  <2>1. /\ \A v \in Worker \ {w} : work'[v] = work[v]
        /\ \A r \in Recipient \ work[w].item : row'[r] = row[r]
    BY <1>18 DEF SettleRow, Step, CastTypeOK
  <2>2. /\ work'[w].todo = work[w].todo /\ work'[w].item = work[w].item
        /\ work'[w].failed = work[w].failed
    BY <1>18 DEF SettleRow, Step, CastTypeOK, Work
  <2>3. work[w].todo \subseteq Recipient /\ work[w].item \subseteq Recipient
    BY DEF CastTypeOK, Work
  <2>4. \A r \in work'[w].todo \ work'[w].item : row'[r] = "PENDING"
    BY <2>1, <2>2, <2>3 DEF Awaiting
  <2>5. \A r \in work'[w].item : row'[r] = Outcome(w)'
    BY <1>18, <2>2, <2>3 DEF SettleRow, Outcome
  <2> QED
    BY <2>1, <2>4, <2>5, AwaitingKept
<1>19. ASSUME NEW w \in Worker, SettleCount(w) PROVE Awaiting'
  <2>0. PICK l \in {"next", "deliver"} :
          l = IF work[w].todo \ work[w].item = {} THEN "next" ELSE "deliver"
    OBVIOUS
  <2>9. work' = [work EXCEPT ![w].pc = l, ![w].todo = work[w].todo \ work[w].item,
                   ![w].item = {}, ![w].failed = FALSE, ![w].caught = FALSE]
    BY <1>19, <2>0 DEF SettleCount
  <2>1. /\ \A v \in Worker \ {w} : work'[v] = work[v]
        /\ \A r \in Recipient \ work[w].item : row'[r] = row[r]
    BY <1>19 DEF SettleCount, CastTypeOK
  <2>2. /\ work'[w].todo = work[w].todo \ work[w].item /\ work'[w].item = {}
        /\ work'[w].pc # "count" /\ row' = row
    <3>1. row' = row
      BY <1>19 DEF SettleCount
    <3> QED
      BY <2>9, <3>1 DEF CastTypeOK, Work
  <2>3. \A r \in work'[w].todo \ work'[w].item : row'[r] = "PENDING"
    BY <2>2 DEF Awaiting
  <2> QED
    BY <2>1, <2>2, AwaitingKept, <2>3
<1>20. ASSUME NEW w \in Worker, NextPage(w) PROVE Awaiting'
  <2>1. /\ \A v \in Worker \ {w} : work'[v] = work[v]
        /\ \A r \in Recipient \ work[w].item : row'[r] = row[r]
    BY <1>20 DEF NextPage, Step, CastTypeOK
  <2>2. work'[w].todo = {} /\ work'[w].item = {}
    BY <1>20 DEF NextPage, Step, CastTypeOK, Work, PageFacts
  <2> QED
    BY <2>1, <2>2, AwaitingKept
<1>21. ASSUME NEW w \in Worker, Finish(w) PROVE Awaiting'
  <2>1. /\ \A v \in Worker \ {w} : work'[v] = work[v]
        /\ \A r \in Recipient \ work[w].item : row'[r] = row[r]
    BY <1>21 DEF Finish, Step, CastTypeOK
  <2>2. work'[w].todo = {} /\ work'[w].item = {}
    BY <1>21 DEF Finish, Step, CastTypeOK, Work, PageFacts
  <2> QED
    BY <2>1, <2>2, AwaitingKept
<1>22. ASSUME NEW w \in Worker, Complete(w) PROVE Awaiting'
  <2>1. /\ \A v \in Worker \ {w} : work'[v] = work[v]
        /\ \A r \in Recipient \ work[w].item : row'[r] = row[r]
    BY <1>22 DEF Complete, NoWork, CastTypeOK
  <2>2. work'[w].todo = {} /\ work'[w].item = {}
    BY <1>22 DEF Complete, NoWork, CastTypeOK, Work, PageFacts
  <2> QED
    BY <2>1, <2>2, AwaitingKept
<1>23. ASSUME NEW w \in Worker, SettleFails(w) PROVE Awaiting'
  <2>1. /\ \A v \in Worker \ {w} : work'[v] = work[v]
        /\ \A r \in Recipient \ work[w].item : row'[r] = row[r]
    BY <1>23 DEF SettleFails, CastTypeOK
  <2>2. work'[w].todo = work[w].todo /\ work'[w].item = work[w].item /\ work'[w].pc = "row" /\ row' = row
    BY <1>23 DEF SettleFails, CastTypeOK, Work, PageFacts
  <2>3. \A r \in work'[w].todo \ work'[w].item : row'[r] = "PENDING"
    BY <2>2 DEF Awaiting
  <2> QED
    BY <2>1, <2>2, AwaitingKept, <2>3
<1>24. ASSUME NEW w \in Worker, WorkerFails(w) PROVE Awaiting'
  <2>1. /\ \A v \in Worker \ {w} : work'[v] = work[v]
        /\ \A r \in Recipient \ work[w].item : row'[r] = row[r]
    BY <1>24 DEF WorkerFails, NoWork, CastTypeOK
  <2>2. work'[w].todo = {} /\ work'[w].item = {}
    BY <1>24 DEF WorkerFails, NoWork, CastTypeOK, Work, PageFacts
  <2> QED
    BY <2>1, <2>2, AwaitingKept
<1>25. ASSUME UNCHANGED castVars PROVE Awaiting'
  BY <1>25 DEF castVars, Awaiting, Outcome
<1> QED
  BY <1>1, <1>2, <1>3, <1>4, <1>5, <1>6, <1>7, <1>8, <1>9, <1>10, <1>11,
     <1>12, <1>13, <1>14, <1>15, <1>16, <1>17, <1>18, <1>19, <1>20, <1>21,
     <1>22, <1>23, <1>24, <1>25, <1>26
     DEF CastNext, CallSteps, WorkSteps

\* With the same rows and calls, and nothing more in hand than pending rows.
LEMMA RecountedKept ==
  ASSUME Recounted, UNCHANGED <<row, admin>>, \A r \in InHand' : r \in InHand \/ row[r] = "PENDING"
  PROVE  Recounted'
  BY DEF Recounted, Recounting, Rows

\* The calls that are not between their reset and their restart do not disturb it.
LEMMA RecountedOutside ==
  ASSUME Recounted, NEW c \in Admin, UNCHANGED work, admin \in [Admin -> AdminCall],
         \A d \in Admin \ {c} : admin'[d] = admin[d],
         admin'[c].pc \notin {"recount", "restart"},
         \A r \in Recipient : row'[r] = "FAILED" => row[r] = "FAILED",
         \A r \in Recipient : row[r] = "PENDING" => row'[r] = "PENDING"
  PROVE  Recounted'
<1> SUFFICES ASSUME Recounting'
             PROVE  /\ Rows("FAILED")' = {}
                    /\ \A r \in InHand' : row'[r] = "PENDING"
                    /\ \A d \in Admin : admin'[d].pc = "restart" => admin'[d].failed = 0
  BY DEF Recounted
<1>1. Recounting
  BY DEF Recounting
<1>2. InHand' = InHand /\ InHand \subseteq Recipient
  BY DEF InHand
<1> QED
  BY <1>1, <1>2 DEF Recounted, Rows

\* Unless a settlement is cut short or crosses a retry, nothing fails while it recounts.
LEMMA RecountedStep ==
  ASSUME CastTypeOK, PageFacts, Awaiting, Recounted, [CastNext]_castVars, ~drift'
  PROVE  Recounted'
<1>1. ASSUME NEW c \in Admin, LoadSend(c) PROVE Recounted'
  <2>1. /\ \A d \in Admin \ {c} : admin'[d] = admin[d]
        /\ admin'[c].pc \notin {"recount", "restart"}
        /\ UNCHANGED work
    BY <1>1 DEF LoadSend, AdminCall, NoCall, CastTypeOK
  <2>2. /\ \A r \in Recipient : row'[r] = "FAILED" => row[r] = "FAILED"
        /\ \A r \in Recipient : row[r] = "PENDING" => row'[r] = "PENDING"
    BY <1>1 DEF LoadSend, CastTypeOK
  <2> QED
    BY <2>1, <2>2, RecountedOutside DEF CastTypeOK
<1>2. ASSUME NEW c \in Admin, LoadRetry(c) PROVE Recounted'
  <2>1. /\ \A d \in Admin \ {c} : admin'[d] = admin[d]
        /\ admin'[c].pc \notin {"recount", "restart"}
        /\ UNCHANGED work
    BY <1>2 DEF LoadRetry, AdminCall, NoCall, CastTypeOK
  <2>2. /\ \A r \in Recipient : row'[r] = "FAILED" => row[r] = "FAILED"
        /\ \A r \in Recipient : row[r] = "PENDING" => row'[r] = "PENDING"
    BY <1>2 DEF LoadRetry, CastTypeOK
  <2> QED
    BY <2>1, <2>2, RecountedOutside DEF CastTypeOK
<1>3. ASSUME NEW c \in Admin, LoadCancel(c) PROVE Recounted'
  <2>1. /\ \A d \in Admin \ {c} : admin'[d] = admin[d]
        /\ admin'[c].pc \notin {"recount", "restart"}
        /\ UNCHANGED work
    BY <1>3 DEF LoadCancel, Then, AdminCall, NoCall, CastTypeOK
  <2>2. /\ \A r \in Recipient : row'[r] = "FAILED" => row[r] = "FAILED"
        /\ \A r \in Recipient : row[r] = "PENDING" => row'[r] = "PENDING"
    BY <1>3 DEF LoadCancel, CastTypeOK
  <2> QED
    BY <2>1, <2>2, RecountedOutside DEF CastTypeOK
<1>4. ASSUME NEW c \in Admin, Snapshot(c) PROVE Recounted'
  <2>1. /\ \A d \in Admin \ {c} : admin'[d] = admin[d]
        /\ admin'[c].pc \notin {"recount", "restart"}
        /\ UNCHANGED work
    BY <1>4 DEF Snapshot, Then, AdminCall, NoCall, CastTypeOK
  <2>2. /\ \A r \in Recipient : row'[r] = "FAILED" => row[r] = "FAILED"
        /\ \A r \in Recipient : row[r] = "PENDING" => row'[r] = "PENDING"
    BY <1>4 DEF Snapshot, CastTypeOK
  <2> QED
    BY <2>1, <2>2, RecountedOutside DEF CastTypeOK
<1>5. ASSUME NEW c \in Admin, StartRun(c) PROVE Recounted'
  <2>1. /\ \A d \in Admin \ {c} : admin'[d] = admin[d]
        /\ admin'[c].pc \notin {"recount", "restart"}
        /\ UNCHANGED work
    BY <1>5 DEF StartRun, Then, AdminCall, NoCall, CastTypeOK
  <2>2. /\ \A r \in Recipient : row'[r] = "FAILED" => row[r] = "FAILED"
        /\ \A r \in Recipient : row[r] = "PENDING" => row'[r] = "PENDING"
    BY <1>5 DEF StartRun, CastTypeOK
  <2> QED
    BY <2>1, <2>2, RecountedOutside DEF CastTypeOK
<1>6. ASSUME NEW c \in Admin, EnqueueRun(c) PROVE Recounted'
  <2>1. /\ \A d \in Admin \ {c} : admin'[d] = admin[d]
        /\ admin'[c].pc \notin {"recount", "restart"}
        /\ UNCHANGED work
    BY <1>6 DEF EnqueueRun, Leave, AdminCall, NoCall, CastTypeOK
  <2>2. /\ \A r \in Recipient : row'[r] = "FAILED" => row[r] = "FAILED"
        /\ \A r \in Recipient : row[r] = "PENDING" => row'[r] = "PENDING"
    BY <1>6 DEF EnqueueRun, CastTypeOK
  <2> QED
    BY <2>1, <2>2, RecountedOutside DEF CastTypeOK
<1>7. ASSUME NEW c \in Admin, ResetFailed(c) PROVE Recounted'
  <2>1. /\ \A d \in Admin \ {c} : admin'[d] = admin[d]
        /\ admin[c].pc = "reset" /\ admin'[c].pc = "recount"
        /\ UNCHANGED work
    BY <1>7 DEF ResetFailed, Then, AdminCall, CastTypeOK
  <2>2. Rows("FAILED")' = {} /\ \A r \in Recipient : row[r] = "PENDING" => row'[r] = "PENDING"
    BY <1>7 DEF ResetFailed, Rows
  <2>3. \A r \in InHand' : row[r] = "PENDING" /\ r \in Recipient
    BY <1>7 DEF ResetFailed, Uncounted, InHand
  <2>4. \A d \in Admin : admin'[d].pc = "restart" => admin'[d].failed = 0
    <3> SUFFICES ASSUME NEW d \in Admin, admin'[d].pc = "restart" PROVE admin'[d].failed = 0
      OBVIOUS
    <3>1. d # c /\ admin[d].pc = "restart" /\ admin'[d] = admin[d]
      BY <2>1
    <3> QED
      BY <3>1 DEF Recounted, Recounting
  <2> QED
    BY <2>2, <2>3, <2>4 DEF Recounted
<1>8. ASSUME NEW c \in Admin, Recount(c) PROVE Recounted'
  <2>1. /\ \A d \in Admin \ {c} : admin'[d] = admin[d]
        /\ admin[c].pc = "recount" /\ admin'[c].failed = Cardinality(Rows("FAILED"))
        /\ UNCHANGED <<work, row>>
    BY <1>8 DEF Recount, AdminCall, CastTypeOK
  <2>2. Recounting /\ Rows("FAILED") = {}
    BY <2>1 DEF Recounted, Recounting
  <2>3. admin'[c].failed = 0
    BY <2>1, <2>2, FS_EmptySet
  <2>4. InHand' = InHand /\ Rows("FAILED")' = Rows("FAILED")
    BY <2>1 DEF InHand, Rows
  <2> QED
    BY <2>1, <2>2, <2>3, <2>4 DEF Recounted
<1>9. ASSUME NEW c \in Admin, RestartRun(c) PROVE Recounted'
  <2>1. /\ \A d \in Admin \ {c} : admin'[d] = admin[d]
        /\ admin'[c].pc \notin {"recount", "restart"}
        /\ UNCHANGED work
    BY <1>9 DEF RestartRun, Then, AdminCall, NoCall, CastTypeOK
  <2>2. /\ \A r \in Recipient : row'[r] = "FAILED" => row[r] = "FAILED"
        /\ \A r \in Recipient : row[r] = "PENDING" => row'[r] = "PENDING"
    BY <1>9 DEF RestartRun, CastTypeOK
  <2> QED
    BY <2>1, <2>2, RecountedOutside DEF CastTypeOK
<1>10. ASSUME NEW c \in Admin, WriteCancel(c) PROVE Recounted'
  <2>1. /\ \A d \in Admin \ {c} : admin'[d] = admin[d]
        /\ admin'[c].pc \notin {"recount", "restart"}
        /\ UNCHANGED work
    BY <1>10 DEF WriteCancel, Leave, AdminCall, NoCall, CastTypeOK
  <2>2. /\ \A r \in Recipient : row'[r] = "FAILED" => row[r] = "FAILED"
        /\ \A r \in Recipient : row[r] = "PENDING" => row'[r] = "PENDING"
    BY <1>10 DEF WriteCancel, CastTypeOK
  <2> QED
    BY <2>1, <2>2, RecountedOutside DEF CastTypeOK
<1>11. ASSUME NEW c \in Admin, CallDies(c) PROVE Recounted'
  <2>1. /\ \A d \in Admin \ {c} : admin'[d] = admin[d]
        /\ admin'[c].pc \notin {"recount", "restart"}
        /\ UNCHANGED work
    BY <1>11 DEF CallDies, Leave, AdminCall, NoCall, CastTypeOK
  <2>2. /\ \A r \in Recipient : row'[r] = "FAILED" => row[r] = "FAILED"
        /\ \A r \in Recipient : row[r] = "PENDING" => row'[r] = "PENDING"
    BY <1>11 DEF CallDies, CastTypeOK
  <2> QED
    BY <2>1, <2>2, RecountedOutside DEF CastTypeOK
<1>12. ASSUME NEW w \in Worker, NEW j \in waiting, TakeJob(w, j) PROVE Recounted'
  <2>1. UNCHANGED <<row, admin>>
    BY <1>12 DEF TakeJob
  <2>2. \A r \in InHand' : r \in InHand \/ row[r] = "PENDING"
    BY <1>12 DEF TakeJob, NoWork, InHand, CastTypeOK, Work
  <2> QED
    BY <2>1, <2>2, RecountedKept
<1>13. ASSUME NEW w \in Worker, ReadStatus(w) PROVE Recounted'
  <2>1. UNCHANGED <<row, admin>>
    BY <1>13 DEF ReadStatus
  <2>2. \A r \in InHand' : r \in InHand \/ row[r] = "PENDING"
    BY <1>13 DEF ReadStatus, Step, InHand, CastTypeOK, Work
  <2> QED
    BY <2>1, <2>2, RecountedKept
<1>14. ASSUME NEW w \in Worker, MarkSending(w) PROVE Recounted'
  <2>1. UNCHANGED <<row, admin>>
    BY <1>14 DEF MarkSending
  <2>2. \A r \in InHand' : r \in InHand \/ row[r] = "PENDING"
    BY <1>14 DEF MarkSending, Step, InHand, CastTypeOK, Work
  <2> QED
    BY <2>1, <2>2, RecountedKept
<1>15. ASSUME NEW w \in Worker, TakePage(w) PROVE Recounted'
  <2>1. PICK S \in SUBSET Rows("PENDING") :
          work' = [work EXCEPT ![w].pc = "deliver", ![w].todo = S,
                     ![w].next = work[w].job.cursor + Cardinality(S)]
    BY <1>15 DEF TakePage
  <2> DEFINE n == work[w].job.cursor + Cardinality(S)
  <2>4. work' = [work EXCEPT ![w].pc = "deliver", ![w].todo = S, ![w].next = n]
    BY <2>1
  <2> HIDE DEF n
  <2>5. \A v \in Worker : work'[v].item = work[v].item
    BY <2>4 DEF CastTypeOK, Work
  <2>2. InHand' = InHand
    BY <2>5 DEF InHand
  <2>3. UNCHANGED <<row, admin>>
    BY <1>15 DEF TakePage
  <2> QED
    BY <2>2, <2>3, RecountedKept
<1>16. ASSUME NEW w \in Worker, LastPage(w) PROVE Recounted'
  <2>1. UNCHANGED <<row, admin>>
    BY <1>16 DEF LastPage
  <2>2. \A r \in InHand' : r \in InHand \/ row[r] = "PENDING"
    BY <1>16 DEF LastPage, InHand, CastTypeOK, Work
  <2> QED
    BY <2>1, <2>2, RecountedKept
<1>17. ASSUME NEW w \in Worker, NEW S \in SUBSET Recipient, NEW left \in 0 .. 2,
             NEW sent \in BOOLEAN, NEW caught \in BOOLEAN, Deliver(w, S, left, sent, caught)
      PROVE  Recounted'
  <2>1. UNCHANGED <<row, admin>>
    BY <1>17 DEF Deliver
  <2>2. work[w].item = {} /\ work'[w].item = S /\ S \subseteq work[w].todo
    BY <1>17 DEF Deliver, PageFacts, CastTypeOK, Work
  <2>3. \A v \in Worker \ {w} : work'[v] = work[v]
    BY <1>17 DEF Deliver, CastTypeOK
  <2>4. \A r \in S : row[r] = "PENDING"
    BY <2>2 DEF Awaiting
  <2>5. \A r \in InHand' : r \in InHand \/ row[r] = "PENDING"
    BY <2>2, <2>3, <2>4 DEF InHand
  <2> QED
    BY <2>1, <2>5, RecountedKept
<1>26. ASSUME NEW w \in Worker, NEW s \in Recipient, Skip(w, s)
      PROVE  Recounted'
  <2>1. UNCHANGED <<row, admin>>
    BY <1>26 DEF Skip
  <2>2. work[w].item = {} /\ work'[w].item = {s} /\ s \in work[w].todo
    BY <1>26 DEF Skip, PageFacts, CastTypeOK, Work
  <2>3. \A v \in Worker \ {w} : work'[v] = work[v]
    BY <1>26 DEF Skip, CastTypeOK
  <2>4. \A r \in {s} : row[r] = "PENDING"
    BY <2>2 DEF Awaiting
  <2>5. \A r \in InHand' : r \in InHand \/ row[r] = "PENDING"
    BY <2>2, <2>3, <2>4 DEF InHand
  <2> QED
    BY <2>1, <2>5, RecountedKept
<1>18. ASSUME NEW w \in Worker, SettleRow(w) PROVE Recounted'
  <2>1. ~Recounting /\ admin' = admin
    BY <1>18 DEF SettleRow
  <2> QED
    BY <2>1 DEF Recounted, Recounting
<1>19. ASSUME NEW w \in Worker, SettleCount(w) PROVE Recounted'
  <2>1. ~Recounting /\ admin' = admin
    BY <1>19 DEF SettleCount
  <2> QED
    BY <2>1 DEF Recounted, Recounting
<1>20. ASSUME NEW w \in Worker, NextPage(w) PROVE Recounted'
  <2>1. UNCHANGED <<row, admin>>
    BY <1>20 DEF NextPage
  <2>2. \A r \in InHand' : r \in InHand \/ row[r] = "PENDING"
    BY <1>20 DEF NextPage, Step, InHand, CastTypeOK, Work
  <2> QED
    BY <2>1, <2>2, RecountedKept
<1>21. ASSUME NEW w \in Worker, Finish(w) PROVE Recounted'
  <2>1. UNCHANGED <<row, admin>>
    BY <1>21 DEF Finish
  <2>2. \A r \in InHand' : r \in InHand \/ row[r] = "PENDING"
    BY <1>21 DEF Finish, Step, InHand, CastTypeOK, Work
  <2> QED
    BY <2>1, <2>2, RecountedKept
<1>22. ASSUME NEW w \in Worker, Complete(w) PROVE Recounted'
  <2>1. UNCHANGED <<row, admin>>
    BY <1>22 DEF Complete
  <2>2. \A r \in InHand' : r \in InHand \/ row[r] = "PENDING"
    BY <1>22 DEF Complete, NoWork, InHand, CastTypeOK, Work
  <2> QED
    BY <2>1, <2>2, RecountedKept
<1>23. ASSUME NEW w \in Worker, SettleFails(w) PROVE Recounted'
  <2>1. UNCHANGED <<row, admin>>
    BY <1>23 DEF SettleFails
  <2>2. \A r \in InHand' : r \in InHand \/ row[r] = "PENDING"
    BY <1>23 DEF SettleFails, InHand, CastTypeOK, Work
  <2> QED
    BY <2>1, <2>2, RecountedKept
<1>24. ASSUME NEW w \in Worker, WorkerFails(w) PROVE Recounted'
  <2>1. UNCHANGED <<row, admin>>
    BY <1>24 DEF WorkerFails
  <2>2. \A r \in InHand' : r \in InHand \/ row[r] = "PENDING"
    BY <1>24 DEF WorkerFails, NoWork, InHand, CastTypeOK, Work
  <2> QED
    BY <2>1, <2>2, RecountedKept
<1>25. ASSUME UNCHANGED castVars PROVE Recounted'
  BY <1>25 DEF castVars, Recounted, Recounting, Rows, InHand
<1> QED
  BY <1>1, <1>2, <1>3, <1>4, <1>5, <1>6, <1>7, <1>8, <1>9, <1>10, <1>11,
     <1>12, <1>13, <1>14, <1>15, <1>16, <1>17, <1>18, <1>19, <1>20, <1>21,
     <1>22, <1>23, <1>24, <1>25, <1>26
     DEF CastNext, CallSteps, WorkSteps

\* A step that settles and counts no row as s.
LEMMA ClosedKept ==
  ASSUME NEW s \in {"SENT", "FAILED"},
         \A r \in Recipient : (row'[r] = s /\ r \notin InHand') <=> (row[r] = s /\ r \notin InHand)
  PROVE  Closed(s)' = Closed(s)
  BY DEF Closed, Rows

\* Only the rows in hand change, and none is counted but those that were pending.
LEMMA ClosedApart ==
  ASSUME \A r \in Recipient : r \in InHand \/ row'[r] = row[r],
         \A r \in InHand' : r \in InHand \/ row[r] = "PENDING",
         \A r \in InHand : r \in InHand' \/ (row[r] = "PENDING" /\ row'[r] = row[r])
  PROVE  Closed("SENT")' = Closed("SENT") /\ Closed("FAILED")' = Closed("FAILED")
<1>1. \A s \in {"SENT", "FAILED"} : Closed(s)' = Closed(s)
  <2> SUFFICES ASSUME NEW s \in {"SENT", "FAILED"}, NEW r \in Recipient
               PROVE  (row'[r] = s /\ r \notin InHand') <=> (row[r] = s /\ r \notin InHand)
    BY ClosedKept
  <2> QED
    OBVIOUS
<1> QED
  BY <1>1

\* Neither the counters nor the rows counted change.
LEMMA SumsKept ==
  ASSUME Sums, UNCHANGED counters, Recounting' = Recounting,
         Closed("SENT")' = Closed("SENT"), Closed("FAILED")' = Closed("FAILED")
  PROVE  Sums'
  BY DEF Sums, counters

\* A call that is not between its reset and its restart does not disturb who is.
LEMMA RecountingKept ==
  ASSUME NEW c \in Admin, admin \in [Admin -> AdminCall],
         \A d \in Admin \ {c} : admin'[d] = admin[d],
         admin[c].pc \notin {"recount", "restart"}, admin'[c].pc \notin {"recount", "restart"}
  PROVE  Recounting' = Recounting
  BY DEF Recounting

\* Recipients that were not among the others are counted with them.
LEMMA OneMoreLot ==
  ASSUME NEW S \in SUBSET Recipient, NEW T \in SUBSET Recipient, S \cap T = {}
  PROVE  Cardinality(S \cup T) = Cardinality(S) + Cardinality(T)
<1>1. IsFiniteSet(S) /\ IsFiniteSet(T)
  BY BroadcastAssumption, FS_Subset
<1>2. Cardinality(S \cup T) = Cardinality(S) + Cardinality(T) - Cardinality(S \cap T)
  BY <1>1, FS_Union
<1>3. Cardinality(S \cap T) = 0
  BY FS_EmptySet
<1>4. Cardinality(S) \in Nat /\ Cardinality(T) \in Nat
  BY CardNat
<1> QED
  BY <1>2, <1>3, <1>4

\* Unless a settlement is cut short or crosses a retry, a counter moves with its rows.
LEMMA SumsStep ==
  ASSUME CastTypeOK, PageFacts, Apart, Awaiting, Recounted, Sums, [CastNext]_castVars, ~drift'
  PROVE  Sums'
<1>1. ASSUME NEW c \in Admin, LoadSend(c) PROVE Sums'
  <2>1. /\ \A d \in Admin \ {c} : admin'[d] = admin[d]
        /\ admin[c].pc \notin {"recount", "restart"} /\ admin'[c].pc \notin {"recount", "restart"}
    BY <1>1 DEF LoadSend, AdminCall, NoCall, CastTypeOK
  <2>2. Recounting' = Recounting
    BY <2>1, RecountingKept DEF CastTypeOK
  <2>3. UNCHANGED <<counters, work, row>>
    BY <1>1 DEF LoadSend
  <2>4. Closed("SENT")' = Closed("SENT") /\ Closed("FAILED")' = Closed("FAILED")
    BY <2>3 DEF Closed, Rows, InHand
  <2> QED
    BY <2>2, <2>3, <2>4, SumsKept
<1>2. ASSUME NEW c \in Admin, LoadRetry(c) PROVE Sums'
  <2>1. /\ \A d \in Admin \ {c} : admin'[d] = admin[d]
        /\ admin[c].pc \notin {"recount", "restart"} /\ admin'[c].pc \notin {"recount", "restart"}
    BY <1>2 DEF LoadRetry, AdminCall, NoCall, CastTypeOK
  <2>2. Recounting' = Recounting
    BY <2>1, RecountingKept DEF CastTypeOK
  <2>3. UNCHANGED <<counters, work, row>>
    BY <1>2 DEF LoadRetry
  <2>4. Closed("SENT")' = Closed("SENT") /\ Closed("FAILED")' = Closed("FAILED")
    BY <2>3 DEF Closed, Rows, InHand
  <2> QED
    BY <2>2, <2>3, <2>4, SumsKept
<1>3. ASSUME NEW c \in Admin, LoadCancel(c) PROVE Sums'
  <2>1. /\ \A d \in Admin \ {c} : admin'[d] = admin[d]
        /\ admin[c].pc \notin {"recount", "restart"} /\ admin'[c].pc \notin {"recount", "restart"}
    BY <1>3 DEF LoadCancel, Then, AdminCall, NoCall, CastTypeOK
  <2>2. Recounting' = Recounting
    BY <2>1, RecountingKept DEF CastTypeOK
  <2>3. UNCHANGED <<counters, work, row>>
    BY <1>3 DEF LoadCancel
  <2>4. Closed("SENT")' = Closed("SENT") /\ Closed("FAILED")' = Closed("FAILED")
    BY <2>3 DEF Closed, Rows, InHand
  <2> QED
    BY <2>2, <2>3, <2>4, SumsKept
<1>4. ASSUME NEW c \in Admin, Snapshot(c) PROVE Sums'
  <2>1. /\ \A d \in Admin \ {c} : admin'[d] = admin[d]
        /\ admin[c].pc \notin {"recount", "restart"} /\ admin'[c].pc \notin {"recount", "restart"}
    BY <1>4 DEF Snapshot, Then, AdminCall, NoCall, CastTypeOK
  <2>2. Recounting' = Recounting
    BY <2>1, RecountingKept DEF CastTypeOK
  <2>3. UNCHANGED <<counters, work>>
    BY <1>4 DEF Snapshot
  <2>4. Closed("SENT")' = Closed("SENT") /\ Closed("FAILED")' = Closed("FAILED")
    <3>1. InHand' = InHand
      BY <2>3 DEF InHand
    <3>2. \A r \in Recipient : row'[r] = row[r] \/ (row[r] = "NONE" /\ row'[r] = "PENDING")
      BY <1>4 DEF Snapshot
    <3> QED
      BY <3>1, <3>2, ClosedKept
  <2> QED
    BY <2>2, <2>3, <2>4, SumsKept
<1>5. ASSUME NEW c \in Admin, StartRun(c) PROVE Sums'
  <2>1. /\ \A d \in Admin \ {c} : admin'[d] = admin[d]
        /\ admin[c].pc \notin {"recount", "restart"} /\ admin'[c].pc \notin {"recount", "restart"}
    BY <1>5 DEF StartRun, Then, AdminCall, NoCall, CastTypeOK
  <2>2. Recounting' = Recounting
    BY <2>1, RecountingKept DEF CastTypeOK
  <2>3. UNCHANGED <<counters, work, row>>
    BY <1>5 DEF StartRun
  <2>4. Closed("SENT")' = Closed("SENT") /\ Closed("FAILED")' = Closed("FAILED")
    BY <2>3 DEF Closed, Rows, InHand
  <2> QED
    BY <2>2, <2>3, <2>4, SumsKept
<1>6. ASSUME NEW c \in Admin, EnqueueRun(c) PROVE Sums'
  <2>1. /\ \A d \in Admin \ {c} : admin'[d] = admin[d]
        /\ admin[c].pc \notin {"recount", "restart"} /\ admin'[c].pc \notin {"recount", "restart"}
    BY <1>6 DEF EnqueueRun, Leave, AdminCall, NoCall, CastTypeOK
  <2>2. Recounting' = Recounting
    BY <2>1, RecountingKept DEF CastTypeOK
  <2>3. UNCHANGED <<counters, work, row>>
    BY <1>6 DEF EnqueueRun
  <2>4. Closed("SENT")' = Closed("SENT") /\ Closed("FAILED")' = Closed("FAILED")
    BY <2>3 DEF Closed, Rows, InHand
  <2> QED
    BY <2>2, <2>3, <2>4, SumsKept
<1>7. ASSUME NEW c \in Admin, ResetFailed(c) PROVE Sums'
  <2>1. Recounting'
    BY <1>7 DEF ResetFailed, Then, Recounting, CastTypeOK
  <2>2. InHand' = InHand /\ sentCount' = sentCount
    BY <1>7 DEF ResetFailed, InHand, counters
  <2>3. \A r \in Recipient : row'[r] = row[r] \/ (row[r] = "FAILED" /\ row'[r] = "PENDING")
    BY <1>7 DEF ResetFailed
  <2>4. Closed("SENT")' = Closed("SENT")
    BY <2>2, <2>3, ClosedKept
  <2> QED
    BY <2>1, <2>2, <2>4 DEF Sums
<1>8. ASSUME NEW c \in Admin, Recount(c) PROVE Sums'
  <2>1. Recounting'
    BY <1>8 DEF Recount, Recounting, AdminCall, CastTypeOK
  <2>2. UNCHANGED <<row, work, sentCount>>
    BY <1>8 DEF Recount, counters
  <2>3. Closed("SENT")' = Closed("SENT")
    BY <2>2 DEF Closed, Rows, InHand
  <2> QED
    BY <2>1, <2>2, <2>3 DEF Sums
<1>9. ASSUME NEW c \in Admin, RestartRun(c) PROVE Sums'
  <2>1. UNCHANGED <<row, work, sentCount>>
    BY <1>9 DEF RestartRun
  <2>2. Closed("SENT")' = Closed("SENT") /\ Closed("FAILED")' = Closed("FAILED")
    BY <2>1 DEF Closed, Rows, InHand
  <2>3. Recounting /\ admin[c].pc = "restart"
    BY <1>9 DEF RestartRun, Recounting
  <2>4. failedCount' = 0 /\ Rows("FAILED") = {}
    BY <1>9, <2>3 DEF RestartRun, Recounted
  <2>5. Cardinality(Closed("FAILED")) = 0
    BY <2>4, FS_EmptySet DEF Closed
  <2> QED
    BY <2>1, <2>2, <2>4, <2>5 DEF Sums
<1>10. ASSUME NEW c \in Admin, WriteCancel(c) PROVE Sums'
  <2>1. /\ \A d \in Admin \ {c} : admin'[d] = admin[d]
        /\ admin[c].pc \notin {"recount", "restart"} /\ admin'[c].pc \notin {"recount", "restart"}
    BY <1>10 DEF WriteCancel, Leave, AdminCall, NoCall, CastTypeOK
  <2>2. Recounting' = Recounting
    BY <2>1, RecountingKept DEF CastTypeOK
  <2>3. UNCHANGED <<counters, work, row>>
    BY <1>10 DEF WriteCancel
  <2>4. Closed("SENT")' = Closed("SENT") /\ Closed("FAILED")' = Closed("FAILED")
    BY <2>3 DEF Closed, Rows, InHand
  <2> QED
    BY <2>2, <2>3, <2>4, SumsKept
<1>11. ASSUME NEW c \in Admin, CallDies(c) PROVE Sums'
  <2>1. /\ \A d \in Admin \ {c} : admin'[d] = admin[d]
        /\ admin[c].pc \notin {"recount", "restart"} /\ admin'[c].pc \notin {"recount", "restart"}
    BY <1>11 DEF CallDies, Leave, AdminCall, NoCall, CastTypeOK
  <2>2. Recounting' = Recounting
    BY <2>1, RecountingKept DEF CastTypeOK
  <2>3. UNCHANGED <<counters, work, row>>
    BY <1>11 DEF CallDies
  <2>4. Closed("SENT")' = Closed("SENT") /\ Closed("FAILED")' = Closed("FAILED")
    BY <2>3 DEF Closed, Rows, InHand
  <2> QED
    BY <2>2, <2>3, <2>4, SumsKept
<1>12. ASSUME NEW w \in Worker, NEW j \in waiting, TakeJob(w, j) PROVE Sums'
  <2>1. UNCHANGED <<row, admin, counters>> /\ Recounting' = Recounting
    BY <1>12 DEF TakeJob, Recounting
  <2>2. InHand' = InHand
    BY <1>12 DEF TakeJob, NoWork, InHand, CastTypeOK, Work, PageFacts
  <2> QED
    BY <2>1, <2>2, SumsKept DEF Closed, Rows
<1>13. ASSUME NEW w \in Worker, ReadStatus(w) PROVE Sums'
  <2>1. UNCHANGED <<row, admin, counters>> /\ Recounting' = Recounting
    BY <1>13 DEF ReadStatus, Recounting
  <2>2. InHand' = InHand
    BY <1>13 DEF ReadStatus, Step, InHand, CastTypeOK, Work, PageFacts
  <2> QED
    BY <2>1, <2>2, SumsKept DEF Closed, Rows
<1>14. ASSUME NEW w \in Worker, MarkSending(w) PROVE Sums'
  <2>1. UNCHANGED <<row, admin, counters>> /\ Recounting' = Recounting
    BY <1>14 DEF MarkSending, Recounting
  <2>2. InHand' = InHand
    BY <1>14 DEF MarkSending, Step, InHand, CastTypeOK, Work, PageFacts
  <2> QED
    BY <2>1, <2>2, SumsKept DEF Closed, Rows
<1>15. ASSUME NEW w \in Worker, TakePage(w) PROVE Sums'
  <2>1. PICK S \in SUBSET Rows("PENDING") :
          work' = [work EXCEPT ![w].pc = "deliver", ![w].todo = S,
                     ![w].next = work[w].job.cursor + Cardinality(S)]
    BY <1>15 DEF TakePage
  <2> DEFINE n == work[w].job.cursor + Cardinality(S)
  <2>2. work' = [work EXCEPT ![w].pc = "deliver", ![w].todo = S, ![w].next = n]
    BY <2>1
  <2> HIDE DEF n
  <2>3. \A v \in Worker : work'[v].item = work[v].item
    BY <2>2 DEF CastTypeOK, Work
  <2>4. InHand' = InHand
    BY <2>3 DEF InHand
  <2>5. UNCHANGED <<row, admin, counters>> /\ Recounting' = Recounting
    BY <1>15 DEF TakePage, Recounting
  <2> QED
    BY <2>4, <2>5, SumsKept DEF Closed, Rows
<1>16. ASSUME NEW w \in Worker, LastPage(w) PROVE Sums'
  <2>1. UNCHANGED <<row, admin, counters>> /\ Recounting' = Recounting
    BY <1>16 DEF LastPage, Recounting
  <2>2. InHand' = InHand
    BY <1>16 DEF LastPage, InHand, CastTypeOK, Work, PageFacts
  <2> QED
    BY <2>1, <2>2, SumsKept DEF Closed, Rows
<1>17. ASSUME NEW w \in Worker, NEW S \in SUBSET Recipient, NEW left \in 0 .. 2,
             NEW sent \in BOOLEAN, NEW caught \in BOOLEAN, Deliver(w, S, left, sent, caught)
      PROVE  Sums'
  <2>1. UNCHANGED <<row, admin, counters>> /\ Recounting' = Recounting
    BY <1>17 DEF Deliver, Recounting
  <2>2. work[w].item = {} /\ work'[w].item = S /\ S \subseteq work[w].todo
    BY <1>17 DEF Deliver, PageFacts, CastTypeOK, Work
  <2>3. \A v \in Worker \ {w} : work'[v] = work[v]
    BY <1>17 DEF Deliver, CastTypeOK
  <2>4. \A r \in S : row[r] = "PENDING"
    BY <2>2 DEF Awaiting
  <2>5. /\ \A r \in InHand' : r \in InHand \/ row[r] = "PENDING"
        /\ \A r \in InHand : r \in InHand'
    BY <2>2, <2>3, <2>4 DEF InHand
  <2> QED
    BY <2>1, <2>5, ClosedApart, SumsKept
<1>26. ASSUME NEW w \in Worker, NEW s \in Recipient, Skip(w, s)
      PROVE  Sums'
  <2>1. UNCHANGED <<row, admin, counters>> /\ Recounting' = Recounting
    BY <1>26 DEF Skip, Recounting
  <2>2. work[w].item = {} /\ work'[w].item = {s} /\ s \in work[w].todo
    BY <1>26 DEF Skip, PageFacts, CastTypeOK, Work
  <2>3. \A v \in Worker \ {w} : work'[v] = work[v]
    BY <1>26 DEF Skip, CastTypeOK
  <2>4. \A r \in {s} : row[r] = "PENDING"
    BY <2>2 DEF Awaiting
  <2>5. /\ \A r \in InHand' : r \in InHand \/ row[r] = "PENDING"
        /\ \A r \in InHand : r \in InHand'
    BY <2>2, <2>3, <2>4 DEF InHand
  <2> QED
    BY <2>1, <2>5, ClosedApart, SumsKept
<1>18. ASSUME NEW w \in Worker, SettleRow(w) PROVE Sums'
  <2>1. UNCHANGED <<admin, counters>> /\ Recounting' = Recounting
    BY <1>18 DEF SettleRow, Recounting
  <2>2. InHand' = InHand
    BY <1>18 DEF SettleRow, Step, InHand, CastTypeOK, Work
  <2>3. \A r \in Recipient : r \in InHand \/ row'[r] = row[r]
    BY <1>18 DEF SettleRow, InHand
  <2> QED
    BY <2>1, <2>2, <2>3, ClosedApart, SumsKept
<1>19. ASSUME NEW w \in Worker, SettleCount(w) PROVE Sums'
  <2> DEFINE I == work[w].item
  <2>1. UNCHANGED <<row, admin>> /\ Recounting' = Recounting /\ ~Recounting /\ work[w].pc = "count"
    BY <1>19 DEF SettleCount, Recounting
  <2>2. work'[w].item = {} /\ \A v \in Worker \ {w} : work'[v] = work[v]
    BY <1>19 DEF SettleCount, CastTypeOK, Work
  <2>3. \A r \in I : row[r] = Outcome(w)
    BY <2>1 DEF Awaiting
  <2>4. I \subseteq Recipient /\ I \subseteq InHand /\ work[w].failed \in BOOLEAN
    BY DEF CastTypeOK, Work, InHand
  <2>5. InHand' = InHand \ I
    <3>1. \A v \in Worker \ {w} : work[v].item \cap I = {}
      BY DEF Apart, PageFacts
    <3> QED
      BY <2>2, <3>1 DEF InHand
  <2>6. PICK s \in {"SENT", "FAILED"} : s = Outcome(w)
    BY DEF Outcome
  <2>7. Closed(s)' = Closed(s) \cup I /\ Closed(s) \cap I = {}
    BY <2>1, <2>3, <2>4, <2>5, <2>6 DEF Closed, Rows
  <2>8. \A t \in {"SENT", "FAILED"} \ {s} : Closed(t)' = Closed(t)
    BY <2>1, <2>3, <2>4, <2>5, <2>6 DEF Closed, Rows
  <2>9. Cardinality(Closed(s)') = Cardinality(Closed(s)) + Cardinality(I)
    <3>1. Closed(s) \subseteq Recipient
      BY DEF Closed, Rows
    <3> QED
      BY <2>4, <2>7, <3>1, OneMoreLot
  <2>10. CASE work[w].failed
    <3>1. failedCount' = failedCount + Cardinality(I) /\ sentCount' = sentCount
      BY <1>19, <2>10 DEF SettleCount
    <3>2. s = "FAILED"
      BY <2>6, <2>10 DEF Outcome
    <3>3. Closed("SENT")' = Closed("SENT")
      BY <2>8, <3>2
    <3> QED
      BY <2>1, <2>9, <3>1, <3>2, <3>3 DEF Sums
  <2>11. CASE ~work[w].failed
    <3>1. sentCount' = sentCount + Cardinality(I) /\ failedCount' = failedCount
      BY <1>19, <2>11 DEF SettleCount
    <3>2. s = "SENT"
      BY <2>6, <2>11 DEF Outcome
    <3>3. Closed("FAILED")' = Closed("FAILED")
      BY <2>8, <3>2
    <3> QED
      BY <2>1, <2>9, <3>1, <3>2, <3>3 DEF Sums
  <2> QED
    BY <2>10, <2>11
<1>20. ASSUME NEW w \in Worker, NextPage(w) PROVE Sums'
  <2>1. UNCHANGED <<row, admin, counters>> /\ Recounting' = Recounting
    BY <1>20 DEF NextPage, Recounting
  <2>2. InHand' = InHand
    BY <1>20 DEF NextPage, Step, InHand, CastTypeOK, Work, PageFacts
  <2> QED
    BY <2>1, <2>2, SumsKept DEF Closed, Rows
<1>21. ASSUME NEW w \in Worker, Finish(w) PROVE Sums'
  <2>1. UNCHANGED <<row, admin, counters>> /\ Recounting' = Recounting
    BY <1>21 DEF Finish, Recounting
  <2>2. InHand' = InHand
    BY <1>21 DEF Finish, Step, InHand, CastTypeOK, Work, PageFacts
  <2> QED
    BY <2>1, <2>2, SumsKept DEF Closed, Rows
<1>22. ASSUME NEW w \in Worker, Complete(w) PROVE Sums'
  <2>1. UNCHANGED <<row, admin, counters>> /\ Recounting' = Recounting
    BY <1>22 DEF Complete, Recounting
  <2>2. InHand' = InHand
    BY <1>22 DEF Complete, NoWork, InHand, CastTypeOK, Work, PageFacts
  <2> QED
    BY <2>1, <2>2, SumsKept DEF Closed, Rows
<1>23. ASSUME NEW w \in Worker, SettleFails(w) PROVE Sums'
  <2>1. UNCHANGED <<row, admin, counters>> /\ Recounting' = Recounting
    BY <1>23 DEF SettleFails, Recounting
  <2>2. InHand' = InHand
    BY <1>23 DEF SettleFails, InHand, CastTypeOK, Work, PageFacts
  <2> QED
    BY <2>1, <2>2, SumsKept DEF Closed, Rows
<1>24. ASSUME NEW w \in Worker, WorkerFails(w) PROVE Sums'
  <2>1. UNCHANGED <<row, admin, counters>> /\ Recounting' = Recounting
    BY <1>24 DEF WorkerFails, Recounting
  <2>2. work'[w].item = {} /\ \A v \in Worker \ {w} : work'[v] = work[v]
    BY <1>24 DEF WorkerFails, NoWork, CastTypeOK
  <2>3. \A r \in work[w].item : row[r] = "PENDING"
    BY <1>24 DEF WorkerFails, Uncounted
  <2>4. /\ \A r \in InHand' : r \in InHand
        /\ \A r \in InHand : r \in InHand' \/ row[r] = "PENDING"
    BY <2>2, <2>3 DEF InHand
  <2> QED
    BY <2>1, <2>4, ClosedApart, SumsKept
<1>25. ASSUME UNCHANGED castVars PROVE Sums'
  BY <1>25 DEF castVars, Sums, counters, Recounting, Closed, Rows, InHand
<1> QED
  BY <1>1, <1>2, <1>3, <1>4, <1>5, <1>6, <1>7, <1>8, <1>9, <1>10, <1>11,
     <1>12, <1>13, <1>14, <1>15, <1>16, <1>17, <1>18, <1>19, <1>20, <1>21,
     <1>22, <1>23, <1>24, <1>25, <1>26
     DEF CastNext, CallSteps, WorkSteps

\* Every step keeps the counters up with the rows.
LEMMA TallyStep ==
  ASSUME CastInv, Tally, [CastNext]_castVars
  PROVE  Tally'
<1> SUFFICES ASSUME ~drift' PROVE Apart' /\ Awaiting' /\ Recounted' /\ Sums'
  BY DEF Tally
<1>1. CastTypeOK /\ PageFacts
  BY DEF CastInv
<1>2. Apart /\ Awaiting /\ Recounted /\ Sums
  BY <1>1, DriftStays DEF Tally
<1> QED
  BY <1>1, <1>2, ApartStep, AwaitingStep, RecountedStep, SumsStep

\* A broadcast that nobody has sent has no row, no page and nothing counted.
LEMMA InitTally == CastInit => Tally
<1> SUFFICES ASSUME CastInit PROVE Apart /\ Awaiting /\ Recounted /\ Sums
  BY DEF Tally
<1>1. Apart /\ Awaiting
  BY DEF CastInit, NoWork, Apart, Awaiting
<1>2. ~Recounting
  BY DEF CastInit, NoCall, Recounting
<1>3. Closed("SENT") = {} /\ Closed("FAILED") = {}
  BY DEF CastInit, Closed, Rows
<1>4. Sums
  BY <1>3, FS_EmptySet DEF CastInit, Sums
<1> QED
  BY <1>1, <1>2, <1>4 DEF Recounted

\* The counters are the numbers of the rows settled and counted (settle), but while
\* a retry is between its reset and its restart (retryFailed).
THEOREM TallyKept == CastSpec => []Tally
<1>1. CastInit => Tally
  BY InitTally
<1>2. CastInv /\ Tally /\ [CastNext]_castVars => Tally'
  BY TallyStep
<1> QED
  BY <1>1, <1>2, BroadcastInvariance, PTL DEF CastSpec

\* Between two settlements the counters of the broadcast are the numbers of its rows,
\* however often it is retried and however many workers take its pages, unless a
\* settlement was cut short or crossed a retry (settle, retryFailed).
THEOREM CountersFollowRows == CastSpec => []CountersAgree
<1>1. CastInv /\ Tally => CountersAgree
  <2> SUFFICES ASSUME CastInv, Tally, ~drift, ~Recounting, \A w \in Worker : ~Uncounted(w)
               PROVE  /\ sentCount = Cardinality(Rows("SENT"))
                      /\ failedCount = Cardinality(Rows("FAILED"))
    BY DEF CountersAgree
  <2>1. \A r \in InHand : row[r] = "PENDING"
    BY DEF InHand, Uncounted
  <2>2. Closed("SENT") = Rows("SENT") /\ Closed("FAILED") = Rows("FAILED")
    BY <2>1 DEF Closed, Rows
  <2> QED
    BY <2>2 DEF Tally, Sums
<1> QED
  BY <1>1, BroadcastInvariance, TallyKept, PTL

----------------------------------------------------------------------------
(* Both, side by side. *)

\* Rows, queues, keys, attempts and calls hold values of their types in a process that
\* runs the workers of both.
THEOREM BackgroundTypes == Spec => []BackgroundTypeOK
<1>1. Init => InboundInv /\ CastInv
  BY InitInbound, InitCastInv DEF Init
<1>2. InboundInv /\ CastInv /\ [Next]_<<inboundVars, offerVars, castVars, part>>
        => (InboundInv /\ CastInv)'
  <2> SUFFICES ASSUME InboundInv, CastInv, [Next]_<<inboundVars, offerVars, castVars, part>>
               PROVE  InboundInv' /\ CastInv'
    OBVIOUS
  <2>1. [InboundNext]_inboundVars /\ [CastNext]_castVars
    BY DEF Next
  <2>2. InboundInv'
    BY <2>1, SoundStep, InboundBudgetStep DEF InboundInv
  <2>3. CastInv'
    BY <2>1, TypeStep, PageStep, BudgetStep DEF CastInv
  <2> QED BY <2>2, <2>3
<1>3. InboundInv /\ CastInv => BackgroundTypeOK
  BY DEF InboundInv, Sound, CastInv, BackgroundTypeOK
<1> QED
  BY <1>1, <1>2, <1>3, PTL DEF Spec

==========================================================================
