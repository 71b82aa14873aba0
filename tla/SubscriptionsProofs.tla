----------------------- MODULE SubscriptionsProofs -----------------------
(* Proofs about Subscriptions, for any plans, prices and lengths, any number *)
(* of calls that overlap, rows, deaths and time.                           *)
EXTENDS Subscriptions, FiniteSetTheorems, SequenceTheorems, WellFoundedInduction, TLAPS

----------------------------------------------------------------------------
(* Operators. *)

\* Induction over a finite set: of its subsets with a property, one is smallest.
LEMMA Smallest ==
  ASSUME NEW S, IsFiniteSet(S), NEW B \in SUBSET SUBSET S, B # {}
  PROVE  \E T \in B : \A U \in B : U \subseteq T => U = T
<1> DEFINE R == StrictSubsetOrdering(S)
<1>1. IsWellFoundedOn(R, SUBSET S)
  BY FS_StrictSubsetOrderingWellFounded, FS_FiniteSubsetsOfFinite
<1>2. \E T \in B : \A U \in B : <<U, T>> \notin R
  <2> HIDE DEF R
  <2> QED BY <1>1, WFMin
<1> QED
  BY <1>2 DEF StrictSubsetOrdering

\* Among finitely many dates one is the latest.
LEMMA Latest ==
  ASSUME NEW S, IsFiniteSet(S), S # {}, NEW f \in [S -> Int]
  PROVE  \E x \in S : \A y \in S : f[x] >= f[y]
<1> DEFINE HasLatest(T) == \E x \in T : \A y \in T : f[x] >= f[y]
           B == {T \in SUBSET S : T # {} /\ ~HasLatest(T)}
<1>1. ASSUME B # {} PROVE FALSE
  <2>1. PICK T \in B : \A U \in B : U \subseteq T => U = T
    <3>1. B \in SUBSET SUBSET S
      OBVIOUS
    <3> HIDE DEF B
    <3> QED BY <1>1, <3>1, Smallest
  <2>2. PICK x \in T : TRUE
    OBVIOUS
  <2>3. T \ {x} \notin B
    BY <2>1, <2>2
  <2>4. T \subseteq S /\ ~HasLatest(T)
    OBVIOUS
  <2>5. CASE T \ {x} = {}
    <3>1. T = {x}
      BY <2>2, <2>5
    <3>2. f[x] \in Int
      BY <2>2, <2>4
    <3> QED BY <3>1, <3>2, <2>4
  <2>6. CASE T \ {x} # {}
    <3>1. HasLatest(T \ {x})
      BY <2>3, <2>4, <2>6
    <3>2. PICK z \in T \ {x} : \A y \in T \ {x} : f[z] >= f[y]
      BY <3>1
    <3>3. f[x] \in Int /\ f[z] \in Int /\ \A y \in T : f[y] \in Int
      BY <2>2, <2>4
    <3>4. CASE f[x] >= f[z]
      <4>1. \A y \in T : f[x] >= f[y]
        BY <3>2, <3>3, <3>4
      <4> QED BY <4>1, <2>2, <2>4
    <3>5. CASE f[z] >= f[x]
      <4>1. \A y \in T : f[z] >= f[y]
        BY <3>2, <3>3, <3>5
      <4> QED BY <4>1, <2>4
    <3> QED BY <3>3, <3>4, <3>5
  <2> QED BY <2>5, <2>6
<1>2. HasLatest(S)
  BY <1>1
<1> QED
  BY <1>2

\* The rows of a list are rows, and finitely many.
LEMMA RowsAre ==
  ASSUME NEW s \in Seq(Period)
  PROVE  /\ DOMAIN s = 1 .. Len(s) /\ Len(s) \in Nat /\ IsFiniteSet(DOMAIN s)
         /\ \A i \in DOMAIN s :
              /\ s[i] \in Period
              /\ s[i].plan \in Plan /\ s[i].billing \in BillingPeriod
              /\ s[i].status \in {"TRIAL", "ACTIVE", "EXPIRED", "CANCELLED"}
              /\ s[i].starts \in Int /\ s[i].ends \in Int /\ s[i].notified \in BOOLEAN
<1>1. DOMAIN s = 1 .. Len(s) /\ Len(s) \in Nat
  OBVIOUS
<1>2. IsFiniteSet(1 .. Len(s))
  <2> DEFINE n == Len(s)
  <2>1. n \in Nat
    OBVIOUS
  <2> HIDE DEF n
  <2>2. IsFiniteSet(1 .. n)
    BY <2>1, FS_Interval
  <2> QED BY <2>2 DEF n
<1>3. \A i \in DOMAIN s : s[i] \in Period
  OBVIOUS
<1> QED
  BY <1>1, <1>2, <1>3 DEF Period

\* The latest end among some rows, and a date.
LEMMA LatestEnd ==
  ASSUME NEW s \in Seq(Period), NEW D \in SUBSET DOMAIN s, NEW t \in Int
  PROVE  /\ Max({t} \cup {s[i].ends : i \in D}) \in Int
         /\ Max({t} \cup {s[i].ends : i \in D}) >= t
         /\ \/ Max({t} \cup {s[i].ends : i \in D}) = t
            \/ \E i \in D : Max({t} \cup {s[j].ends : j \in D}) = s[i].ends
         /\ \A i \in D : Max({t} \cup {s[j].ends : j \in D}) >= s[i].ends
         /\ D # {} => \E i \in D : Max({s[j].ends : j \in D}) = s[i].ends
<1> DEFINE f == [i \in D |-> s[i].ends]
           E == {s[i].ends : i \in D}
           M == Max({t} \cup E)
           N == Max(E)
<1>1. IsFiniteSet(D) /\ f \in [D -> Int] /\ \A i \in D : s[i].ends \in Int
  BY RowsAre, FS_Subset
<1>2. CASE D = {}
  <2>1. {t} \cup E = {t}
    BY <1>2
  <2>2. M = t
    <3>1. t \in {t} /\ \A y \in {t} : t >= y
      OBVIOUS
    <3>2. Max({t}) \in {t}
      BY <3>1 DEF Max
    <3> QED BY <2>1, <3>2
  <2> HIDE DEF M, N
  <2> QED BY <1>2, <2>2 DEF M
<1>3. CASE D # {}
  <2>1. PICK x \in D : \A y \in D : f[x] >= f[y]
    <3> HIDE DEF f
    <3> QED BY <1>1, <1>3, Latest
  <2>2. s[x].ends \in E /\ \A y \in E : s[x].ends >= y
    BY <2>1
  <2>3. N \in E
    BY <2>2 DEF Max
  <2>4. \E z \in {t} \cup E : \A y \in {t} \cup E : z >= y
    <3>1. s[x].ends \in Int
      BY <1>1
    <3>2. CASE s[x].ends >= t
      <4>1. \A y \in {t} \cup E : s[x].ends >= y
        BY <2>2, <3>2
      <4> HIDE DEF E
      <4> QED BY <2>2, <4>1
    <3>3. CASE t >= s[x].ends
      <4>1. \A y \in E : y \in Int
        BY <1>1
      <4>2. \A y \in {t} \cup E : t >= y
        <5> HIDE DEF E
        <5> QED BY <2>2, <3>1, <3>3, <4>1
      <4> HIDE DEF E
      <4> QED BY <4>2
    <3> QED BY <3>1, <3>2, <3>3
  <2>5. M \in {t} \cup E /\ \A y \in {t} \cup E : M >= y
    BY <2>4 DEF Max
  <2> HIDE DEF M, N
  <2>6. M \in Int /\ M >= t /\ (M = t \/ \E i \in D : M = s[i].ends) /\ \A i \in D : M >= s[i].ends
    BY <1>1, <2>5
  <2>7. \E i \in D : N = s[i].ends
    BY <2>3
  <2> QED BY <2>6, <2>7 DEF M, N
<1> QED
  BY <1>2, <1>3

\* A new row runs and the sweep has not seen it (createPeriod, startTrial).
LEMMA RowIs ==
  ASSUME NEW plan \in Plan, NEW billing \in BillingPeriod, NEW a \in Int, NEW b \in Int
  PROVE  /\ Row(plan, billing, a, b) \in Period
         /\ Row(plan, billing, a, b).starts = a /\ Row(plan, billing, a, b).ends = b
         /\ ~Row(plan, billing, a, b).notified /\ IsRunning(Row(plan, billing, a, b))
         /\ billing # "TRIAL" => Row(plan, billing, a, b).status = "ACTIVE"
  BY DEF Row, Period, IsRunning

\* A row that is ended stops running, and the sweep leaves it alone.
LEMMA EndedIs ==
  ASSUME NEW p \in Period, NEW status \in {"EXPIRED", "CANCELLED"}, NEW t \in Int
  PROVE  /\ Ended(p, status, t) \in Period
         /\ Ended(p, status, t).status = status /\ Ended(p, status, t).notified
         /\ Ended(p, status, t).ends = t /\ Ended(p, status, t).starts = p.starts
         /\ ~IsRunning(Ended(p, status, t))
  BY DEF Ended, Period, IsRunning

\* A row that is shifted lasts as long as before.
LEMMA ShiftedIs ==
  ASSUME NEW p \in Period, NEW by \in Int
  PROVE  /\ Shifted(p, by) \in Period
         /\ Shifted(p, by).status = p.status /\ Shifted(p, by).notified = p.notified
         /\ Shifted(p, by).starts = p.starts + by /\ Shifted(p, by).ends = p.ends + by
         /\ Shifted(p, by).plan = p.plan
<1>1. p.starts \in Int /\ p.ends \in Int
  BY DEF Period
<1>2. p.starts + by \in Int /\ p.ends + by \in Int
  BY <1>1
<1> DEFINE a == p.starts + by
           b == p.ends + by
<1>3. Shifted(p, by) = [p EXCEPT !.starts = a, !.ends = b]
  BY DEF Shifted, Period
<1> HIDE DEF a, b
<1>4. a \in Int /\ b \in Int
  BY <1>2 DEF a, b
<1>5. /\ Shifted(p, by) \in Period
      /\ Shifted(p, by).status = p.status /\ Shifted(p, by).notified = p.notified
      /\ Shifted(p, by).starts = a /\ Shifted(p, by).ends = b
      /\ Shifted(p, by).plan = p.plan
  BY <1>3, <1>4 DEF Period
<1> QED
  BY <1>5 DEF a, b

\* A merged row holds what the call changed, and the rest as it was.
LEMMA MergedIs ==
  ASSUME NEW row \in Period, NEW p \in Period, NEW q \in Period
  PROVE  /\ Merged(row, p, q) \in Period
         /\ Merged(row, p, q).status = IF q.status # p.status THEN q.status ELSE row.status
         /\ Merged(row, p, q).notified = IF q.notified # p.notified THEN q.notified ELSE row.notified
         /\ Merged(row, p, q).ends = IF q.ends # p.ends THEN q.ends ELSE row.ends
         /\ row = p => Merged(row, p, q) = q
  BY DEF Merged, Period

\* A quotient of natural numbers is one.
LEMMA Quotient ==
  ASSUME NEW a \in Nat, NEW b \in Nat \ {0}
  PROVE  a \div b \in Nat
  OBVIOUS

\* An upgrade lasts at least the length of the new billing.
LEMMA UpgradeLasts ==
  ASSUME NEW t \in Int, NEW old \in Period, NEW plan \in Plan, NEW billing \in BillingPeriod
  PROVE  /\ Length[billing] \in Nat /\ Length[billing] >= 1
         /\ UpgradedEnd(t, old, plan, billing) \in Int
         /\ UpgradedEnd(t, old, plan, billing) >= t + Length[billing]
<1> DEFINE end == t + Length[billing]
           span == old.ends - old.starts
           num == Price[old.plan][old.billing] * (old.ends - t) * Length[billing]
           den == span * Price[plan][billing]
<1>1. Length[billing] \in Nat /\ Length[billing] >= 1
  BY SubscriptionAssumption DEF BillingPeriod
<1>2. old.ends \in Int /\ old.starts \in Int /\ old.plan \in Plan /\ old.billing \in BillingPeriod
  BY DEF Period
<1>3. Price[old.plan][old.billing] \in Nat /\ Price[plan][billing] \in Nat
  BY <1>2, SubscriptionAssumption DEF BillingPeriod
<1>4. num \in Int /\ den \in Int /\ end \in Int
  BY <1>1, <1>2, <1>3
<1>5. UpgradedEnd(t, old, plan, billing)
        = IF num <= 0 \/ den <= 0 THEN end ELSE end + (2 * num + den) \div (2 * den)
  BY DEF UpgradedEnd
<1> HIDE DEF num, den, end
<1>6. ASSUME ~(num <= 0 \/ den <= 0) PROVE (2 * num + den) \div (2 * den) \in Nat
  <2>1. 2 * num + den \in Nat /\ 2 * den \in Nat \ {0}
    BY <1>4, <1>6
  <2> QED BY <2>1, Quotient
<1>7. UpgradedEnd(t, old, plan, billing) \in Int /\ UpgradedEnd(t, old, plan, billing) >= end
  <2>1. CASE num <= 0 \/ den <= 0
    BY <1>4, <1>5, <2>1
  <2>2. CASE ~(num <= 0 \/ den <= 0)
    <3> DEFINE d == (2 * num + den) \div (2 * den)
    <3>1. d \in Nat
      BY <1>6, <2>2
    <3>2. UpgradedEnd(t, old, plan, billing) = end + d
      BY <1>5, <2>2
    <3> HIDE DEF d
    <3> QED BY <1>4, <3>1, <3>2
  <2> QED BY <2>1, <2>2
<1> QED
  BY <1>1, <1>7 DEF end

----------------------------------------------------------------------------
(* What a call makes of rows that are one run of periods. *)

\* The rows of s that run or are to come at t.
LiveIn(s, t) == {i \in DOMAIN s : IsRunning(s[i]) /\ s[i].ends > t}

\* No gap and no overlap from t on.
Unbroken(s, t) ==
  /\ \A i \in LiveIn(s, t) : s[i].starts <= t \/ \E j \in LiveIn(s, t) : s[j].ends = s[i].starts
  /\ \A i, j \in LiveIn(s, t) : i # j => s[i].ends <= s[j].starts \/ s[j].ends <= s[i].starts

\* A row that has not ended lasts, and the sweep has not seen it.
Sound(s) ==
  \A i \in DOMAIN s : /\ IsRunning(s[i]) => s[i].starts < s[i].ends
                      /\ IsRunning(s[i]) <=> ~s[i].notified

\* Nothing was sold behind a trial that runs: it would have taken its place.
TrialAlone(s, t) == \A i \in LiveIn(s, t) : s[i].status = "TRIAL" => LiveIn(s, t) = {i}

Sane(s, t) == Unbroken(s, t) /\ Sound(s) /\ TrialAlone(s, t)

\* The rows of s, one more or not; those whose status changed have ended.
Continues(s, s1) ==
  /\ s1 \in Seq(Period) /\ Len(s1) \in {Len(s), Len(s) + 1}
  /\ \A i \in DOMAIN s : s1[i].status # s[i].status => ~IsRunning(s1[i])

\* A list made row by row out of another one.
LEMMA ListIs ==
  ASSUME NEW s \in Seq(Period), NEW s1, s1 = [i \in DOMAIN s |-> s1[i]],
         \A i \in DOMAIN s : s1[i] \in Period
  PROVE  s1 \in Seq(Period) /\ Len(s1) = Len(s) /\ DOMAIN s1 = DOMAIN s
<1>1. DOMAIN s = 1 .. Len(s) /\ Len(s) \in Nat
  OBVIOUS
<1>2. s1 \in [1 .. Len(s) -> Period]
  BY <1>1
<1> QED
  BY <1>1, <1>2

\* And with a row more.
LEMMA LongerIs ==
  ASSUME NEW s \in Seq(Period), NEW p \in Period
  PROVE  /\ Append(s, p) \in Seq(Period) /\ Len(Append(s, p)) = Len(s) + 1
         /\ Append(s, p)[Len(s) + 1] = p /\ \A i \in DOMAIN s : Append(s, p)[i] = s[i]
         /\ DOMAIN Append(s, p) = DOMAIN s \cup {Len(s) + 1} /\ Len(s) + 1 \notin DOMAIN s
  OBVIOUS

\* As time goes on, what is left of one run of periods is one.
LEMMA StaysSane ==
  ASSUME NEW s \in Seq(Period), NEW t \in Int, NEW u \in Int, t <= u, Sane(s, t)
  PROVE  Sane(s, u)
<1>1. \A i \in DOMAIN s : s[i].starts \in Int /\ s[i].ends \in Int
  BY RowsAre
<1>2. \A i \in LiveIn(s, u) : i \in LiveIn(s, t) /\ i \in DOMAIN s
  BY <1>1 DEF LiveIn
<1>3. Unbroken(s, u)
  <2>1. ASSUME NEW i \in LiveIn(s, u), s[i].starts > u
        PROVE  \E j \in LiveIn(s, u) : s[j].ends = s[i].starts
    <3>1. PICK j \in LiveIn(s, t) : s[j].ends = s[i].starts
      BY <1>1, <1>2, <2>1 DEF Sane, Unbroken
    <3>2. j \in LiveIn(s, u)
      BY <2>1, <3>1 DEF LiveIn
    <3> QED BY <3>1, <3>2
  <2> QED BY <1>1, <1>2, <2>1 DEF Sane, Unbroken
<1>4. TrialAlone(s, u)
  BY <1>2 DEF Sane, TrialAlone
<1> QED
  BY <1>3, <1>4 DEF Sane

\* A trial that is taken out leaves the others as they are.
LEMMA TrialEndedIs ==
  ASSUME NEW s \in Seq(Period), NEW t \in Int, NEW m, m = TrialEnded(s, t)
  PROVE  /\ Continues(s, m) /\ Len(m) = Len(s) /\ DOMAIN m = DOMAIN s
         /\ \A i \in LiveIn(m, t) : m[i].status = "ACTIVE" /\ m[i] = s[i]
         /\ Sane(s, t) => Sane(m, t)
<1> DEFINE over(i) == s[i].status = "TRIAL" /\ s[i].ends > t
<1>1. \A i \in DOMAIN s : s[i] \in Period /\ s[i].starts \in Int /\ s[i].ends \in Int
  BY RowsAre
<1>2. ASSUME NEW i \in DOMAIN s
      PROVE  IF over(i)
               THEN m[i] \in Period /\ ~IsRunning(m[i]) /\ m[i].notified
               ELSE m[i] = s[i]
  <2>1. CASE over(i)
    <3>1. PICK e \in Int : m[i] = Ended(s[i], "CANCELLED", e)
      BY <1>1, <2>1 DEF TrialEnded
    <3>2. s[i] \in Period
      BY <1>1
    <3>3. m[i] \in Period /\ m[i].notified /\ ~IsRunning(m[i])
      <4> DEFINE p == s[i]
                 q == Ended(p, "CANCELLED", e)
      <4>1. p \in Period /\ m[i] = q
        BY <3>1, <3>2
      <4> HIDE DEF p
      <4>2. q \in Period /\ q.notified /\ ~IsRunning(q)
        BY <4>1, EndedIs
      <4> HIDE DEF q
      <4> QED BY <4>1, <4>2
    <3> QED BY <2>1, <3>3
  <2>2. CASE ~over(i)
    BY <2>2 DEF TrialEnded
  <2> QED BY <2>1, <2>2
<1>3. m = [i \in DOMAIN s |-> m[i]]
  BY DEF TrialEnded
<1>4. m \in Seq(Period) /\ Len(m) = Len(s) /\ DOMAIN m = DOMAIN s
  <2>1. \A i \in DOMAIN s : m[i] \in Period
    BY <1>1, <1>2
  <2> QED BY <1>3, <2>1, ListIs
<1>5. Continues(s, m)
  BY <1>2, <1>4 DEF Continues
<1>6. ASSUME NEW i \in LiveIn(m, t)
      PROVE  i \in DOMAIN s /\ i \in LiveIn(s, t) /\ ~over(i) /\ m[i] = s[i] /\ m[i].status = "ACTIVE"
  BY <1>2, <1>4, <1>6 DEF LiveIn, IsRunning
<1>7. ASSUME Sane(s, t) PROVE Sane(m, t)
  <2>1. CASE \E i \in DOMAIN s : over(i)
    <3>1. PICK i \in DOMAIN s : over(i)
      BY <2>1
    <3>2. i \in LiveIn(s, t)
      BY <3>1 DEF LiveIn, IsRunning
    <3>3. LiveIn(s, t) = {i}
      BY <1>7, <3>1, <3>2 DEF Sane, TrialAlone
    <3>4. LiveIn(m, t) = {}
      BY <1>6, <3>1, <3>3
    <3>5. Sound(m)
      BY <1>2, <1>4, <1>7 DEF Sane, Sound
    <3> QED BY <3>4, <3>5 DEF Sane, Unbroken, TrialAlone
  <2>2. CASE \A i \in DOMAIN s : ~over(i)
    <3>1. \A i \in DOMAIN s : m[i] = s[i]
      BY <1>2, <2>2
    <3>2. LiveIn(m, t) = LiveIn(s, t)
      BY <1>4, <3>1 DEF LiveIn
    <3>3. \A i \in LiveIn(s, t) : m[i] = s[i]
      BY <3>1 DEF LiveIn
    <3> QED BY <1>4, <1>7, <3>1, <3>2, <3>3 DEF Sane, Unbroken, Sound, TrialAlone
  <2> QED BY <2>1, <2>2
<1> QED
  BY <1>4, <1>5, <1>6, <1>7

\* A period at the end of the others, or now when there is none.
LEMMA AtTheEndIs ==
  ASSUME NEW s \in Seq(Period), NEW t \in Int, NEW plan \in Plan,
         NEW billing \in BillingPeriod, billing # "TRIAL",
         NEW s1, s1 = AtTheEnd(s, t, plan, billing)
  PROVE  /\ Continues(s, s1)
         /\ Sane(s, t) /\ (\A i \in LiveIn(s, t) : s[i].status = "ACTIVE") => Sane(s1, t)
<1> DEFINE D == {j \in DOMAIN s : s[j].status = "ACTIVE"}
           e == Max({t} \cup {s[i].ends : i \in D})
           n == Len(s) + 1
           p == Row(plan, billing, e, e + Length[billing])
<1>1. \A i \in DOMAIN s : s[i] \in Period /\ s[i].starts \in Int /\ s[i].ends \in Int
  BY RowsAre
<1>2. e \in Int /\ e >= t /\ (e = t \/ \E i \in D : e = s[i].ends) /\ \A i \in D : e >= s[i].ends
  <2>1. D \in SUBSET DOMAIN s
    OBVIOUS
  <2> HIDE DEF D
  <2> QED BY <2>1, LatestEnd
<1>3. Length[billing] \in Nat /\ Length[billing] >= 1
  BY SubscriptionAssumption DEF BillingPeriod
<1>4. s1 = Append(s, p)
  BY DEF AtTheEnd
<1> HIDE DEF e
<1>5. e + Length[billing] \in Int
  BY <1>2, <1>3
<1>6. /\ p \in Period /\ p.starts = e /\ p.ends = e + Length[billing]
      /\ ~p.notified /\ IsRunning(p) /\ p.status = "ACTIVE"
  BY <1>2, <1>5, RowIs
<1> HIDE DEF p
<1>7. /\ s1 \in Seq(Period) /\ Len(s1) = Len(s) + 1
      /\ s1[n] = p /\ (\A i \in DOMAIN s : s1[i] = s[i])
      /\ DOMAIN s1 = DOMAIN s \cup {n} /\ n \notin DOMAIN s
  BY <1>4, <1>6, LongerIs
<1> HIDE DEF n
<1>8. Continues(s, s1)
  BY <1>7 DEF Continues
<1>9. ASSUME Sane(s, t), \A i \in LiveIn(s, t) : s[i].status = "ACTIVE" PROVE Sane(s1, t)
  <2>1. p.ends > t /\ p.starts < p.ends
    BY <1>2, <1>3, <1>6
  <2>2. LiveIn(s1, t) = LiveIn(s, t) \cup {n}
    BY <1>6, <1>7, <2>1 DEF LiveIn
  <2>3. \A i \in LiveIn(s, t) : i \in DOMAIN s /\ i # n /\ s1[i] = s[i] /\ s[i].ends <= e /\ s[i].ends > t
    BY <1>1, <1>2, <1>7, <1>9 DEF LiveIn
  <2>4. Sound(s1)
    BY <1>6, <1>7, <1>9, <2>1 DEF Sane, Sound
  <2>5. TrialAlone(s1, t)
    BY <1>6, <1>7, <1>9, <2>2, <2>3 DEF TrialAlone
  <2>6. e = t \/ \E j \in LiveIn(s, t) : s[j].ends = e
    <3>1. ASSUME e # t PROVE \E j \in LiveIn(s, t) : s[j].ends = e
      <4>1. PICK i \in D : e = s[i].ends
        BY <1>2, <3>1
      <4>2. i \in LiveIn(s, t)
        BY <1>1, <1>2, <3>1, <4>1 DEF LiveIn, IsRunning
      <4> QED BY <4>1, <4>2
    <3> QED BY <3>1
  <2>7. ASSUME NEW i \in LiveIn(s1, t)
        PROVE  s1[i].starts <= t \/ \E j \in LiveIn(s1, t) : s1[j].ends = s1[i].starts
    <3>1. CASE i = n
      BY <1>2, <1>6, <1>7, <2>2, <2>3, <2>6, <3>1
    <3>2. CASE i \in LiveIn(s, t)
      BY <1>9, <2>2, <2>3, <3>2 DEF Sane, Unbroken
    <3> QED BY <2>2, <3>1, <3>2
  <2>8. ASSUME NEW i \in LiveIn(s1, t), NEW j \in LiveIn(s1, t), i # j
        PROVE  s1[i].ends <= s1[j].starts \/ s1[j].ends <= s1[i].starts
    BY <1>6, <1>7, <1>9, <2>2, <2>3, <2>8 DEF Sane, Unbroken
  <2> QED BY <2>4, <2>5, <2>7, <2>8 DEF Sane, Unbroken
<1> QED
  BY <1>8, <1>9

\* A period in the place of the one that runs, what was queued moved behind it.
LEMMA InPlaceOfIs ==
  ASSUME NEW s \in Seq(Period), NEW t \in Int, NEW plan \in Plan,
         NEW billing \in BillingPeriod, billing # "TRIAL",
         NEW r \in DOMAIN s, s[r].status = "ACTIVE", Covers(s[r], t),
         NEW s1, s1 = InPlaceOf(s, r, t, plan, billing)
  PROVE  /\ Continues(s, s1)
         /\ Sane(s, t) /\ (\A i \in LiveIn(s, t) : s[i].status = "ACTIVE") => Sane(s1, t)
<1> DEFINE upgrade == IsUpgrade(s[r].plan, plan)
           e == IF upgrade THEN UpgradedEnd(t, s[r], plan, billing) ELSE t + Length[billing]
           by == e - s[r].ends
           moves(i) == s[i].status = "ACTIVE" /\ s[i].starts >= s[r].ends
           m == [i \in DOMAIN s |->
                  IF i = r THEN Ended(s[i], IF upgrade THEN "EXPIRED" ELSE "CANCELLED", t)
                  ELSE IF moves(i) THEN Shifted(s[i], e - s[r].ends)
                  ELSE s[i]]
           n == Len(s) + 1
           p == Row(plan, billing, t, e)
<1>1. \A i \in DOMAIN s : s[i] \in Period /\ s[i].starts \in Int /\ s[i].ends \in Int
  BY RowsAre
<1>2. e \in Int /\ e > t
  <2>1. s[r] \in Period
    BY <1>1
  <2>2. Length[billing] \in Nat /\ Length[billing] >= 1
    BY <2>1, UpgradeLasts
  <2>3. UpgradedEnd(t, s[r], plan, billing) \in Int /\ UpgradedEnd(t, s[r], plan, billing) >= t + Length[billing]
    BY <2>1, UpgradeLasts
  <2> QED BY <2>2, <2>3
<1>3. s1 = Append(m, p)
  BY DEF InPlaceOf
<1> HIDE DEF e
<1>4. by \in Int
  BY <1>1, <1>2
<1>5. m[r] \in Period /\ ~IsRunning(m[r]) /\ m[r].notified
  <2>1. s[r] \in Period
    BY <1>1
  <2>2. PICK status \in {"EXPIRED", "CANCELLED"} : m[r] = Ended(s[r], status, t)
    OBVIOUS
  <2> DEFINE old == s[r]
             q == Ended(old, status, t)
  <2>3. old \in Period /\ m[r] = q
    BY <2>1, <2>2
  <2> HIDE DEF old, m
  <2>4. q \in Period /\ q.notified /\ ~IsRunning(q)
    BY <2>3, EndedIs
  <2> HIDE DEF q
  <2> QED BY <2>3, <2>4
<1>6. ASSUME NEW i \in DOMAIN s, i # r
      PROVE  IF moves(i)
               THEN /\ m[i] \in Period /\ m[i].status = s[i].status /\ m[i].notified = s[i].notified
                    /\ m[i].starts = s[i].starts + by /\ m[i].ends = s[i].ends + by
               ELSE m[i] = s[i]
  <2>1. CASE moves(i)
    <3>1. s[i] \in Period
      BY <1>1
    <3>2. m[i] = Shifted(s[i], by)
      BY <1>6, <2>1
    <3> DEFINE old == s[i]
               q == Shifted(old, by)
    <3>3. old \in Period /\ m[i] = q
      BY <3>1, <3>2
    <3> HIDE DEF m, by
    <3>4. old.status = s[i].status /\ old.notified = s[i].notified /\ old.starts = s[i].starts /\ old.ends = s[i].ends
      OBVIOUS
    <3> HIDE DEF old
    <3>5. /\ q \in Period /\ q.status = old.status /\ q.notified = old.notified
          /\ q.starts = old.starts + by /\ q.ends = old.ends + by
      BY <1>4, <3>3, ShiftedIs
    <3> HIDE DEF q
    <3> QED BY <2>1, <3>3, <3>4, <3>5
  <2>2. CASE ~moves(i)
    BY <1>6, <2>2
  <2> QED BY <2>1, <2>2
<1>7. m \in Seq(Period) /\ Len(m) = Len(s) /\ DOMAIN m = DOMAIN s
  <2>1. \A i \in DOMAIN s : m[i] \in Period
    <3> HIDE DEF m
    <3> QED BY <1>1, <1>5, <1>6
  <2>2. m = [i \in DOMAIN s |-> m[i]]
    OBVIOUS
  <2> HIDE DEF m
  <2> QED BY <2>1, <2>2, ListIs
<1>8. /\ p \in Period /\ p.starts = t /\ p.ends = e
      /\ ~p.notified /\ IsRunning(p) /\ p.status = "ACTIVE"
  <2>1. e \in Int
    BY <1>2
  <2>2. /\ p \in Period /\ p.starts = t /\ p.ends = e
        /\ ~p.notified /\ IsRunning(p)
    BY <2>1, RowIs
  <2>3. p.status = "ACTIVE"
    BY <2>1, RowIs
  <2> QED BY <2>2, <2>3
<1> HIDE DEF m, p
<1>9. /\ s1 \in Seq(Period) /\ Len(s1) = Len(s) + 1
      /\ s1[n] = p /\ (\A i \in DOMAIN s : s1[i] = m[i])
      /\ DOMAIN s1 = DOMAIN s \cup {n} /\ n \notin DOMAIN s
  BY <1>3, <1>7, <1>8, LongerIs
<1> HIDE DEF n
<1>10. Continues(s, s1)
  BY <1>5, <1>6, <1>9 DEF Continues
<1>11. ASSUME Sane(s, t), \A i \in LiveIn(s, t) : s[i].status = "ACTIVE" PROVE Sane(s1, t)
  <2>1. r \in LiveIn(s, t) /\ s[r].starts <= t /\ s[r].ends > t
    BY <1>1 DEF LiveIn, IsRunning, Covers
  <2>2. ASSUME NEW i \in LiveIn(s, t), i # r
        PROVE  i \in DOMAIN s /\ moves(i)
    <3>1. i \in DOMAIN s /\ s[i].ends > t /\ s[i].status = "ACTIVE"
      BY <1>11, <2>2 DEF LiveIn
    <3>2. s[i].ends <= s[r].starts \/ s[r].ends <= s[i].starts
      BY <1>11, <2>1, <2>2 DEF Sane, Unbroken
    <3> QED BY <1>1, <2>1, <3>1, <3>2
  <2>3. ASSUME NEW i \in DOMAIN s, i # r, moves(i)
        PROVE  i \in LiveIn(s, t)
    <3>1. IsRunning(s[i])
      BY <2>3 DEF IsRunning
    <3>2. s[i].starts < s[i].ends
      BY <1>11, <3>1 DEF Sane, Sound
    <3> QED BY <1>1, <2>1, <2>3, <3>1, <3>2 DEF LiveIn
  <2>4. ASSUME NEW i \in LiveIn(s, t), i # r
        PROVE  /\ i \in DOMAIN s /\ i # n /\ i \in LiveIn(s1, t)
               /\ s1[i].starts = s[i].starts + by /\ s1[i].ends = s[i].ends + by
               /\ s1[i].starts >= e /\ s1[i].status = "ACTIVE"
    <3>1. i \in DOMAIN s /\ moves(i)
      BY <2>2, <2>4
    <3>2. /\ s1[i].status = s[i].status
          /\ s1[i].starts = s[i].starts + by /\ s1[i].ends = s[i].ends + by
      BY <1>6, <1>9, <2>4, <3>1
    <3>3. s[i].starts < s[i].ends
      BY <1>11, <2>4, <3>1 DEF Sane, Sound, LiveIn
    <3>4. s1[i].starts >= e /\ s1[i].ends > t
      BY <1>1, <1>2, <2>1, <3>1, <3>2, <3>3
    <3> QED BY <1>9, <3>1, <3>2, <3>4 DEF LiveIn, IsRunning
  <2>5. LiveIn(s1, t) = (LiveIn(s, t) \ {r}) \cup {n}
    <3>1. n \in LiveIn(s1, t)
      BY <1>2, <1>8, <1>9 DEF LiveIn
    <3>2. ASSUME NEW i \in LiveIn(s1, t), i # n PROVE i \in LiveIn(s, t) \ {r}
      <4>1. i \in DOMAIN s /\ IsRunning(m[i]) /\ m[i].ends > t
        BY <1>9, <3>2 DEF LiveIn
      <4>2. i # r
        BY <1>5, <4>1
      <4>3. CASE moves(i)
        BY <2>3, <4>1, <4>2, <4>3
      <4>4. CASE ~moves(i)
        <5>1. m[i] = s[i]
          BY <1>6, <4>1, <4>2, <4>4
        <5> QED BY <4>1, <4>2, <5>1 DEF LiveIn
      <4> QED BY <4>3, <4>4
    <3> QED BY <2>4, <3>1, <3>2
  <2>6. Sound(s1)
    <3>1. ASSUME NEW i \in DOMAIN s1
          PROVE  /\ IsRunning(s1[i]) => s1[i].starts < s1[i].ends
                 /\ IsRunning(s1[i]) <=> ~s1[i].notified
      <4>1. CASE i = n
        BY <1>2, <1>8, <1>9, <4>1
      <4>2. CASE i = r
        BY <1>5, <1>9, <4>2
      <4>3. CASE i \in DOMAIN s /\ i # r
        <5>1. IsRunning(s[i]) => s[i].starts < s[i].ends
          BY <1>11, <4>3 DEF Sane, Sound
        <5>2. IsRunning(s[i]) <=> ~s[i].notified
          BY <1>11, <4>3 DEF Sane, Sound
        <5>3. CASE moves(i)
          <6>1. /\ s1[i].status = s[i].status /\ s1[i].notified = s[i].notified
                /\ s1[i].starts = s[i].starts + by /\ s1[i].ends = s[i].ends + by
            BY <1>6, <1>9, <4>3, <5>3
          <6>2. IsRunning(s1[i]) <=> IsRunning(s[i])
            BY <6>1 DEF IsRunning
          <6>3. s[i].starts \in Int /\ s[i].ends \in Int
            BY <1>1, <4>3
          <6> HIDE DEF by
          <6>4. IsRunning(s1[i]) => s1[i].starts < s1[i].ends
            BY <1>4, <5>1, <6>1, <6>2, <6>3
          <6> QED BY <5>2, <6>1, <6>2, <6>4
        <5>4. CASE ~moves(i)
          BY <1>6, <1>9, <4>3, <5>1, <5>2, <5>4
        <5> QED BY <5>3, <5>4
      <4> QED BY <1>9, <4>1, <4>2, <4>3
    <3> QED BY <3>1 DEF Sound
  <2>7. TrialAlone(s1, t)
    BY <1>8, <1>9, <2>4, <2>5 DEF TrialAlone
  <2>8. ASSUME NEW i \in LiveIn(s1, t)
        PROVE  s1[i].starts <= t \/ \E j \in LiveIn(s1, t) : s1[j].ends = s1[i].starts
    <3>1. CASE i = n
      BY <1>8, <1>9, <3>1
    <3>2. CASE i \in LiveIn(s, t) /\ i # r
      <4>1. s[i].starts > t /\ s1[i].starts = s[i].starts + by
        BY <1>1, <2>1, <2>2, <2>4, <3>2
      <4>2. PICK j \in LiveIn(s, t) : s[j].ends = s[i].starts
        BY <1>1, <1>11, <2>2, <3>2, <4>1 DEF Sane, Unbroken
      <4>3. CASE j = r
        <5>1. s1[n].ends = s1[i].starts
          BY <1>1, <1>2, <1>8, <1>9, <4>1, <4>2, <4>3
        <5> QED BY <2>5, <5>1
      <4>4. CASE j # r
        <5>1. s1[j].ends = s1[i].starts
          BY <2>4, <4>1, <4>2, <4>4
        <5> QED BY <2>5, <4>4, <5>1
      <4> QED BY <4>3, <4>4
    <3> QED BY <2>5, <3>1, <3>2
  <2>9. ASSUME NEW i \in LiveIn(s1, t), NEW j \in LiveIn(s1, t), i # j
        PROVE  s1[i].ends <= s1[j].starts \/ s1[j].ends <= s1[i].starts
    <3>1. CASE i = n
      BY <1>8, <1>9, <2>4, <2>5, <2>9, <3>1
    <3>2. CASE j = n
      BY <1>8, <1>9, <2>4, <2>5, <2>9, <3>2
    <3>3. CASE i # n /\ j # n
      <4>1. i \in LiveIn(s, t) /\ j \in LiveIn(s, t) /\ i # r /\ j # r
        BY <2>5, <3>3
      <4>2. s[i].ends <= s[j].starts \/ s[j].ends <= s[i].starts
        BY <1>11, <2>9, <4>1 DEF Sane, Unbroken
      <4>3. /\ s1[i].starts = s[i].starts + by /\ s1[i].ends = s[i].ends + by
            /\ s1[j].starts = s[j].starts + by /\ s1[j].ends = s[j].ends + by
            /\ i \in DOMAIN s /\ j \in DOMAIN s
        BY <2>4, <4>1
      <4> DEFINE a == s[i].starts
                 b == s[i].ends
                 d == s[j].starts
                 g == s[j].ends
      <4>4. a \in Int /\ b \in Int /\ d \in Int /\ g \in Int /\ by \in Int
        BY <1>1, <1>4, <4>3
      <4>5. b <= d \/ g <= a
        BY <4>2
      <4>6. /\ s1[i].starts = a + by /\ s1[i].ends = b + by
            /\ s1[j].starts = d + by /\ s1[j].ends = g + by
        BY <4>3
      <4> HIDE DEF by, a, b, d, g
      <4> QED BY <4>4, <4>5, <4>6
    <3> QED BY <3>1, <3>2, <3>3
  <2> QED BY <2>6, <2>7, <2>8, <2>9 DEF Sane, Unbroken
<1> QED
  BY <1>10, <1>11

\* createPeriod: the period takes the place of the one that runs, or follows the others.
LEMMA CreatedIs ==
  ASSUME NEW rows \in Seq(Period), NEW t \in Int, NEW plan \in Plan,
         NEW billing \in BillingPeriod, billing # "TRIAL", NEW replace \in BOOLEAN,
         NEW s1, s1 = Created(rows, t, plan, billing, replace)
  PROVE  /\ Continues(rows, s1)
         /\ Sane(rows, t) => Sane(s1, t)
<1> DEFINE s == TrialEnded(rows, t)
           R == {i \in DOMAIN s : s[i].status = "ACTIVE" /\ Covers(s[i], t)}
           r == CHOOSE i \in R : \A j \in R : s[j].starts <= s[i].starts
           inPlace == R # {} /\ (replace \/ IsUpgrade(s[r].plan, plan))
<1>1. /\ Continues(rows, s) /\ Len(s) = Len(rows) /\ DOMAIN s = DOMAIN rows
      /\ \A i \in LiveIn(s, t) : s[i].status = "ACTIVE"
      /\ Sane(rows, t) => Sane(s, t)
  BY TrialEndedIs
<1>2. s1 = IF inPlace THEN InPlaceOf(s, r, t, plan, billing) ELSE AtTheEnd(s, t, plan, billing)
  BY DEF Created
<1>3. s \in Seq(Period)
  BY <1>1 DEF Continues
<1>4. R # {} => r \in R
  <2> SUFFICES ASSUME R # {} PROVE r \in R
    OBVIOUS
  <2> DEFINE f == [i \in R |-> s[i].starts]
  <2>1. IsFiniteSet(R) /\ f \in [R -> Int]
    <3> HIDE DEF s
    <3> QED BY <1>3, RowsAre, FS_Subset
  <2>2. \E x \in R : \A y \in R : f[x] >= f[y]
    <3> HIDE DEF R, f
    <3> QED BY <2>1, Latest
  <2>3. PICK x \in R : \A y \in R : f[x] >= f[y]
    BY <2>2
  <2>4. \A y \in R : s[y].starts <= s[x].starts
    <3>1. \A y \in R : f[y] = s[y].starts /\ f[y] \in Int
      BY <2>1
    <3> HIDE DEF R, f, s
    <3> QED BY <2>3, <3>1
  <2> HIDE DEF R, s
  <2> QED BY <2>4
<1> DEFINE Keeps(u) == Continues(s, u) /\ (Sane(rows, t) => Sane(u, t))
<1>5. Keeps(s1)
  <2>1. CASE inPlace
    <3>1. r \in DOMAIN s /\ s[r].status = "ACTIVE" /\ Covers(s[r], t)
      BY <1>4, <2>1
    <3>2. s1 = InPlaceOf(s, r, t, plan, billing)
      BY <1>2, <2>1
    <3> HIDE DEF s, r
    <3> QED BY <1>1, <1>3, <3>1, <3>2, InPlaceOfIs
  <2>2. CASE ~inPlace
    <3>1. s1 = AtTheEnd(s, t, plan, billing)
      BY <1>2, <2>2
    <3> HIDE DEF s
    <3> QED BY <1>1, <1>3, <3>1, AtTheEndIs
  <2> QED BY <2>1, <2>2
<1> HIDE DEF s
<1>6. Continues(rows, s1)
  <2>1. /\ s1 \in Seq(Period) /\ Len(s1) \in {Len(rows), Len(rows) + 1}
    BY <1>1, <1>5 DEF Continues
  <2>2. ASSUME NEW i \in DOMAIN rows, s1[i].status # rows[i].status PROVE ~IsRunning(s1[i])
    BY <1>1, <1>5, <2>2 DEF Continues, IsRunning
  <2> QED BY <2>1, <2>2 DEF Continues
<1> QED
  BY <1>5, <1>6

\* endWithQueue: what starts after the period that is cancelled goes with it.
LEMMA CancelledIs ==
  ASSUME NEW s \in Seq(Period), NEW t \in Int, NEW id \in DOMAIN s, NEW starts \in Int,
         NEW s1, s1 = Cancelled(s, t, id, starts)
  PROVE  /\ Continues(s, s1) /\ Len(s1) = Len(s)
         /\ \A u \in Int : starts = s[id].starts /\ Sane(s, u) => Sane(s1, u)
<1> DEFINE gone(i) == i = id \/ (IsRunning(s[i]) /\ s[i].starts > starts)
<1>1. \A i \in DOMAIN s : s[i] \in Period /\ s[i].starts \in Int /\ s[i].ends \in Int
  BY RowsAre
<1>2. ASSUME NEW i \in DOMAIN s
      PROVE  IF gone(i)
               THEN s1[i] \in Period /\ ~IsRunning(s1[i]) /\ s1[i].notified
               ELSE s1[i] = s[i]
  <2>1. CASE gone(i)
    <3>1. PICK e \in Int : s1[i] = Ended(s[i], "CANCELLED", e)
      BY <1>1, <2>1 DEF Cancelled
    <3> DEFINE p == s[i]
               q == Ended(p, "CANCELLED", e)
    <3>2. p \in Period /\ s1[i] = q
      BY <1>1, <3>1
    <3> HIDE DEF p
    <3>3. q \in Period /\ q.notified /\ ~IsRunning(q)
      BY <3>2, EndedIs
    <3> HIDE DEF q
    <3> QED BY <2>1, <3>2, <3>3
  <2>2. CASE ~gone(i)
    BY <2>2 DEF Cancelled
  <2> QED BY <2>1, <2>2
<1>3. s1 \in Seq(Period) /\ Len(s1) = Len(s) /\ DOMAIN s1 = DOMAIN s
  <2>1. \A i \in DOMAIN s : s1[i] \in Period
    BY <1>1, <1>2
  <2>2. s1 = [i \in DOMAIN s |-> s1[i]]
    BY DEF Cancelled
  <2> QED BY <2>1, <2>2, ListIs
<1>4. Continues(s, s1)
  BY <1>2, <1>3 DEF Continues
<1>5. ASSUME NEW u \in Int, starts = s[id].starts, Sane(s, u) PROVE Sane(s1, u)
  <2>1. LiveIn(s1, u) = {i \in LiveIn(s, u) : ~gone(i)}
    BY <1>2, <1>3 DEF LiveIn
  <2>2. \A i \in LiveIn(s1, u) : i \in DOMAIN s /\ i \in LiveIn(s, u) /\ ~gone(i) /\ s1[i] = s[i]
    BY <1>2, <2>1 DEF LiveIn
  <2>3. Sound(s1)
    BY <1>2, <1>3, <1>5 DEF Sane, Sound
  <2>4. TrialAlone(s1, u)
    BY <1>5, <2>1, <2>2 DEF Sane, TrialAlone
  <2>5. ASSUME NEW i \in LiveIn(s1, u)
        PROVE  s1[i].starts <= u \/ \E j \in LiveIn(s1, u) : s1[j].ends = s1[i].starts
    <3>1. CASE s[i].starts <= u
      BY <2>2, <3>1
    <3>2. CASE ~(s[i].starts <= u)
      <4>1. PICK j \in LiveIn(s, u) : s[j].ends = s[i].starts
        BY <1>5, <2>2, <3>2 DEF Sane, Unbroken
      <4>2. j \in DOMAIN s /\ IsRunning(s[j]) /\ s[j].starts < s[j].ends
        BY <1>5 DEF Sane, Sound, LiveIn
      <4>3. s[i].starts <= starts /\ i \in DOMAIN s
        BY <1>1, <2>2 DEF LiveIn
      <4>4. ~gone(j)
        BY <1>1, <1>5, <4>1, <4>2, <4>3
      <4>5. j \in LiveIn(s1, u) /\ s1[j] = s[j]
        BY <1>2, <2>1, <4>2, <4>4
      <4> QED BY <2>2, <4>1, <4>5
    <3> QED BY <3>1, <3>2
  <2>6. ASSUME NEW i \in LiveIn(s1, u), NEW j \in LiveIn(s1, u), i # j
        PROVE  s1[i].ends <= s1[j].starts \/ s1[j].ends <= s1[i].starts
    BY <1>5, <2>2, <2>6 DEF Sane, Unbroken
  <2> QED BY <2>3, <2>4, <2>5, <2>6 DEF Sane, Unbroken
<1> QED
  BY <1>3, <1>4, <1>5

\* startQueuedNow: the next period starts, what is queued behind it follows.
LEMMA StartedNowIs ==
  ASSUME NEW s \in Seq(Period), NEW t \in Int, NEW id, IsNext(s, t, id),
         NEW s1, s1 = StartedNow(s, t, id)
  PROVE  /\ Continues(s, s1) /\ Len(s1) = Len(s)
         /\ Sane(s, t) => Sane(s1, t)
<1> DEFINE e == t + Length[s[id].billing]
           by == e - s[id].ends
           moves(i) == i # id /\ s[i].status = "ACTIVE" /\ s[i].starts > t
           over(i) == i # id /\ ~moves(i) /\ IsRunning(s[i]) /\ Covers(s[i], t)
<1>1. \A i \in DOMAIN s : /\ s[i] \in Period /\ s[i].starts \in Int /\ s[i].ends \in Int
                          /\ s[i].billing \in BillingPeriod
  BY RowsAre
<1>2. id \in DOMAIN s /\ s[id].status = "ACTIVE" /\ s[id].starts > t
  BY DEF IsNext, Queued
<1>3. \A i \in DOMAIN s : moves(i) => s[id].starts <= s[i].starts
  BY DEF IsNext, Queued
<1>4. e \in Int /\ e > t
  <2>1. Length[s[id].billing] \in Nat /\ Length[s[id].billing] >= 1
    BY <1>1, <1>2, SubscriptionAssumption DEF BillingPeriod
  <2> QED BY <2>1
<1>5. s1 = [i \in DOMAIN s |->
              IF i = id THEN [s[i] EXCEPT !.starts = t, !.ends = e]
              ELSE IF moves(i) THEN Shifted(s[i], by)
              ELSE IF over(i) THEN Ended(s[i], "EXPIRED", t)
              ELSE s[i]]
  <2>1. \A i \in DOMAIN s : i # id => (i \in Queued(s, t) <=> moves(i))
    BY DEF Queued
  <2>2. \A i \in DOMAIN s : i # id /\ ~moves(i) => (IsRunning(s[i]) /\ Covers(s[i], t) <=> over(i))
    OBVIOUS
  <2> DEFINE g(i) == IF i = id THEN [s[i] EXCEPT !.starts = t, !.ends = e]
                     ELSE IF moves(i) THEN Shifted(s[i], by)
                     ELSE IF over(i) THEN Ended(s[i], "EXPIRED", t)
                     ELSE s[i]
  <2>3. ASSUME NEW i \in DOMAIN s
        PROVE  (IF i = id THEN [s[id] EXCEPT !.starts = t, !.ends = e]
                ELSE IF i \in Queued(s, t) THEN Shifted(s[i], by)
                ELSE IF IsRunning(s[i]) /\ Covers(s[i], t) THEN Ended(s[i], "EXPIRED", t)
                ELSE s[i]) = g(i)
    <3>1. CASE i = id
      BY <3>1
    <3>2. CASE i # id /\ moves(i)
      BY <2>1, <3>2
    <3>3. CASE i # id /\ ~moves(i)
      BY <2>1, <3>3
    <3> QED BY <3>1, <3>2, <3>3
  <2> QED BY <2>3 DEF StartedNow
<1> HIDE DEF e
<1>6. by \in Int
  BY <1>1, <1>2, <1>4
<1> HIDE DEF by
<1>7. /\ s1[id] \in Period /\ s1[id].status = "ACTIVE" /\ s1[id].notified = s[id].notified
      /\ s1[id].starts = t /\ s1[id].ends = e
  <2> DEFINE p == s[id]
             q == [p EXCEPT !.starts = t, !.ends = e]
  <2>1. p \in Period /\ s1[id] = q
    BY <1>1, <1>2, <1>5
  <2>2. p.status = "ACTIVE" /\ p.notified = s[id].notified
    BY <1>2
  <2> HIDE DEF p
  <2>3. q \in Period /\ q.status = p.status /\ q.notified = p.notified /\ q.starts = t /\ q.ends = e
    BY <1>4, <2>1 DEF Period
  <2> HIDE DEF q
  <2> QED BY <2>1, <2>2, <2>3
<1>8. ASSUME NEW i \in DOMAIN s, moves(i)
      PROVE  /\ s1[i] \in Period /\ s1[i].status = s[i].status /\ s1[i].notified = s[i].notified
             /\ s1[i].starts = s[i].starts + by /\ s1[i].ends = s[i].ends + by
  <2> DEFINE p == s[i]
             q == Shifted(p, by)
  <2>1. p \in Period /\ s1[i] = q
    BY <1>1, <1>5, <1>8
  <2>2. p.status = s[i].status /\ p.notified = s[i].notified /\ p.starts = s[i].starts /\ p.ends = s[i].ends
    OBVIOUS
  <2> HIDE DEF p
  <2>3. /\ q \in Period /\ q.status = p.status /\ q.notified = p.notified
        /\ q.starts = p.starts + by /\ q.ends = p.ends + by
    BY <1>6, <2>1, ShiftedIs
  <2> HIDE DEF q
  <2> QED BY <2>1, <2>2, <2>3
<1>9. ASSUME NEW i \in DOMAIN s, over(i)
      PROVE  s1[i] \in Period /\ ~IsRunning(s1[i]) /\ s1[i].notified
  <2> DEFINE p == s[i]
             q == Ended(p, "EXPIRED", t)
  <2>1. p \in Period /\ s1[i] = q
    BY <1>1, <1>5, <1>9
  <2> HIDE DEF p
  <2>2. q \in Period /\ q.notified /\ ~IsRunning(q)
    BY <2>1, EndedIs
  <2> HIDE DEF q
  <2> QED BY <2>1, <2>2
<1>10. ASSUME NEW i \in DOMAIN s, i # id, ~moves(i), ~over(i) PROVE s1[i] = s[i]
  BY <1>5, <1>10
<1>11. s1 \in Seq(Period) /\ Len(s1) = Len(s) /\ DOMAIN s1 = DOMAIN s
  <2>1. \A i \in DOMAIN s : s1[i] \in Period
    BY <1>1, <1>7, <1>8, <1>9, <1>10
  <2>2. s1 = [i \in DOMAIN s |-> s1[i]]
    BY <1>5
  <2> QED BY <2>1, <2>2, ListIs
<1>12. Continues(s, s1)
  <2>1. ASSUME NEW i \in DOMAIN s, s1[i].status # s[i].status PROVE ~IsRunning(s1[i])
    BY <1>2, <1>7, <1>8, <1>9, <1>10, <2>1
  <2> QED BY <1>11, <2>1 DEF Continues
<1>13. ASSUME Sane(s, t) PROVE Sane(s1, t)
  <2>1. ASSUME NEW i \in DOMAIN s, i = id \/ moves(i)
        PROVE  i \in LiveIn(s, t) /\ s[i].starts < s[i].ends /\ ~s[i].notified
    <3>1. IsRunning(s[i]) /\ s[i].starts > t
      BY <1>2, <2>1 DEF IsRunning
    <3>2. s[i].starts < s[i].ends /\ ~s[i].notified
      BY <1>13, <3>1 DEF Sane, Sound
    <3> QED BY <1>1, <3>1, <3>2 DEF LiveIn
  <2>2. ASSUME NEW i \in LiveIn(s, t), i # id
        PROVE  i \in DOMAIN s /\ (moves(i) \/ over(i))
    <3>1. i \in DOMAIN s /\ IsRunning(s[i]) /\ s[i].ends > t
      BY <2>2 DEF LiveIn
    <3>2. s[i].status = "ACTIVE"
      <4>1. id \in LiveIn(s, t)
        BY <1>2, <2>1
      <4>2. s[i].status # "TRIAL"
        BY <1>13, <2>2, <4>1 DEF Sane, TrialAlone
      <4> QED BY <3>1, <4>2 DEF IsRunning
    <3> QED BY <1>1, <2>2, <3>1, <3>2 DEF Covers
  <2>3. ASSUME NEW i \in DOMAIN s, moves(i) PROVE s[i].starts >= s[id].ends
    <3>1. s[i].ends <= s[id].starts \/ s[id].ends <= s[i].starts
      BY <1>2, <1>13, <2>1, <2>3 DEF Sane, Unbroken
    <3>2. s[i].starts < s[i].ends /\ s[id].starts <= s[i].starts
      BY <1>3, <2>1, <2>3
    <3> QED BY <1>1, <1>2, <3>1, <3>2
  <2>4. ASSUME NEW i \in DOMAIN s, moves(i)
        PROVE  /\ s1[i].starts >= e /\ s1[i].ends > s1[i].starts /\ i \in LiveIn(s1, t)
               /\ s1[i].status = "ACTIVE"
    <3>1. s1[i].starts = s[i].starts + by /\ s1[i].ends = s[i].ends + by /\ s1[i].status = "ACTIVE"
      BY <1>8, <2>4
    <3>2. s[i].starts < s[i].ends /\ s[i].starts >= s[id].ends
      BY <2>1, <2>3, <2>4
    <3>3. s1[i].starts >= e /\ s1[i].ends > s1[i].starts /\ s1[i].ends > t
      BY <1>1, <1>2, <1>4, <3>1, <3>2 DEF by
    <3> QED BY <1>11, <3>1, <3>3 DEF LiveIn, IsRunning
  <2>5. id \in LiveIn(s1, t)
    BY <1>2, <1>4, <1>7, <1>11 DEF LiveIn, IsRunning
  <2>6. ASSUME NEW i \in LiveIn(s1, t), i # id PROVE i \in DOMAIN s /\ moves(i)
    <3>1. i \in DOMAIN s /\ IsRunning(s1[i]) /\ s1[i].ends > t
      BY <1>11, <2>6 DEF LiveIn
    <3>2. ~over(i)
      BY <1>9, <3>1
    <3>3. CASE ~moves(i)
      <4>1. s1[i] = s[i]
        BY <1>10, <2>6, <3>1, <3>2, <3>3
      <4>2. i \in LiveIn(s, t)
        BY <3>1, <4>1 DEF LiveIn
      <4> QED BY <2>2, <2>6, <3>2, <4>2
    <3> QED BY <3>1, <3>3
  <2>7. Sound(s1)
    <3>1. ASSUME NEW i \in DOMAIN s1
          PROVE  /\ IsRunning(s1[i]) => s1[i].starts < s1[i].ends
                 /\ IsRunning(s1[i]) <=> ~s1[i].notified
      <4>1. i \in DOMAIN s
        BY <1>11
      <4>2. CASE i = id
        <5>1. ~s[id].notified
          BY <2>1, <4>1, <4>2
        <5> QED BY <1>4, <1>7, <4>2, <5>1 DEF IsRunning
      <4>3. CASE moves(i)
        <5>1. ~s[i].notified
          BY <2>1, <4>1, <4>3
        <5>2. s1[i].ends > s1[i].starts /\ s1[i].status = "ACTIVE"
          BY <2>4, <4>1, <4>3
        <5>3. s1[i].notified = s[i].notified
          BY <1>8, <4>1, <4>3
        <5>4. s1[i].ends \in Int /\ s1[i].starts \in Int
          BY <1>11, RowsAre
        <5> QED BY <5>1, <5>2, <5>3, <5>4 DEF IsRunning
      <4>4. CASE over(i)
        BY <1>9, <4>1, <4>4
      <4>5. CASE i # id /\ ~moves(i) /\ ~over(i)
        <5>1. s1[i] = s[i]
          BY <1>10, <4>1, <4>5
        <5> QED BY <1>13, <4>1, <5>1 DEF Sane, Sound
      <4> QED BY <4>2, <4>3, <4>4, <4>5
    <3> QED BY <3>1 DEF Sound
  <2>8. TrialAlone(s1, t)
    BY <1>7, <2>4, <2>6 DEF TrialAlone
  <2>9. ASSUME NEW i \in LiveIn(s1, t)
        PROVE  s1[i].starts <= t \/ \E j \in LiveIn(s1, t) : s1[j].ends = s1[i].starts
    <3>1. CASE i = id
      BY <1>7, <3>1
    <3>2. CASE i # id
      <4>1. i \in DOMAIN s /\ moves(i)
        BY <2>6, <3>2
      <4>2. PICK j \in LiveIn(s, t) : s[j].ends = s[i].starts
        BY <1>1, <1>13, <2>1, <4>1 DEF Sane, Unbroken
      <4>3. s1[i].starts = s[i].starts + by
        BY <1>8, <4>1
      <4>4. CASE j = id
        <5>1. s1[id].ends = s1[i].starts
          BY <1>1, <1>2, <1>4, <1>7, <4>1, <4>2, <4>3, <4>4 DEF by
        <5> QED BY <2>5, <5>1
      <4>5. CASE j # id
        <5>1. j \in DOMAIN s /\ (moves(j) \/ over(j))
          BY <2>2, <4>5
        <5>2. CASE moves(j)
          <6>1. s1[j].ends = s1[i].starts
            BY <1>8, <4>2, <4>3, <5>1, <5>2
          <6> QED BY <2>4, <5>1, <5>2, <6>1
        <5>3. CASE over(j)
          <6>1. s[j].starts <= t /\ s[i].starts >= s[id].ends /\ s[id].starts < s[id].ends
            BY <1>2, <2>1, <2>3, <4>1, <5>3 DEF Covers
          <6>2. s[j].ends <= s[id].starts \/ s[id].ends <= s[j].starts
            BY <1>2, <1>13, <2>1, <4>2, <4>5 DEF Sane, Unbroken
          <6> QED BY <1>1, <1>2, <4>1, <4>2, <5>1, <6>1, <6>2
        <5> QED BY <5>1, <5>2, <5>3
      <4> QED BY <4>4, <4>5
    <3> QED BY <3>1, <3>2
  <2>10. ASSUME NEW i \in LiveIn(s1, t), NEW j \in LiveIn(s1, t), i # j
         PROVE  s1[i].ends <= s1[j].starts \/ s1[j].ends <= s1[i].starts
    <3>1. CASE i = id
      BY <1>7, <2>4, <2>6, <2>10, <3>1
    <3>2. CASE j = id
      BY <1>7, <2>4, <2>6, <2>10, <3>2
    <3>3. CASE i # id /\ j # id
      <4>1. i \in DOMAIN s /\ moves(i) /\ j \in DOMAIN s /\ moves(j)
        BY <2>6, <3>3
      <4>2. s[i].ends <= s[j].starts \/ s[j].ends <= s[i].starts
        BY <1>13, <2>1, <2>10, <4>1 DEF Sane, Unbroken
      <4>3. /\ s1[i].starts = s[i].starts + by /\ s1[i].ends = s[i].ends + by
            /\ s1[j].starts = s[j].starts + by /\ s1[j].ends = s[j].ends + by
        BY <1>8, <4>1
      <4> QED BY <1>1, <1>6, <4>1, <4>2, <4>3
    <3> QED BY <3>1, <3>2, <3>3
  <2> QED BY <2>7, <2>8, <2>9, <2>10 DEF Sane, Unbroken
<1> QED
  BY <1>11, <1>12, <1>13

\* The trial of a business that had no period.
LEMMA TrialIs ==
  ASSUME NEW t \in Int, NEW s1, s1 = Append(<<>>, Row(TrialPlan, "TRIAL", t, t + Length["TRIAL"]))
  PROVE  Sane(s1, t)
<1> DEFINE e == t + Length["TRIAL"]
           p == Row(TrialPlan, "TRIAL", t, e)
<1>1. e \in Int /\ e > t /\ TrialPlan \in Plan /\ "TRIAL" \in BillingPeriod
  <2>1. Length["TRIAL"] \in Nat \ {0}
    BY SubscriptionAssumption
  <2> QED BY <2>1, SubscriptionAssumption DEF BillingPeriod
<1>2. s1 = Append(<<>>, p)
  OBVIOUS
<1> HIDE DEF e
<1>3. p \in Period /\ p.starts = t /\ p.ends = e /\ ~p.notified /\ IsRunning(p)
  BY <1>1, RowIs
<1> HIDE DEF p
<1>4. DOMAIN s1 = {1} /\ s1[1] = p
  BY <1>2
<1>5. LiveIn(s1, t) = {1}
  BY <1>1, <1>3, <1>4 DEF LiveIn
<1> QED
  BY <1>1, <1>3, <1>4, <1>5 DEF Sane, Unbroken, Sound, TrialAlone

\* The rows of s1 after the n-th put behind a list: nothing, or one row.
Behind(m, s1, n) == m \o SubSeq(s1, n + 1, Len(s1))

\* The list stays as it was, and what is put behind it is the last row of s1 if that is longer.
LEMMA SplicedIs ==
  ASSUME NEW m \in Seq(Period), NEW s1 \in Seq(Period), NEW n \in Nat,
         Len(s1) = n \/ Len(s1) = n + 1
  PROVE  /\ Behind(m, s1, n) \in Seq(Period) /\ Len(Behind(m, s1, n)) = Len(m) + (Len(s1) - n)
         /\ \A i \in DOMAIN m : Behind(m, s1, n)[i] = m[i]
         /\ Len(s1) = n + 1 => Behind(m, s1, n)[Len(m) + 1] = s1[n + 1]
<1> DEFINE q == m \o SubSeq(s1, n + 1, Len(s1))
<1> SUFFICES /\ q \in Seq(Period) /\ Len(q) = Len(m) + (Len(s1) - n)
             /\ \A i \in DOMAIN m : q[i] = m[i]
             /\ Len(s1) = n + 1 => q[Len(m) + 1] = s1[n + 1]
  BY DEF Behind
<1>1. CASE Len(s1) = n
  <2>1. SubSeq(s1, n + 1, Len(s1)) = <<>>
    BY <1>1, SubSeqEmpty
  <2>2. q = m
    BY <2>1, ConcatEmptySeq
  <2> QED BY <1>1, <2>2
<1>2. CASE Len(s1) = n + 1
  <2> DEFINE k == n + 1
             t == SubSeq(s1, k, k)
  <2>1. k \in Int /\ k >= 1 /\ Len(s1) = k
    BY <1>2
  <2>2. q = m \o t
    BY <1>2
  <2> HIDE DEF k
  <2>3. s1[k] \in Period
    BY <2>1
  <2>4. \A i \in k .. k : s1[i] \in Period
    BY <2>1, <2>3
  <2>5. /\ t \in Seq(Period) /\ Len(t) = IF k <= k THEN k - k + 1 ELSE 0
        /\ \A i \in 1 .. k - k + 1 : t[i] = s1[k + i - 1]
    BY <2>1, <2>4, SubSeqProperties
  <2> HIDE DEF t
  <2>6. Len(t) = 1 /\ t[1] = s1[k]
    <3>1. k <= k /\ k - k + 1 = 1 /\ k + 1 - 1 = k
      BY <2>1
    <3>2. Len(t) = 1 /\ \A i \in 1 .. 1 : t[i] = s1[k + i - 1]
      BY <2>5, <3>1
    <3>3. 1 \in 1 .. 1
      OBVIOUS
    <3>4. t[1] = s1[k + 1 - 1]
      BY <3>2, <3>3
    <3> QED BY <3>1, <3>2, <3>4
  <2>7. /\ m \o t \in Seq(Period) /\ Len(m \o t) = Len(m) + Len(t)
        /\ \A i \in 1 .. Len(m) + Len(t) : (m \o t)[i] = IF i <= Len(m) THEN m[i] ELSE t[i - Len(m)]
    BY <2>5, ConcatProperties
  <2>8. DOMAIN m = 1 .. Len(m) /\ Len(m) \in Nat
    OBVIOUS
  <2>9. ASSUME NEW i \in DOMAIN m PROVE q[i] = m[i]
    BY <2>2, <2>6, <2>7, <2>8
  <2>10. q[Len(m) + 1] = t[1]
    BY <2>2, <2>6, <2>7, <2>8
  <2>11. q \in Seq(Period) /\ Len(q) = Len(m) + 1
    BY <2>2, <2>6, <2>7
  <2>12. Len(s1) - n = 1
    BY <1>2
  <2>13. q[Len(m) + 1] = s1[n + 1]
    BY <2>6, <2>10 DEF k
  <2> QED BY <2>9, <2>11, <2>12, <2>13
<1> QED
  BY <1>1, <1>2

\* The rows after a call has written what it made of the rows it read.
LEMMA AppliedIs ==
  ASSUME periods \in Seq(Period), NEW s \in Seq(Period), Len(s) <= Len(periods),
         NEW s1, Continues(s, s1), NEW q, q = Apply(s, s1)
  PROVE  /\ q \in Seq(Period) /\ Len(q) = Len(periods) + (Len(s1) - Len(s))
         /\ DOMAIN s \subseteq DOMAIN periods
         /\ \A i \in DOMAIN s : q[i] = Merged(periods[i], s[i], s1[i])
         /\ \A i \in DOMAIN periods \ DOMAIN s : q[i] = periods[i]
         /\ Len(s) = Len(periods) => DOMAIN q = DOMAIN s1 /\ \A i \in DOMAIN q \ DOMAIN s : q[i] = s1[i]
<1> DEFINE n == Len(s)
           n1 == Len(s1)
           np == Len(periods)
           m == [i \in DOMAIN periods |->
                  IF i \in DOMAIN s THEN Merged(periods[i], s[i], s1[i]) ELSE periods[i]]
<1>1. /\ s1 \in Seq(Period) /\ (n1 = n \/ n1 = n + 1)
      /\ n \in Nat /\ n1 \in Nat /\ np \in Nat /\ n <= np
      /\ DOMAIN s = 1 .. n /\ DOMAIN periods = 1 .. np /\ DOMAIN s1 = 1 .. n1
  BY DEF Continues
<1>2. /\ \A i \in DOMAIN s : s[i] \in Period
      /\ \A i \in DOMAIN s1 : s1[i] \in Period
      /\ \A i \in DOMAIN periods : periods[i] \in Period
  BY <1>1, RowsAre
<1>3. q = m \o SubSeq(s1, n + 1, n1)
  BY DEF Apply
<1> HIDE DEF n, n1, np
<1>4. DOMAIN s \subseteq DOMAIN periods /\ DOMAIN s \subseteq DOMAIN s1
  BY <1>1
<1>5. m \in Seq(Period) /\ Len(m) = np /\ DOMAIN m = DOMAIN periods
  <2>1. ASSUME NEW i \in DOMAIN periods PROVE m[i] \in Period
    <3>1. CASE i \in DOMAIN s
      <4>1. periods[i] \in Period /\ s[i] \in Period /\ s1[i] \in Period
        BY <1>2, <1>4, <3>1
      <4>2. Merged(periods[i], s[i], s1[i]) \in Period
        BY <4>1, MergedIs
      <4> QED BY <3>1, <4>2
    <3>2. CASE i \notin DOMAIN s
      BY <1>2, <3>2
    <3> QED BY <3>1, <3>2
  <2>2. m = [i \in DOMAIN periods |-> m[i]]
    OBVIOUS
  <2> HIDE DEF m
  <2> QED BY <2>1, <2>2, ListIs DEF np
<1>6. \A i \in DOMAIN periods : m[i] = IF i \in DOMAIN s THEN Merged(periods[i], s[i], s1[i]) ELSE periods[i]
  OBVIOUS
<1> HIDE DEF m
<1>7. /\ q \in Seq(Period) /\ Len(q) = np + (n1 - n)
      /\ \A i \in DOMAIN m : q[i] = m[i]
      /\ n1 = n + 1 => q[np + 1] = s1[n + 1]
  <2>1. /\ q \in Seq(Period) /\ Len(q) = Len(m) + (Len(s1) - n)
        /\ \A i \in DOMAIN m : q[i] = m[i]
        /\ Len(s1) = n + 1 => q[Len(m) + 1] = s1[n + 1]
    <3>1. s1 \in Seq(Period) /\ n \in Nat /\ (Len(s1) = n \/ Len(s1) = n + 1)
      BY <1>1 DEF n1
    <3>2. q = Behind(m, s1, n) /\ m \in Seq(Period)
      BY <1>3, <1>5 DEF n1, Behind
    <3> DEFINE b == Behind(m, s1, n)
    <3>3. /\ b \in Seq(Period) /\ Len(b) = Len(m) + (Len(s1) - n)
          /\ \A i \in DOMAIN m : b[i] = m[i]
          /\ Len(s1) = n + 1 => b[Len(m) + 1] = s1[n + 1]
      <4> HIDE DEF b
      <4>1. b = Behind(m, s1, n)
        BY DEF b
      <4>2. m \in Seq(Period) /\ s1 \in Seq(Period) /\ n \in Nat /\ (Len(s1) = n \/ Len(s1) = n + 1)
        BY <3>1, <3>2
      <4> QED BY <4>1, <4>2, SplicedIs, ZenonT(30)
    <3> QED BY <3>2, <3>3
  <2> QED BY <1>5, <2>1 DEF n1
<1>8. \A i \in DOMAIN periods : q[i] = IF i \in DOMAIN s THEN Merged(periods[i], s[i], s1[i]) ELSE periods[i]
  BY <1>5, <1>6, <1>7
<1>9. ASSUME n = np
      PROVE  DOMAIN q = DOMAIN s1 /\ \A i \in DOMAIN q \ DOMAIN s : q[i] = s1[i]
  <2>1. Len(q) = n1
    BY <1>1, <1>7, <1>9
  <2>2. DOMAIN q = 1 .. n1
    BY <1>7, <2>1
  <2>3. ASSUME NEW i \in 1 .. n1, i \notin 1 .. n PROVE i = n + 1 /\ n1 = n + 1
    BY <1>1, <2>3
  <2> QED BY <1>1, <1>7, <1>9, <2>2, <2>3
<1>10. \A i \in DOMAIN s : q[i] = Merged(periods[i], s[i], s1[i])
  BY <1>4, <1>8
<1>11. \A i \in DOMAIN periods \ DOMAIN s : q[i] = periods[i]
  BY <1>8
<1> QED
  BY <1>4, <1>7, <1>9, <1>10, <1>11 DEF n, n1, np

----------------------------------------------------------------------------
(* Types. *)

\* What a call that has decided was asked.
Asked(k) ==
  /\ k.op # "none" /\ Len(k.seen) <= Len(periods)
  /\ k.op \in {"create", "replace"} => k.billing # "TRIAL"
  /\ k.op = "next" => IsNext(k.seen, k.at, k.id)
  /\ k.op = "cancel" => k.id \in DOMAIN k.seen

AllAsked == \A c \in SubCall : subCall[c].pc = "write" => Asked(subCall[c])

\* What a call writes is a list of rows, which goes on the one it finds.
LEMMA WriteIs ==
  ASSUME SubTypeOK, AllAsked, NEW c \in SubCall, Write(c)
  PROVE  LET k == subCall[c]
         IN  /\ periods' \in Seq(Period) /\ Len(periods) <= Len(periods')
             /\ \/ periods' = periods /\ \E i \in DOMAIN periods : TRUE
                \/ /\ k.op = "trial"
                   /\ periods' = Append(periods, Row(TrialPlan, "TRIAL", k.at, k.at + Length["TRIAL"]))
                \/ /\ k.op = "cancel"
                   /\ periods' = Cancelled(periods, k.at, k.id, k.seen[k.id].starts)
                \/ \E s1 : /\ Continues(k.seen, s1)
                           /\ Sane(k.seen, k.at) => Sane(s1, k.at)
                           /\ periods' = Apply(k.seen, s1)
<1> DEFINE k == subCall[c]
           twice == k.op = "trial" /\ \E i \in DOMAIN periods : periods[i].billing = "TRIAL"
           p == Row(TrialPlan, "TRIAL", k.at, k.at + Length["TRIAL"])
<1>1. /\ k \in SubCallState /\ periods \in Seq(Period) /\ k.at \in Nat /\ k.plan \in Plan
      /\ k.billing \in BillingPeriod /\ k.seen \in Seq(Period)
      /\ k.op \in {"none", "trial", "create", "replace", "next", "cancel"}
  BY DEF SubTypeOK, SubCallState
<1>2. k.pc = "write" /\ Asked(k)
  BY DEF Write, AllAsked
<1>3. periods' =
          CASE twice -> periods
            [] k.op = "trial" /\ ~twice -> Append(periods, p)
            [] k.op \in {"create", "replace"} ->
                 Apply(k.seen, Created(k.seen, k.at, k.plan, k.billing, k.op = "replace"))
            [] k.op = "next" -> Apply(k.seen, StartedNow(k.seen, k.at, k.id))
            [] k.op = "cancel" -> Cancelled(periods, k.at, k.id, k.seen[k.id].starts)
  BY DEF Write
<1>4. p \in Period
  <2> DEFINE e == k.at + Length["TRIAL"]
  <2>1. TrialPlan \in Plan /\ "TRIAL" \in BillingPeriod /\ Length["TRIAL"] \in Nat
    BY SubscriptionAssumption DEF BillingPeriod
  <2>2. k.at \in Int /\ e \in Int
    BY <1>1, <2>1
  <2> HIDE DEF e
  <2> QED BY <2>1, <2>2, RowIs DEF e
<1>5. CASE twice
  BY <1>1, <1>3, <1>5
<1>6. CASE k.op = "trial" /\ ~twice
  <2>1. periods' = Append(periods, p)
    BY <1>3, <1>6
  <2> HIDE DEF p
  <2>2. periods' \in Seq(Period) /\ Len(periods') = Len(periods) + 1 /\ Len(periods) \in Nat
    BY <1>1, <1>4, <2>1
  <2>3. Len(periods) <= Len(periods')
    BY <2>2
  <2> QED BY <1>6, <2>1, <2>2, <2>3 DEF p
<1>7. ASSUME NEW s1, Continues(k.seen, s1), Sane(k.seen, k.at) => Sane(s1, k.at),
             periods' = Apply(k.seen, s1)
      PROVE  periods' \in Seq(Period) /\ Len(periods) <= Len(periods')
  <2> DEFINE s == k.seen
             q == Apply(s, s1)
  <2>1. Len(s) <= Len(periods) /\ s \in Seq(Period)
    BY <1>1, <1>2 DEF Asked
  <2>2. Continues(s, s1)
    BY <1>7
  <2>3. periods' = q
    BY <1>7
  <2> HIDE DEF s
  <2>4. q \in Seq(Period) /\ Len(q) = Len(periods) + (Len(s1) - Len(s))
    BY <1>1, <2>1, <2>2, AppliedIs
  <2> HIDE DEF q
  <2>5. Len(s1) - Len(s) \in {0, 1} /\ Len(periods) \in Nat
    BY <1>1, <2>1, <2>2 DEF Continues
  <2> QED BY <2>3, <2>4, <2>5
<1>8. CASE k.op \in {"create", "replace"}
  <2> DEFINE s == k.seen
             s1 == Created(s, k.at, k.plan, k.billing, k.op = "replace")
  <2>1. periods' = Apply(s, s1)
    BY <1>3, <1>8
  <2>2. k.billing # "TRIAL" /\ k.at \in Int
    BY <1>1, <1>2, <1>8 DEF Asked
  <2>3. Continues(s, s1) /\ (Sane(s, k.at) => Sane(s1, k.at))
    <3> DEFINE t == k.at
               replace == k.op = "replace"
    <3>1. t \in Int /\ replace \in BOOLEAN
      BY <2>2
    <3> HIDE DEF t, replace
    <3>2. Continues(s, Created(s, t, k.plan, k.billing, replace))
          /\ (Sane(s, t) => Sane(Created(s, t, k.plan, k.billing, replace), t))
      BY <1>1, <2>2, <3>1, CreatedIs
    <3> QED BY <3>2 DEF t, replace
  <2> HIDE DEF s1
  <2> QED BY <1>7, <2>1, <2>3
<1>9. CASE k.op = "next"
  <2> DEFINE s == k.seen
             s1 == StartedNow(s, k.at, k.id)
  <2>1. periods' = Apply(s, s1)
    BY <1>3, <1>9
  <2>2. IsNext(s, k.at, k.id) /\ k.at \in Int
    BY <1>1, <1>2, <1>9 DEF Asked
  <2>3. Continues(s, s1) /\ (Sane(s, k.at) => Sane(s1, k.at))
    <3> DEFINE t == k.at
    <3>1. t \in Int /\ IsNext(s, t, k.id)
      BY <2>2
    <3> HIDE DEF t
    <3>2. Continues(s, StartedNow(s, t, k.id)) /\ (Sane(s, t) => Sane(StartedNow(s, t, k.id), t))
      BY <1>1, <3>1, StartedNowIs
    <3> QED BY <3>2 DEF t
  <2> HIDE DEF s1
  <2> QED BY <1>7, <2>1, <2>3
<1>10. CASE k.op = "cancel"
  <2> DEFINE q == Cancelled(periods, k.at, k.id, k.seen[k.id].starts)
             starts == k.seen[k.id].starts
  <2>1. periods' = q
    BY <1>3, <1>10
  <2>2. k.id \in DOMAIN k.seen /\ Len(k.seen) <= Len(periods)
    BY <1>2, <1>10 DEF Asked
  <2>3. k.id \in DOMAIN periods /\ starts \in Int /\ k.at \in Int
    <3>1. starts \in Int
      BY <1>1, <2>2, RowsAre
    <3>2. DOMAIN k.seen = 1 .. Len(k.seen) /\ DOMAIN periods = 1 .. Len(periods)
          /\ Len(k.seen) \in Nat /\ Len(periods) \in Nat
      BY <1>1
    <3>3. k.id \in DOMAIN periods
      BY <2>2, <3>2
    <3> QED BY <1>1, <3>1, <3>3
  <2>4. q \in Seq(Period) /\ Len(q) = Len(periods)
    <3> DEFINE t == k.at
               id == k.id
    <3>1. t \in Int /\ id \in DOMAIN periods /\ starts \in Int
      BY <2>3
    <3> HIDE DEF t, id, starts
    <3>2. Continues(periods, Cancelled(periods, t, id, starts)) /\ Len(Cancelled(periods, t, id, starts)) = Len(periods)
      BY <1>1, <3>1, CancelledIs
    <3> QED BY <3>2 DEF t, id, starts, Continues
  <2> HIDE DEF q
  <2>5. Len(periods) <= Len(periods')
    BY <1>1, <2>1, <2>4
  <2> QED BY <1>10, <2>1, <2>4, <2>5 DEF q
<1> QED
  BY <1>1, <1>2, <1>5, <1>6, <1>8, <1>9, <1>10 DEF Asked

\* What the priority lasts is the end of a period that runs, or nothing.
LEMMA PriorityIs ==
  ASSUME NEW s \in Seq(Period), NEW t \in Nat
  PROVE  /\ PriorityEnd(s, t) \in Nat
         /\ \/ PriorityEnd(s, t) = 0
            \/ \E j \in LiveIn(s, t) : PriorityEnd(s, t) = s[j].ends
<1> DEFINE live == LiveIn(s, t)
           before(j) ==
             {i \in live : s[i].starts < s[j].starts \/ (s[i].starts = s[j].starts /\ i < j)}
           follows(j) ==
             /\ s[j].plan \in Priority
             /\ s[j].starts <= t \/ \E i \in before(j) : s[j].starts <= s[i].ends
           reached == {j \in live : \A i \in before(j) \cup {j} : follows(i)}
           M == Max({s[j].ends : j \in reached})
<1>1. PriorityEnd(s, t) = IF reached = {} THEN 0 ELSE M
  BY DEF PriorityEnd, LiveIn
<1>2. reached \in SUBSET DOMAIN s /\ reached \subseteq live
  BY DEF LiveIn
<1> HIDE DEF reached
<1>3. t \in Int
  OBVIOUS
<1>4. reached # {} => \E j \in reached : M = s[j].ends
  BY <1>2, <1>3, LatestEnd
<1> HIDE DEF M
<1>5. \A j \in LiveIn(s, t) : s[j].ends \in Int /\ s[j].ends > t
  BY RowsAre DEF LiveIn
<1> QED
  BY <1>1, <1>2, <1>4, <1>5

\* A call that is free is one.
LEMMA FreeIs == Free \in SubCallState
<1>1. TrialPlan \in Plan /\ "TRIAL" \in BillingPeriod
  BY SubscriptionAssumption DEF BillingPeriod
<1> QED
  BY <1>1 DEF Free, SubCallState

\* A call that asks holds what it was asked and the rows it read.
LEMMA AskIs ==
  ASSUME SubTypeOK, AllAsked, NEW c \in SubCall,
         NEW op \in {"trial", "create", "replace", "next", "cancel"}, NEW plan \in Plan,
         NEW billing \in BillingPeriod, NEW id \in Nat, Ask(c, op, plan, billing, id),
         withdrawn' \in SUBSET (Plan \ {TrialPlan}),
         op \in {"create", "replace"} => billing # "TRIAL",
         op = "next" => IsNext(periods, now, id), op = "cancel" => id \in DOMAIN periods
  PROVE  SubTypeOK' /\ AllAsked'
<1> DEFINE k == [Free EXCEPT !.pc = "write", !.op = op, !.plan = plan, !.billing = billing,
                             !.id = id, !.at = now, !.seen = periods]
<1>1. TrialPlan \in Plan /\ "TRIAL" \in BillingPeriod
  BY SubscriptionAssumption DEF BillingPeriod
<1>2. now \in Nat /\ periods \in Seq(Period)
  BY DEF SubTypeOK
<1>3. /\ k.pc = "write" /\ k.op = op /\ k.plan = plan /\ k.billing = billing /\ k.id = id
      /\ k.at = now /\ k.seen = periods
  BY DEF Free
<1>4. k \in SubCallState
  BY <1>2, FreeIs DEF SubCallState
<1>5. /\ subCall' = [subCall EXCEPT ![c] = k]
      /\ overlaps' = overlaps + (IF Deciding = {} THEN 0 ELSE 1)
      /\ now' = now /\ periods' = periods /\ until' = until /\ missed' = missed
      /\ sweeper' = sweeper /\ deaths' = deaths /\ raced' = raced
  BY DEF Ask, shown
<1> HIDE DEF k
<1>6. subCall' \in [SubCall -> SubCallState] /\ subCall'[c] = k
      /\ \A d \in SubCall \ {c} : subCall'[d] = subCall[d]
  BY <1>4, <1>5 DEF SubTypeOK
<1>7. SubTypeOK'
  BY <1>5, <1>6 DEF SubTypeOK
<1>8. Len(periods) \in Nat
  BY <1>2
<1>9. AllAsked'
  <2>1. ASSUME NEW d \in SubCall, subCall'[d].pc = "write" PROVE Asked(subCall[d])'
    <3>1. CASE d = c
      <4>1. subCall'[d] = k
        BY <1>6, <3>1
      <4> QED BY <1>3, <1>5, <1>8, <4>1 DEF Asked
    <3>2. CASE d # c
      BY <1>5, <1>6, <2>1, <3>2 DEF AllAsked, Asked
    <3> QED BY <3>1, <3>2
  <2> QED BY <2>1 DEF AllAsked
<1> QED
  BY <1>7, <1>9

\* A row the sweep has expired, the others untouched.
LEMMA ExpiredIs ==
  ASSUME NEW s \in Seq(Period), NEW i \in DOMAIN s, NEW q,
         q = Expired(s, i)
  PROVE  /\ q \in Seq(Period) /\ Len(q) = Len(s) /\ DOMAIN q = DOMAIN s
         /\ q[i].status = "EXPIRED" /\ q[i].notified
         /\ q[i].starts = s[i].starts /\ q[i].ends = s[i].ends
         /\ \A j \in DOMAIN s \ {i} : q[j] = s[j]
<1>1. \A j \in DOMAIN s : s[j] \in Period
  BY RowsAre
<1>2. DOMAIN q = DOMAIN s /\ \A j \in DOMAIN s \ {i} : q[j] = s[j]
  BY DEF Expired
<1>3. /\ q[i] \in Period /\ q[i].status = "EXPIRED" /\ q[i].notified
      /\ q[i].starts = s[i].starts /\ q[i].ends = s[i].ends
  BY <1>1 DEF Period, Expired
<1>4. q = [j \in DOMAIN s |-> q[j]]
  BY DEF Expired
<1>5. \A j \in DOMAIN s : q[j] \in Period
  BY <1>1, <1>2, <1>3
<1>6. q \in Seq(Period) /\ Len(q) = Len(s)
  <2>1. DOMAIN s = 1 .. Len(s) /\ Len(s) \in Nat
    OBVIOUS
  <2>2. q \in [1 .. Len(s) -> Period]
    BY <1>2, <1>4, <1>5, <2>1
  <2> QED BY <2>1, <2>2
<1> QED
  BY <1>2, <1>3, <1>6

\* Every step keeps the types, and what calls were asked.
LEMMA TypesStep ==
  ASSUME SubTypeOK, AllAsked, [SubNext]_subVars
  PROVE  SubTypeOK' /\ AllAsked'
<1>0. TrialPlan \in Plan /\ "TRIAL" \in BillingPeriod /\ 0 \in Nat /\ DOMAIN periods \subseteq Nat
  BY SubscriptionAssumption DEF BillingPeriod, SubTypeOK
<1>1. ASSUME NEW c \in SubCall, AskTrial(c) PROVE SubTypeOK' /\ AllAsked'
  <2>1. Ask(c, "trial", TrialPlan, "TRIAL", 0) /\ withdrawn' = withdrawn
    BY <1>1 DEF AskTrial
  <2> QED BY <2>1, <1>0, AskIs DEF SubTypeOK
<1>2. ASSUME NEW c \in SubCall, NEW plan \in Plan, NEW billing \in BillingPeriod, NEW op \in {"create", "replace"}, AskPeriod(c, plan, billing, op)
       PROVE  SubTypeOK' /\ AllAsked'
  <2>1. Ask(c, op, plan, billing, 0) /\ withdrawn' = withdrawn /\ billing # "TRIAL"
    BY <1>2 DEF AskPeriod
  <2> QED BY <2>1, AskIs DEF SubTypeOK
<1>3. ASSUME NEW c \in SubCall, NEW id \in DOMAIN periods, AskNext(c, id)
       PROVE  SubTypeOK' /\ AllAsked'
  <2>1. Ask(c, "next", TrialPlan, "TRIAL", id) /\ withdrawn' = withdrawn /\ IsNext(periods, now, id)
    BY <1>3 DEF AskNext
  <2> QED BY <2>1, <1>0, AskIs DEF SubTypeOK
<1>4. ASSUME NEW c \in SubCall, NEW id \in DOMAIN periods, AskCancel(c, id)
       PROVE  SubTypeOK' /\ AllAsked'
  <2>1. Ask(c, "cancel", TrialPlan, "TRIAL", id) /\ withdrawn' = withdrawn
    BY <1>4 DEF AskCancel
  <2> QED BY <2>1, <1>0, AskIs DEF SubTypeOK
<1>5. ASSUME NEW c \in SubCall, NEW plan \in Plan, AskDelete(c, plan)
       PROVE  SubTypeOK' /\ AllAsked'
  <2> DEFINE on == {i \in DOMAIN periods : IsRunning(periods[i]) /\ periods[i].plan = plan}
             first == CHOOSE i \in on : \A j \in on : periods[i].starts <= periods[j].starts
  <2>1. /\ Deletable(plan) /\ withdrawn' = withdrawn \cup {plan}
        /\ IF on = {} THEN UNCHANGED <<now, periods, shown, subCall, sweeper, bounds, raced>>
           ELSE Ask(c, "cancel", TrialPlan, "TRIAL", first)
    BY <1>5 DEF AskDelete
  <2>2. withdrawn' \in SUBSET (Plan \ {TrialPlan})
    BY <2>1 DEF Deletable, SubTypeOK
  <2>3. CASE on = {}
    BY <2>1, <2>2, <2>3 DEF SubTypeOK, AllAsked, Asked, shown, bounds
  <2>4. CASE on # {}
    <3>1. first \in on
      <4> DEFINE f == [i \in on |-> -periods[i].starts]
      <4>1. periods \in Seq(Period)
        BY DEF SubTypeOK
      <4>2. IsFiniteSet(on) /\ f \in [on -> Int] /\ \A i \in on : periods[i].starts \in Int
        BY <4>1, RowsAre, FS_Subset
      <4>3. \A y \in on : f[y] = -periods[y].starts
        OBVIOUS
      <4> HIDE DEF on, f
      <4>4. PICK x \in on : \A y \in on : f[x] >= f[y]
        BY <2>4, <4>2, Latest
      <4>5. \A y \in on : periods[x].starts <= periods[y].starts
        BY <4>2, <4>3, <4>4
      <4> QED BY <4>5
    <3>2. first \in DOMAIN periods
      BY <3>1
    <3> HIDE DEF first
    <3> QED BY <2>1, <2>2, <2>4, <3>2, <1>0, AskIs
  <2> QED BY <2>3, <2>4
<1>6. ASSUME NEW c \in SubCall, Write(c) PROVE SubTypeOK' /\ AllAsked'
  <2> DEFINE k == subCall[c]
             twice == k.op = "trial" /\ \E i \in DOMAIN periods : periods[i].billing = "TRIAL"
             k1 == IF twice THEN Free ELSE [Free EXCEPT !.pc = "sync"]
  <2>1. periods' \in Seq(Period) /\ Len(periods) <= Len(periods') /\ periods \in Seq(Period)
    BY <1>6, WriteIs DEF SubTypeOK
  <2>2. k1 \in SubCallState /\ k1.pc # "write"
    BY FreeIs DEF Free, SubCallState
  <2>3. /\ subCall' = [subCall EXCEPT ![c] = k1]
        /\ raced' = (raced \/ Deciding # {c} \/ Revived(k.seen)) /\ missed' = (missed \/ Showing(c))
        /\ UNCHANGED <<now, withdrawn, until, sweeper, bounds>>
    BY <1>6 DEF Write
  <2> HIDE DEF k1
  <2>4. subCall' \in [SubCall -> SubCallState] /\ \A d \in SubCall : subCall'[d].pc = "write" => subCall'[d] = subCall[d]
    BY <2>2, <2>3 DEF SubTypeOK
  <2>5. DOMAIN periods \subseteq DOMAIN periods'
    <3>1. DOMAIN periods = 1 .. Len(periods) /\ DOMAIN periods' = 1 .. Len(periods')
          /\ Len(periods) \in Nat /\ Len(periods') \in Nat
      BY <2>1
    <3> QED BY <2>1, <3>1
  <2>6. sweeper' \in [pc : {"idle", "sync", "show"}, todo : SUBSET DOMAIN periods', until : Nat]
    BY <2>3, <2>5 DEF SubTypeOK
  <2>7. SubTypeOK'
    <3>1. raced' \in BOOLEAN /\ missed' \in BOOLEAN
      BY <2>3
    <3> QED BY <2>1, <2>3, <2>4, <2>6, <3>1 DEF SubTypeOK, bounds
  <2>8. AllAsked'
    <3>1. \A d \in SubCall : Len(subCall[d].seen) \in Nat
      BY DEF SubTypeOK, SubCallState
    <3>2. Len(periods) \in Nat /\ Len(periods') \in Nat
      BY <2>1
    <3>3. ASSUME NEW d \in SubCall, subCall'[d].pc = "write" PROVE Asked(subCall[d])'
      <4>1. subCall'[d] = subCall[d] /\ Asked(subCall[d])
        BY <2>4, <3>3 DEF AllAsked
      <4> QED BY <2>1, <3>1, <3>2, <4>1 DEF Asked
    <3> QED BY <3>3 DEF AllAsked
  <2> QED BY <2>7, <2>8
<1>7. ASSUME NEW c \in SubCall, ReadPriority(c) PROVE SubTypeOK' /\ AllAsked'
  <2> DEFINE e == PriorityEnd(periods, now)
  <2>1. e \in Nat
    BY PriorityIs DEF SubTypeOK
  <2> HIDE DEF e
  <2>2. subCall' = [subCall EXCEPT ![c].pc = "show", ![c].until = e]
        /\ UNCHANGED <<now, periods, withdrawn, shown, sweeper, bounds, raced>>
    BY <1>7 DEF ReadPriority, e
  <2> DEFINE k == [subCall[c] EXCEPT !.pc = "show", !.until = e]
  <2>3. k \in SubCallState /\ k.pc = "show"
    <3> DEFINE x == subCall[c]
    <3>1. x \in SubCallState
      BY DEF SubTypeOK
    <3> HIDE DEF x
    <3>2. [x EXCEPT !.pc = "show", !.until = e] \in SubCallState
      BY <2>1, <3>1 DEF SubCallState
    <3>3. [x EXCEPT !.pc = "show", !.until = e].pc = "show"
      BY <3>1 DEF SubCallState
    <3> QED BY <3>2, <3>3 DEF x
  <2>4. subCall' = [subCall EXCEPT ![c] = k]
    BY <2>2
  <2> HIDE DEF k
  <2> QED BY <2>2, <2>3, <2>4 DEF SubTypeOK, AllAsked, Asked, shown, bounds
<1>8. ASSUME NEW c \in SubCall, WritePriority(c) PROVE SubTypeOK' /\ AllAsked'
  <2>1. subCall[c].until \in Nat
    BY DEF SubTypeOK, SubCallState
  <2> QED BY <1>8, <2>1, FreeIs DEF WritePriority, Free, SubTypeOK, AllAsked, Asked, bounds
<1>9. ASSUME NEW c \in SubCall, Dies(c) PROVE SubTypeOK' /\ AllAsked'
  BY <1>9, FreeIs DEF Dies, Free, SubTypeOK, AllAsked, Asked
<1>10. ASSUME SweepReads PROVE SubTypeOK' /\ AllAsked'
  <2> DEFINE todo == {i \in DOMAIN periods : Lapsed(periods[i])}
  <2>1. todo \subseteq DOMAIN periods
    OBVIOUS
  <2> HIDE DEF todo
  <2>2. sweeper' = [sweeper EXCEPT !.todo = todo]
        /\ UNCHANGED <<now, periods, withdrawn, shown, subCall, bounds, raced>>
    BY <1>10 DEF SweepReads, todo
  <2> QED BY <2>1, <2>2 DEF SubTypeOK, AllAsked, Asked, shown, bounds
<1>11. ASSUME NEW i \in sweeper.todo, SweepSkips(i) PROVE SubTypeOK' /\ AllAsked'
  BY <1>11 DEF SweepSkips, SubTypeOK, AllAsked, Asked, shown, bounds
<1>12. ASSUME NEW i \in sweeper.todo, SweepExpire(i) PROVE SubTypeOK' /\ AllAsked'
  <2>1. periods \in Seq(Period) /\ i \in DOMAIN periods
    BY DEF SubTypeOK
  <2>2. periods' \in Seq(Period) /\ Len(periods') = Len(periods) /\ DOMAIN periods' = DOMAIN periods
    <3> DEFINE q == periods'
    <3>1. q = Expired(periods, i)
      BY <1>12 DEF SweepExpire
    <3> HIDE DEF q
    <3>2. q \in Seq(Period) /\ Len(q) = Len(periods) /\ DOMAIN q = DOMAIN periods
      BY <2>1, <3>1, ExpiredIs
    <3> QED BY <3>2 DEF q
  <2> QED BY <1>12, <2>2 DEF SweepExpire, SubTypeOK, AllAsked, Asked, bounds
<1>13. ASSUME SweepReadsPriority PROVE SubTypeOK' /\ AllAsked'
  <2> DEFINE e == PriorityEnd(periods, now)
  <2>1. e \in Nat
    BY PriorityIs DEF SubTypeOK
  <2> HIDE DEF e
  <2>2. sweeper' = [sweeper EXCEPT !.pc = "show", !.until = e]
        /\ UNCHANGED <<now, periods, withdrawn, shown, subCall, bounds, raced>>
    BY <1>13 DEF SweepReadsPriority, e
  <2> QED BY <2>1, <2>2 DEF SubTypeOK, AllAsked, Asked, shown, bounds
<1>14. ASSUME SweepWritesPriority PROVE SubTypeOK' /\ AllAsked'
  BY <1>14 DEF SweepWritesPriority, SubTypeOK, AllAsked, Asked, bounds
<1>15. ASSUME SweepDies PROVE SubTypeOK' /\ AllAsked'
  BY <1>15 DEF SweepDies, SubTypeOK, AllAsked, Asked
<1>16. ASSUME TimePasses PROVE SubTypeOK' /\ AllAsked'
  BY <1>16 DEF TimePasses, SubTypeOK, AllAsked, Asked, shown, bounds
<1>17. CASE UNCHANGED subVars
  BY <1>17 DEF subVars, SubTypeOK, AllAsked, Asked, shown, bounds
<1> QED
  BY <1>1, <1>2, <1>3, <1>4, <1>5, <1>6, <1>7, <1>8, <1>9, <1>10, <1>11, <1>12, <1>13, <1>14, <1>15, <1>16, <1>17 DEF SubNext

\* At first there are no rows, and nobody has asked for anything.
LEMMA TypesStart ==
  ASSUME SubInit
  PROVE  SubTypeOK /\ AllAsked
<1>1. periods \in Seq(Period)
  BY DEF SubInit
<1>2. subCall \in [SubCall -> SubCallState] /\ \A c \in SubCall : subCall[c].pc = "idle"
  BY FreeIs DEF SubInit, Free
<1>3. sweeper \in [pc : {"idle", "sync", "show"}, todo : SUBSET DOMAIN periods, until : Nat]
  BY DEF SubInit
<1> QED
  BY <1>1, <1>2, <1>3 DEF SubInit, SubTypeOK, AllAsked

\* Rows, calls and the sweep hold values of their types, whatever calls overlap.
THEOREM SubscriptionTypes == SubSpec => []SubTypeOK
<1>1. SubInit => SubTypeOK /\ AllAsked
  BY TypesStart
<1>2. SubTypeOK /\ AllAsked /\ [SubNext]_subVars => (SubTypeOK /\ AllAsked)'
  BY TypesStep
<1> QED
  BY <1>1, <1>2, PTL DEF SubSpec

----------------------------------------------------------------------------
(* The run of periods. *)

\* Nothing happened to the rows s since they were read but the sweep, to what had ended.
Since(s) ==
  /\ Len(s) = Len(periods)
  /\ \A i \in DOMAIN s :
       \/ periods[i] = s[i]
       \/ /\ s[i].ends <= now /\ IsRunning(s[i])
          /\ periods[i].status = "EXPIRED" /\ periods[i].notified
          /\ periods[i].starts = s[i].starts /\ periods[i].ends = s[i].ends

\* What a call that has decided knows is still true.
SeenTells(k) ==
  /\ Since(k.seen) /\ k.at <= now /\ Sane(k.seen, k.at)
  /\ k.op = "trial" => k.seen = <<>>

\* While no decision is overtaken, the rows are one run of periods, and every call
\* that is to write knows them.
InOrder ==
  ~raced => /\ Sane(periods, now)
            /\ \A c \in SubCall : subCall[c].pc = "write" => SeenTells(subCall[c])

\* A step that touches neither the rows nor a decision.
LEMMA OrderFrame ==
  ASSUME InOrder, UNCHANGED <<now, periods, raced>>,
         \A d \in SubCall : subCall'[d].pc = "write" => subCall'[d] = subCall[d]
  PROVE  InOrder'
  BY DEF InOrder, SeenTells, Since

\* A call that reads the rows knows them.
LEMMA AskOrder ==
  ASSUME SubTypeOK, InOrder, NEW c \in SubCall, NEW op, NEW plan, NEW billing, NEW id,
         Ask(c, op, plan, billing, id), op = "trial" => periods = <<>>
  PROVE  InOrder'
<1>1. /\ subCall'[c].op = op /\ subCall'[c].at = now /\ subCall'[c].seen = periods
      /\ \A d \in SubCall \ {c} : subCall'[d] = subCall[d]
      /\ now' = now /\ periods' = periods /\ raced' = raced
  BY DEF Ask, Free, SubTypeOK
<1>2. ASSUME ~raced PROVE SeenTells(subCall[c])'
  <2>1. Sane(periods, now) /\ now <= now
    BY <1>2 DEF InOrder, SubTypeOK
  <2>2. Since(subCall[c].seen)'
    BY <1>1 DEF Since
  <2>3. Sane(subCall'[c].seen, subCall'[c].at)
    BY <1>1, <2>1
  <2>4. subCall'[c].at <= now' /\ (subCall'[c].op = "trial" => subCall'[c].seen = <<>>)
    BY <1>1, <2>1
  <2> QED BY <2>2, <2>3, <2>4 DEF SeenTells
<1>3. ASSUME ~raced' PROVE Sane(periods, now)' /\ \A d \in SubCall : subCall'[d].pc = "write" => SeenTells(subCall[d])'
  <2>1. ~raced
    BY <1>1, <1>3
  <2>2. ASSUME NEW d \in SubCall, subCall'[d].pc = "write" PROVE SeenTells(subCall[d])'
    <3>1. CASE d = c
      BY <1>2, <2>1, <3>1
    <3>2. CASE d # c
      BY <1>1, <2>1, <2>2, <3>2 DEF InOrder, SeenTells, Since
    <3> QED BY <3>1, <3>2
  <2> QED BY <1>1, <2>1, <2>2 DEF InOrder
<1> QED
  BY <1>3 DEF InOrder

\* What a call makes of rows that the sweep has expired since stays one run of periods,
\* when it moves none of those into the future.
LEMMA AppliedSane ==
  ASSUME periods \in Seq(Period), now \in Int, NEW s \in Seq(Period), Since(s), Sound(s),
         NEW s1, Continues(s, s1), Sane(s1, now), NEW q, q = Apply(s, s1),
         \A i \in DOMAIN s : periods[i].status # s[i].status => ~(q[i].ends > now)
  PROVE  Sane(q, now)
<1>1. /\ q \in Seq(Period) /\ DOMAIN q = DOMAIN s1 /\ DOMAIN s \subseteq DOMAIN periods
      /\ \A i \in DOMAIN s : q[i] = Merged(periods[i], s[i], s1[i])
      /\ \A i \in DOMAIN q \ DOMAIN s : q[i] = s1[i]
  <2>1. Len(s) = Len(periods) /\ Len(s) <= Len(periods)
    BY DEF Since
  <2> QED BY <2>1, AppliedIs
<1>2. s1 \in Seq(Period) /\ DOMAIN s \subseteq DOMAIN s1
  <2>1. s1 \in Seq(Period) /\ (Len(s1) = Len(s) \/ Len(s1) = Len(s) + 1)
    BY DEF Continues
  <2> DEFINE n == Len(s)
             n1 == Len(s1)
  <2>2. DOMAIN s1 = 1 .. n1 /\ DOMAIN s = 1 .. n /\ n \in Nat /\ (n1 = n \/ n1 = n + 1)
    BY <2>1
  <2> HIDE DEF n, n1
  <2>3. DOMAIN s \subseteq DOMAIN s1
    BY <2>2
  <2> QED BY <2>1, <2>3
<1>3. ASSUME NEW i \in DOMAIN q, q[i] # s1[i]
      PROVE  ~IsRunning(q[i]) /\ q[i].notified /\ i \notin LiveIn(s1, now)
  <2> DEFINE row == periods[i]
             old == s[i]
             new == s1[i]
  <2>1. i \in DOMAIN s
    BY <1>1, <1>3
  <2>2. row \in Period /\ old \in Period /\ new \in Period
    BY <1>1, <1>2, <2>1, RowsAre
  <2>3. q[i] = Merged(row, old, new)
    BY <1>1, <2>1
  <2>4. /\ row = old \/ /\ old.ends <= now /\ IsRunning(old) /\ row.status = "EXPIRED" /\ row.notified
                        /\ row.ends = old.ends
        /\ new.status # old.status => ~IsRunning(new)
        /\ row.status # old.status => ~(q[i].ends > now)
        /\ IsRunning(old) <=> ~old.notified
        /\ i \in LiveIn(s1, now) => IsRunning(new) /\ new.ends > now
    BY <2>1 DEF Since, Continues, Sound, LiveIn
  <2>5. q[i] # new
    BY <1>3
  <2> HIDE DEF row, old, new
  <2>6. /\ q[i].status = IF new.status # old.status THEN new.status ELSE row.status
        /\ q[i].notified = IF new.notified # old.notified THEN new.notified ELSE row.notified
        /\ q[i].ends = IF new.ends # old.ends THEN new.ends ELSE row.ends
        /\ row = old => q[i] = new
    BY <2>2, <2>3, MergedIs
  <2>7. /\ old.ends <= now /\ IsRunning(old) /\ row.status = "EXPIRED" /\ row.notified /\ row.ends = old.ends
    BY <2>4, <2>5, <2>6
  <2>8. old.notified = FALSE /\ new.notified \in BOOLEAN
    BY <2>2, <2>4, <2>7 DEF Period
  <2>9. q[i].notified
    BY <2>6, <2>7, <2>8
  <2>10. ~IsRunning(q[i])
    BY <2>4, <2>6, <2>7 DEF IsRunning
  <2>11. ASSUME i \in LiveIn(s1, now) PROVE FALSE
    <3>1. IsRunning(new) /\ new.ends > now /\ new.status = old.status
      BY <2>4, <2>11
    <3>2. row.status # old.status
      BY <2>7 DEF IsRunning
    <3>3. ~(q[i].ends > now) /\ q[i].ends = new.ends
      BY <2>4, <2>6, <2>7, <3>2
    <3> QED BY <3>1, <3>3
  <2> QED BY <2>9, <2>10, <2>11
<1>4. LiveIn(q, now) = LiveIn(s1, now) /\ \A i \in LiveIn(q, now) : q[i] = s1[i]
  <2>1. ASSUME NEW i \in LiveIn(q, now) PROVE i \in LiveIn(s1, now) /\ q[i] = s1[i]
    BY <1>1, <1>3, <2>1 DEF LiveIn
  <2>2. ASSUME NEW i \in LiveIn(s1, now) PROVE i \in LiveIn(q, now)
    <3>1. i \in DOMAIN q
      BY <1>1, <2>2 DEF LiveIn
    <3>2. q[i] = s1[i]
      BY <1>3, <2>2, <3>1
    <3> QED BY <2>2, <3>1, <3>2 DEF LiveIn
  <2> QED BY <2>1, <2>2
<1>5. Sound(q)
  <2>1. ASSUME NEW i \in DOMAIN q
        PROVE  /\ IsRunning(q[i]) => q[i].starts < q[i].ends
               /\ IsRunning(q[i]) <=> ~q[i].notified
    <3>1. CASE q[i] = s1[i]
      BY <1>1, <3>1 DEF Sane, Sound
    <3>2. CASE q[i] # s1[i]
      BY <1>3, <3>2
    <3> QED BY <3>1, <3>2
  <2> QED BY <2>1 DEF Sound
<1>6. Unbroken(q, now) /\ TrialAlone(q, now)
  BY <1>4 DEF Sane, Unbroken, TrialAlone
<1> QED
  BY <1>5, <1>6 DEF Sane

\* What a call writes is one run of periods.
LEMMA WriteOrder ==
  ASSUME SubTypeOK, AllAsked, InOrder, NEW c \in SubCall, Write(c)
  PROVE  InOrder'
<1> DEFINE k == subCall[c]
<1>1. k \in SubCallState /\ periods \in Seq(Period) /\ now \in Nat /\ k.at \in Nat /\ k.seen \in Seq(Period)
  BY DEF SubTypeOK, SubCallState
<1>2. /\ k.pc = "write" /\ now' = now
      /\ raced' = (raced \/ Deciding # {c} \/ Revived(k.seen))
      /\ subCall'[c].pc # "write" /\ \A d \in SubCall \ {c} : subCall'[d] = subCall[d]
  BY DEF Write, SubTypeOK, Free
<1>3. Asked(k)
  BY <1>2 DEF AllAsked
<1>4. ASSUME ~raced' PROVE Sane(periods', now) /\ \A d \in SubCall : subCall'[d].pc # "write"
  <2>1. ~raced /\ Deciding = {c} /\ ~Revived(k.seen)
    BY <1>2, <1>4
  <2>2. Sane(periods, now) /\ SeenTells(k)
    BY <1>2, <2>1 DEF InOrder
  <2>3. \A d \in SubCall : subCall'[d].pc # "write"
    BY <1>2, <2>1 DEF Deciding
  <2> DEFINE q == periods'
             t == k.at
             s == k.seen
             id == k.id
             p == Row(TrialPlan, "TRIAL", t, t + Length["TRIAL"])
  <2>4. /\ q \in Seq(Period)
        /\ \/ q = periods
           \/ k.op = "trial" /\ q = Append(periods, p)
           \/ k.op = "cancel" /\ q = Cancelled(periods, t, id, s[id].starts)
           \/ \E s1 : Continues(s, s1) /\ (Sane(s, t) => Sane(s1, t)) /\ q = Apply(s, s1)
    BY WriteIs
  <2>5. /\ t \in Int /\ t <= now /\ Since(s) /\ Sane(s, t) /\ s \in Seq(Period)
        /\ k.op = "trial" => s = <<>>
    BY <1>1, <2>2 DEF SeenTells
  <2>6. k.op = "cancel" => id \in DOMAIN s
    BY <1>3 DEF Asked
  <2>7. \A i \in DOMAIN s : periods[i].status # s[i].status => ~(q[i].ends > now)
    BY <2>1 DEF Revived
  <2>8. now \in Int /\ periods \in Seq(Period)
    BY <1>1
  <2> HIDE DEF q, t, s, id
  <2>9. ASSUME q = periods PROVE Sane(q, now)
    BY <2>2, <2>9
  <2>10. ASSUME k.op = "trial", q = Append(periods, p) PROVE Sane(q, now)
    <3>1. s = <<>> /\ Len(periods) = 0
      BY <2>5, <2>10 DEF Since
    <3>2. periods = <<>>
      BY <2>8, <3>1
    <3>3. q = Append(<<>>, p)
      BY <2>10, <3>2
    <3>4. Sane(q, t)
      BY <2>5, <3>3, TrialIs
    <3> QED BY <2>4, <2>5, <2>8, <3>4, StaysSane
  <2>11. ASSUME k.op = "cancel", q = Cancelled(periods, t, id, s[id].starts) PROVE Sane(q, now)
    <3> DEFINE starts == s[id].starts
    <3>1. id \in DOMAIN s
      BY <2>6, <2>11
    <3>2. id \in DOMAIN periods
      <4>1. Len(s) = Len(periods)
        BY <2>5 DEF Since
      <4>2. DOMAIN s = 1 .. Len(s) /\ DOMAIN periods = 1 .. Len(periods)
        BY <2>5, <2>8
      <4> QED BY <3>1, <4>1, <4>2
    <3>3. starts = periods[id].starts /\ starts \in Int
      <4>1. starts = periods[id].starts
        BY <2>5, <3>1 DEF Since
      <4>2. periods[id].starts \in Int
        BY <2>8, <3>2, RowsAre
      <4> QED BY <4>1, <4>2
    <3>4. q = Cancelled(periods, t, id, starts)
      BY <2>11
    <3> HIDE DEF starts
    <3> QED BY <2>2, <2>5, <2>8, <3>2, <3>3, <3>4, CancelledIs
  <2>12. ASSUME NEW s1, Continues(s, s1), Sane(s, t) => Sane(s1, t), q = Apply(s, s1)
         PROVE  Sane(q, now)
    <3>1. s1 \in Seq(Period)
      BY <2>12 DEF Continues
    <3>2. Sane(s1, now)
      BY <2>5, <2>8, <2>12, <3>1, StaysSane
    <3>3. Sound(s)
      BY <2>5 DEF Sane
    <3> QED BY <2>5, <2>7, <2>8, <2>12, <3>1, <3>2, <3>3, AppliedSane
  <2>13. Sane(q, now)
    BY <2>4, <2>9, <2>10, <2>11, <2>12
  <2>14. Sane(periods', now)
    BY <2>13 DEF q
  <2> QED BY <2>3, <2>14
<1> QED
  BY <1>2, <1>4 DEF InOrder

\* The sweep takes a row that has ended: nothing that lasts changes.
LEMMA ExpireOrder ==
  ASSUME SubTypeOK, InOrder, NEW i \in sweeper.todo, SweepExpire(i)
  PROVE  InOrder'
<1> DEFINE q == periods'
<1>1. /\ periods \in Seq(Period) /\ i \in DOMAIN periods /\ now \in Nat /\ ~periods[i].notified
      /\ now' = now /\ subCall' = subCall /\ raced' = (raced \/ periods[i].ends > now)
      /\ \A j \in DOMAIN periods : periods[j] \in Period
  BY RowsAre DEF SweepExpire, SubTypeOK
<1>2. q = Expired(periods, i)
  BY DEF SweepExpire
<1> HIDE DEF q
<1>3. /\ DOMAIN q = DOMAIN periods /\ Len(q) = Len(periods)
      /\ q[i].status = "EXPIRED" /\ q[i].notified
      /\ q[i].starts = periods[i].starts /\ q[i].ends = periods[i].ends
      /\ \A j \in DOMAIN periods \ {i} : q[j] = periods[j]
  BY <1>1, <1>2, ExpiredIs
<1>4. ASSUME ~raced' PROVE Sane(q, now)
  <2>1. ~raced /\ periods[i].ends <= now /\ Sane(periods, now)
    <3>1. ~raced /\ ~(periods[i].ends > now)
      BY <1>1, <1>4
    <3> QED BY <1>1, <3>1 DEF InOrder, Period
  <2>2. ~IsRunning(q[i]) /\ ~(periods[i].ends > now)
    BY <1>1, <1>3, <2>1 DEF IsRunning, Period
  <2>3. \A j \in DOMAIN periods : j \in LiveIn(periods, now) => j # i
    BY <2>2 DEF LiveIn
  <2>4. LiveIn(q, now) = LiveIn(periods, now) /\ \A j \in LiveIn(q, now) : q[j] = periods[j]
    BY <1>3, <2>2, <2>3 DEF LiveIn
  <2>5. Sound(q)
    BY <1>3, <2>1, <2>2 DEF Sane, Sound
  <2>6. Unbroken(q, now) /\ TrialAlone(q, now)
    BY <2>1, <2>4 DEF Sane, Unbroken, TrialAlone
  <2> QED BY <2>5, <2>6 DEF Sane
<1>5. ASSUME ~raced', NEW d \in SubCall, subCall[d].pc = "write" PROVE SeenTells(subCall[d])'
  <2> DEFINE k == subCall[d]
             s == k.seen
  <2>1. ~raced /\ SeenTells(k) /\ Sound(periods)
    BY <1>1, <1>5 DEF InOrder, Sane
  <2>2. periods[i].ends <= now /\ IsRunning(periods[i])
    <3>1. ~(periods[i].ends > now) /\ periods[i].ends \in Int
      BY <1>1, <1>5 DEF Period
    <3>2. IsRunning(periods[i])
      BY <1>1, <2>1 DEF Sound
    <3> QED BY <1>1, <3>1, <3>2
  <2>3. Len(s) = Len(periods) /\ DOMAIN s = DOMAIN periods
    <3>1. s \in Seq(Period) /\ Len(s) = Len(periods)
      BY <2>1 DEF SeenTells, Since, SubTypeOK, SubCallState
    <3> HIDE DEF s
    <3> QED BY <1>1, <3>1
  <2>4. ASSUME NEW j \in DOMAIN s
        PROVE  \/ q[j] = s[j]
               \/ /\ s[j].ends <= now /\ IsRunning(s[j])
                  /\ q[j].status = "EXPIRED" /\ q[j].notified
                  /\ q[j].starts = s[j].starts /\ q[j].ends = s[j].ends
    BY <1>1, <1>3, <2>1, <2>2, <2>3, <2>4 DEF SeenTells, Since
  <2>5. Since(s)'
    BY <1>1, <1>3, <2>3, <2>4 DEF Since, q
  <2> QED BY <1>1, <2>1, <2>5 DEF SeenTells
<1> QED
  BY <1>1, <1>4, <1>5 DEF InOrder, q

\* As time passes fewer rows last, and what calls know stays true.
LEMMA TimeOrder ==
  ASSUME SubTypeOK, InOrder, TimePasses
  PROVE  InOrder'
<1>1. /\ now \in Nat /\ now' = now + 1 /\ periods' = periods /\ subCall' = subCall /\ raced' = raced
      /\ periods \in Seq(Period)
  BY DEF TimePasses, SubTypeOK
<1>2. ASSUME ~raced PROVE Sane(periods, now + 1)
  <2>1. Sane(periods, now) /\ now \in Int /\ now + 1 \in Int /\ now <= now + 1
    BY <1>1, <1>2 DEF InOrder
  <2> QED BY <1>1, <2>1, StaysSane
<1>3. ASSUME ~raced, NEW d \in SubCall, subCall[d].pc = "write" PROVE SeenTells(subCall[d])'
  <2> DEFINE s == subCall[d].seen
  <2>1. /\ SeenTells(subCall[d]) /\ s \in Seq(Period) /\ subCall[d].at \in Nat
    BY <1>3 DEF InOrder, SubTypeOK, SubCallState
  <2>2. \A i \in DOMAIN s : s[i].ends \in Int
    BY <2>1, RowsAre
  <2>3. \A i \in DOMAIN s : s[i].ends <= now => s[i].ends <= now + 1
    BY <1>1, <2>2
  <2>4. subCall[d].at <= now + 1
    BY <1>1, <2>1 DEF SeenTells
  <2>5. Since(s)'
    BY <1>1, <2>1, <2>3 DEF SeenTells, Since
  <2> QED BY <1>1, <2>1, <2>4, <2>5 DEF SeenTells
<1> QED
  BY <1>1, <1>2, <1>3 DEF InOrder

\* Every step keeps the rows one run of periods.
LEMMA OrderStep ==
  ASSUME SubTypeOK, AllAsked, InOrder, [SubNext]_subVars
  PROVE  InOrder'
<1>1. ASSUME NEW c \in SubCall, AskTrial(c) PROVE InOrder'
  BY <1>1, AskOrder DEF AskTrial
<1>2. ASSUME NEW c \in SubCall, NEW plan \in Plan, NEW billing \in BillingPeriod, NEW op \in {"create", "replace"}, AskPeriod(c, plan, billing, op)
       PROVE  InOrder'
  BY <1>2, AskOrder DEF AskPeriod
<1>3. ASSUME NEW c \in SubCall, NEW id \in DOMAIN periods, AskNext(c, id) PROVE InOrder'
  BY <1>3, AskOrder DEF AskNext
<1>4. ASSUME NEW c \in SubCall, NEW id \in DOMAIN periods, AskCancel(c, id) PROVE InOrder'
  BY <1>4, AskOrder DEF AskCancel
<1>5. ASSUME NEW c \in SubCall, NEW plan \in Plan, AskDelete(c, plan) PROVE InOrder'
  <2> DEFINE on == {i \in DOMAIN periods : IsRunning(periods[i]) /\ periods[i].plan = plan}
             first == CHOOSE i \in on : \A j \in on : periods[i].starts <= periods[j].starts
  <2>1. IF on = {} THEN UNCHANGED <<now, periods, shown, subCall, sweeper, bounds, raced>>
        ELSE Ask(c, "cancel", TrialPlan, "TRIAL", first)
    BY <1>5 DEF AskDelete
  <2> HIDE DEF on, first
  <2> QED BY <2>1, AskOrder, OrderFrame
<1>6. ASSUME NEW c \in SubCall, Write(c) PROVE InOrder'
  BY <1>6, WriteOrder
<1>7. ASSUME NEW c \in SubCall, ReadPriority(c) PROVE InOrder'
  BY <1>7, OrderFrame DEF ReadPriority, SubTypeOK, SubCallState
<1>8. ASSUME NEW c \in SubCall, WritePriority(c) PROVE InOrder'
  BY <1>8, OrderFrame DEF WritePriority, Free, SubTypeOK
<1>9. ASSUME NEW c \in SubCall, Dies(c) PROVE InOrder'
  BY <1>9, OrderFrame DEF Dies, Free, SubTypeOK
<1>10. ASSUME SweepReads PROVE InOrder'
  BY <1>10, OrderFrame DEF SweepReads
<1>11. ASSUME NEW i \in sweeper.todo, SweepSkips(i) PROVE InOrder'
  BY <1>11, OrderFrame DEF SweepSkips
<1>12. ASSUME NEW i \in sweeper.todo, SweepExpire(i) PROVE InOrder'
  BY <1>12, ExpireOrder
<1>13. ASSUME SweepReadsPriority PROVE InOrder'
  BY <1>13, OrderFrame DEF SweepReadsPriority
<1>14. ASSUME SweepWritesPriority PROVE InOrder'
  BY <1>14, OrderFrame DEF SweepWritesPriority
<1>15. ASSUME SweepDies PROVE InOrder'
  BY <1>15, OrderFrame DEF SweepDies
<1>16. ASSUME TimePasses PROVE InOrder'
  BY <1>16, TimeOrder
<1>17. CASE UNCHANGED subVars
  BY <1>17, OrderFrame DEF subVars

<1> QED
  BY <1>1, <1>2, <1>3, <1>4, <1>5, <1>6, <1>7, <1>8, <1>9, <1>10, <1>11, <1>12, <1>13, <1>14, <1>15, <1>16, <1>17 DEF SubNext

\* No rows are one run of periods.
LEMMA OrderStart ==
  ASSUME SubInit
  PROVE  InOrder
<1>1. periods = <<>> /\ \A c \in SubCall : subCall[c].pc = "idle"
  BY DEF SubInit, Free
<1>2. Sane(<<>>, now)
  BY DEF Sane, Unbroken, Sound, TrialAlone, LiveIn
<1> QED
  BY <1>1, <1>2 DEF InOrder

\* However periods are bought, granted, upgraded, started early, cancelled and expired,
\* what is left is one run of periods, as long as no decision is overtaken.
THEOREM PeriodsAreOneRun == SubSpec => []ChainUnbroken
<1>1. SubInit => SubTypeOK /\ AllAsked /\ InOrder
  BY TypesStart, OrderStart
<1>2. SubTypeOK /\ AllAsked /\ InOrder /\ [SubNext]_subVars => (SubTypeOK /\ AllAsked /\ InOrder)'
  BY TypesStep, OrderStep
<1>3. SubTypeOK /\ AllAsked /\ InOrder => ChainUnbroken
  BY DEF InOrder, ChainUnbroken, Sane, Unbroken, Live, LiveIn
<1> QED
  BY <1>1, <1>2, <1>3, PTL DEF SubSpec

----------------------------------------------------------------------------
(* The end of the priority. *)

\* Offers shown first until u are shown as long as the periods with priority go on.
Told(u) == (IF u > now THEN u ELSE 0) = PriorityEnd(periods, now)

\* Unless a sync was cut short or overtaken, what a sync has read is still the end of
\* the priority, and once no sync is left it is what the offers have.
Shown ==
  ~raced /\ ~missed /\ (\A i \in DOMAIN periods : ~Lapsed(periods[i])) =>
    /\ Quiet => Told(until)
    /\ \A c \in SubCall : subCall[c].pc = "show" => Told(subCall[c].until)
    /\ sweeper.pc = "show" => Told(sweeper.until)

\* What priorityEnd finds now, the offers can be told.
LEMMA FoundIsTold ==
  ASSUME SubTypeOK
  PROVE  Told(PriorityEnd(periods, now))
<1> DEFINE e == PriorityEnd(periods, now)
<1>1. periods \in Seq(Period) /\ now \in Nat
  BY DEF SubTypeOK
<1>2. e \in Nat /\ (e = 0 \/ \E j \in LiveIn(periods, now) : e = periods[j].ends)
  BY <1>1, PriorityIs
<1> HIDE DEF e
<1>3. e = 0 \/ e > now
  BY <1>2 DEF LiveIn
<1>4. (IF e > now THEN e ELSE 0) = e
  BY <1>1, <1>2, <1>3
<1> QED
  BY <1>4 DEF Told, e

\* The priority lasts as long one time unit later, when no period ends meanwhile: the
\* next one would start where that one ends.
LEMMA PriorityLasts ==
  ASSUME NEW s \in Seq(Period), NEW t \in Nat, Sane(s, t), LiveIn(s, t + 1) = LiveIn(s, t)
  PROVE  PriorityEnd(s, t + 1) = PriorityEnd(s, t)
<1> DEFINE live == LiveIn(s, t)
           before(j) ==
             {i \in live : s[i].starts < s[j].starts \/ (s[i].starts = s[j].starts /\ i < j)}
           follows(j, u) ==
             /\ s[j].plan \in Priority
             /\ s[j].starts <= u \/ \E i \in before(j) : s[j].starts <= s[i].ends
           reached(u) == {j \in live : \A i \in before(j) \cup {j} : follows(i, u)}
<1>1. \A j \in live : s[j].starts \in Int /\ s[j].ends \in Int /\ s[j].ends > t + 1
  <2>1. \A j \in live : j \in LiveIn(s, t + 1)
    OBVIOUS
  <2> QED BY <2>1, RowsAre DEF LiveIn
<1>2. ASSUME NEW j \in live PROVE s[j].starts # t + 1
  <2>1. s[j].starts <= t \/ \E i \in live : s[i].ends = s[j].starts
    BY DEF Sane, Unbroken
  <2> QED BY <1>1, <2>1
<1>3. \A j \in live : s[j].starts <= t + 1 <=> s[j].starts <= t
  BY <1>1, <1>2
<1>4. PriorityEnd(s, t) = IF reached(t) = {} THEN 0 ELSE Max({s[j].ends : j \in reached(t)})
  BY DEF PriorityEnd, LiveIn
<1>5. PriorityEnd(s, t + 1) = IF reached(t + 1) = {} THEN 0 ELSE Max({s[j].ends : j \in reached(t + 1)})
  <2> DEFINE later == {i \in DOMAIN s : IsRunning(s[i]) /\ s[i].ends > t + 1}
             earlier(j) ==
               {i \in later : s[i].starts < s[j].starts \/ (s[i].starts = s[j].starts /\ i < j)}
             next(j) ==
               /\ s[j].plan \in Priority
               /\ s[j].starts <= t + 1 \/ \E i \in earlier(j) : s[j].starts <= s[i].ends
             R == {j \in later : \A i \in earlier(j) \cup {j} : next(i)}
  <2>1. PriorityEnd(s, t + 1) = IF R = {} THEN 0 ELSE Max({s[j].ends : j \in R})
    BY DEF PriorityEnd
  <2>2. later = live
    BY DEF LiveIn
  <2> HIDE DEF later, live
  <2>3. R = reached(t + 1)
    BY <2>2
  <2> QED BY <2>1, <2>3
<1>6. reached(t + 1) = reached(t)
  <2>1. \A j \in live : before(j) \subseteq live
    OBVIOUS
  <2> HIDE DEF live
  <2>2. \A j \in live : follows(j, t + 1) <=> follows(j, t)
    BY <1>3
  <2> HIDE DEF before, follows
  <2> QED BY <2>1, <2>2
<1> DEFINE old == reached(t)
           new == reached(t + 1)
           last(R) == Max({s[j].ends : j \in R})
<1>7. /\ PriorityEnd(s, t) = IF old = {} THEN 0 ELSE last(old)
      /\ PriorityEnd(s, t + 1) = IF new = {} THEN 0 ELSE last(new)
      /\ new = old
  BY <1>4, <1>5, <1>6
<1> HIDE DEF old, new, last
<1> QED
  BY <1>7

\* A step that leaves the rows, and ends no sync but by writing what it read.
LEMMA ShownKept ==
  ASSUME SubTypeOK, Shown, UNCHANGED <<now, periods, raced>>, missed => missed',
         ~missed' /\ Quiet' =>
           \/ Quiet /\ until' = until
           \/ \E c \in SubCall : subCall[c].pc = "show" /\ until' = subCall[c].until
           \/ sweeper.pc = "show" /\ until' = sweeper.until,
         \A c \in SubCall : subCall'[c].pc = "show" =>
           \/ subCall[c].pc = "show" /\ subCall'[c].until = subCall[c].until
           \/ subCall'[c].until = PriorityEnd(periods, now),
         sweeper'.pc = "show" =>
           \/ sweeper.pc = "show" /\ sweeper'.until = sweeper.until
           \/ sweeper'.until = PriorityEnd(periods, now)
  PROVE  Shown'
<1>1. Told(PriorityEnd(periods, now))
  BY FoundIsTold
<1>2. ASSUME ~raced', ~missed', \A i \in DOMAIN periods' : ~Lapsed(periods[i])'
      PROVE  /\ (Quiet => Told(until))'
             /\ \A c \in SubCall : subCall'[c].pc = "show" => Told(subCall[c].until)'
             /\ (sweeper.pc = "show" => Told(sweeper.until))'
  <2>1. ~raced /\ ~missed /\ \A i \in DOMAIN periods : ~Lapsed(periods[i])
    BY <1>2 DEF Lapsed
  <2>2. /\ Quiet => Told(until)
        /\ \A c \in SubCall : subCall[c].pc = "show" => Told(subCall[c].until)
        /\ sweeper.pc = "show" => Told(sweeper.until)
    BY <2>1 DEF Shown
  <2>3. (Quiet => Told(until))'
    BY <1>2, <2>2 DEF Told
  <2>4. ASSUME NEW c \in SubCall, subCall'[c].pc = "show" PROVE Told(subCall[c].until)'
    BY <1>1, <2>2, <2>4 DEF Told
  <2>5. (sweeper.pc = "show" => Told(sweeper.until))'
    BY <1>1, <2>2 DEF Told
  <2> QED BY <2>3, <2>4, <2>5
<1> QED
  BY <1>2 DEF Shown

\* A call that was idle now decides.
Asking(c) ==
  /\ subCall[c].pc = "idle" /\ subCall'[c].pc = "write"
  /\ \A d \in SubCall \ {c} : subCall'[d] = subCall[d]
  /\ UNCHANGED <<now, periods, until, missed, sweeper, raced>>

\* A call that begins to decide shows nothing yet.
LEMMA AskShown ==
  ASSUME SubTypeOK, Shown, NEW c \in SubCall, Asking(c)
  PROVE  Shown'
<1>1. Quiet' => Quiet
  BY DEF Asking, Quiet
<1>2. \A d \in SubCall : subCall'[d].pc = "show" => subCall'[d] = subCall[d]
  BY DEF Asking
<1> QED
  BY <1>1, <1>2, ShownKept DEF Asking

\* A call that writes is followed by its sync; a sync it overtakes is told as missed.
LEMMA WriteShown ==
  ASSUME SubTypeOK, Shown, NEW c \in SubCall, Write(c)
  PROVE  Shown'
<1> DEFINE k == subCall[c]
           twice == k.op = "trial" /\ \E i \in DOMAIN periods : periods[i].billing = "TRIAL"
<1>1. /\ k.pc = "write" /\ missed' = (missed \/ Showing(c))
      /\ subCall' = [subCall EXCEPT ![c] = IF twice THEN Free ELSE [Free EXCEPT !.pc = "sync"]]
      /\ UNCHANGED <<now, until, sweeper>>
      /\ raced' = (raced \/ Deciding # {c} \/ Revived(k.seen))
  BY DEF Write
<1>2. CASE twice
  <2>1. periods' = periods
    BY <1>2 DEF Write
  <2>2. subCall'[c].pc = "idle" /\ \A d \in SubCall \ {c} : subCall'[d] = subCall[d]
    <3> HIDE DEF twice
    <3> QED BY <1>1, <1>2 DEF SubTypeOK, Free
  <2> HIDE DEF twice
  <2>3. Quiet' => Quiet
    BY <1>1, <2>2 DEF Quiet
  <2>4. \A d \in SubCall : subCall'[d].pc = "show" => subCall'[d] = subCall[d]
    BY <2>2
  <2>5. CASE raced'
    BY <2>5 DEF Shown
  <2>6. CASE ~raced'
    <3>1. ~raced
      BY <1>1, <2>6
    <3>2. raced' = raced
      BY <2>6, <3>1, <1>1 DEF SubTypeOK
    <3> QED BY <1>1, <2>1, <2>3, <2>4, <3>2, ShownKept
  <2> QED BY <2>5, <2>6
<1>3. CASE ~twice
  <2> HIDE DEF twice
  <2>1. subCall'[c].pc = "sync" /\ \A d \in SubCall \ {c} : subCall'[d] = subCall[d]
    BY <1>1, <1>3 DEF SubTypeOK, Free
  <2>2. ~Quiet'
    BY <2>1 DEF Quiet
  <2>3. ~missed' => /\ sweeper'.pc # "show"
                    /\ \A d \in SubCall : subCall'[d].pc # "show"
    BY <1>1, <2>1 DEF Showing
  <2> QED BY <2>2, <2>3 DEF Shown
<1> QED
  BY <1>2, <1>3

\* As time passes, the sweep hears of the periods that end.
LEMMA TimeShown ==
  ASSUME SubTypeOK, InOrder, Shown, TimePasses
  PROVE  Shown'
<1>1. /\ now \in Nat /\ now' = now + 1 /\ periods \in Seq(Period)
      /\ UNCHANGED <<periods, until, missed, subCall, sweeper, raced>>
  BY DEF TimePasses, SubTypeOK, shown
<1>2. ASSUME ~raced', ~missed', \A i \in DOMAIN periods' : ~Lapsed(periods[i])'
      PROVE  /\ (Quiet => Told(until))'
             /\ \A c \in SubCall : subCall'[c].pc = "show" => Told(subCall[c].until)'
             /\ (sweeper.pc = "show" => Told(sweeper.until))'
  <2>1. \A i \in DOMAIN periods : periods[i] \in Period /\ periods[i].ends \in Int
    BY <1>1, RowsAre
  <2>2. Sane(periods, now)
    BY <1>1, <1>2 DEF InOrder
  <2>3. \A i \in DOMAIN periods : IsRunning(periods[i]) => periods[i].ends > now + 1
    <3>1. \A i \in DOMAIN periods : IsRunning(periods[i]) => ~(periods[i].ends <= now + 1)
      BY <1>1, <1>2, <2>2 DEF Lapsed, Sane, Sound
    <3> QED BY <1>1, <2>1, <3>1
  <2>4. LiveIn(periods, now + 1) = LiveIn(periods, now)
    BY <1>1, <2>1, <2>3 DEF LiveIn
  <2>5. PriorityEnd(periods, now + 1) = PriorityEnd(periods, now)
    BY <1>1, <2>2, <2>4, PriorityLasts
  <2>6. \A i \in DOMAIN periods : ~Lapsed(periods[i])
    BY <1>1, <2>1, <2>3 DEF Lapsed
  <2>7. /\ Quiet => Told(until)
        /\ \A c \in SubCall : subCall[c].pc = "show" => Told(subCall[c].until)
        /\ sweeper.pc = "show" => Told(sweeper.until)
    BY <1>1, <1>2, <2>6 DEF Shown
  <2>8. ASSUME NEW u \in Nat, Told(u)
        PROVE  (IF u > now + 1 THEN u ELSE 0) = PriorityEnd(periods, now + 1)
    <3> DEFINE e == PriorityEnd(periods, now)
    <3>1. e \in Nat /\ (e = 0 \/ \E j \in LiveIn(periods, now) : e = periods[j].ends)
      BY <1>1, PriorityIs
    <3>2. (IF u > now THEN u ELSE 0) = e
      BY <2>8 DEF Told
    <3>3. PriorityEnd(periods, now + 1) = e
      BY <2>5
    <3> HIDE DEF e
    <3>4. e = 0 \/ e > now + 1
      BY <2>3, <3>1 DEF LiveIn
    <3> QED BY <1>1, <3>1, <3>2, <3>3, <3>4
  <2>9. until \in Nat /\ sweeper.until \in Nat /\ \A c \in SubCall : subCall[c].until \in Nat
    BY DEF SubTypeOK, SubCallState
  <2>10. Quiet' = Quiet
    BY <1>1 DEF Quiet
  <2>11. (Quiet => Told(until))'
    BY <1>1, <2>7, <2>8, <2>9, <2>10 DEF Told
  <2>12. ASSUME NEW c \in SubCall, subCall'[c].pc = "show" PROVE Told(subCall[c].until)'
    BY <1>1, <2>7, <2>8, <2>9, <2>12 DEF Told
  <2>13. (sweeper.pc = "show" => Told(sweeper.until))'
    BY <1>1, <2>7, <2>8, <2>9 DEF Told
  <2> QED BY <2>11, <2>12, <2>13
<1> QED
  BY <1>2 DEF Shown

\* Every step keeps what the offers are shown in step with the periods.
LEMMA ShownStep ==
  ASSUME SubTypeOK, InOrder, Shown, [SubNext]_subVars
  PROVE  Shown'
<1>1. ASSUME NEW c \in SubCall, AskTrial(c) PROVE Shown'
  <2>1. Asking(c)
    BY <1>1 DEF AskTrial, Ask, Free, Asking, SubTypeOK, shown
  <2> QED BY <2>1, AskShown
<1>2. ASSUME NEW c \in SubCall, NEW plan \in Plan, NEW billing \in BillingPeriod, NEW op \in {"create", "replace"}, AskPeriod(c, plan, billing, op)
       PROVE  Shown'
  <2>1. Asking(c)
    BY <1>2 DEF AskPeriod, Ask, Free, Asking, SubTypeOK, shown
  <2> QED BY <2>1, AskShown
<1>3. ASSUME NEW c \in SubCall, NEW id \in DOMAIN periods, AskNext(c, id) PROVE Shown'
  <2>1. Asking(c)
    BY <1>3 DEF AskNext, Ask, Free, Asking, SubTypeOK, shown
  <2> QED BY <2>1, AskShown
<1>4. ASSUME NEW c \in SubCall, NEW id \in DOMAIN periods, AskCancel(c, id) PROVE Shown'
  <2>1. Asking(c)
    BY <1>4 DEF AskCancel, Ask, Free, Asking, SubTypeOK, shown
  <2> QED BY <2>1, AskShown
<1>5. ASSUME NEW c \in SubCall, NEW plan \in Plan, AskDelete(c, plan) PROVE Shown'
  <2> DEFINE on == {i \in DOMAIN periods : IsRunning(periods[i]) /\ periods[i].plan = plan}
             first == CHOOSE i \in on : \A j \in on : periods[i].starts <= periods[j].starts
  <2>1. IF on = {} THEN UNCHANGED <<now, periods, shown, subCall, sweeper, bounds, raced>>
        ELSE Ask(c, "cancel", TrialPlan, "TRIAL", first)
    BY <1>5 DEF AskDelete
  <2> HIDE DEF on, first
  <2>2. CASE on = {}
    BY <2>1, <2>2, ShownKept DEF shown, Quiet
  <2>3. CASE on # {}
    <3>1. Asking(c)
      BY <2>1, <2>3 DEF Ask, Free, Asking, SubTypeOK, shown
    <3> QED BY <3>1, AskShown
  <2> QED BY <2>2, <2>3
<1>6. ASSUME NEW c \in SubCall, Write(c) PROVE Shown'
  BY <1>6, WriteShown
<1>7. ASSUME NEW c \in SubCall, ReadPriority(c) PROVE Shown'
  <2> DEFINE e == PriorityEnd(periods, now)
  <2>1. /\ subCall'[c].pc = "show" /\ subCall'[c].until = e
        /\ \A d \in SubCall \ {c} : subCall'[d] = subCall[d]
        /\ UNCHANGED <<now, periods, shown, sweeper, raced>>
    <3> HIDE DEF e
    <3>1. subCall' = [subCall EXCEPT ![c].pc = "show", ![c].until = e]
          /\ UNCHANGED <<now, periods, shown, sweeper, raced>>
      BY <1>7 DEF ReadPriority, e
    <3> QED BY <3>1 DEF SubTypeOK, SubCallState
  <2>2. ~Quiet'
    BY <2>1 DEF Quiet
  <2>3. ASSUME NEW d \in SubCall, subCall'[d].pc = "show"
        PROVE  \/ subCall[d].pc = "show" /\ subCall'[d].until = subCall[d].until
               \/ subCall'[d].until = PriorityEnd(periods, now)
    BY <2>1, <2>3
  <2> QED BY <2>1, <2>2, <2>3, ShownKept DEF shown
<1>8. ASSUME NEW c \in SubCall, WritePriority(c) PROVE Shown'
  <2>1. /\ subCall[c].pc = "show" /\ until' = subCall[c].until /\ subCall'[c].pc = "idle"
        /\ \A d \in SubCall \ {c} : subCall'[d] = subCall[d]
        /\ UNCHANGED <<now, periods, missed, sweeper, raced>>
    BY <1>8 DEF WritePriority, Free, SubTypeOK
  <2>2. \A d \in SubCall : subCall'[d].pc = "show" => subCall'[d] = subCall[d]
    BY <2>1
  <2> QED BY <2>1, <2>2, ShownKept
<1>9. ASSUME NEW c \in SubCall, Dies(c) PROVE Shown'
  <2>1. /\ missed' = (missed \/ subCall[c].pc \in {"sync", "show"}) /\ subCall'[c].pc = "idle"
        /\ \A d \in SubCall \ {c} : subCall'[d] = subCall[d]
        /\ UNCHANGED <<now, periods, until, sweeper, raced>>
    BY <1>9 DEF Dies, Free, SubTypeOK
  <2>2. \A d \in SubCall : subCall'[d].pc = "show" => subCall'[d] = subCall[d]
    BY <2>1
  <2>3. ~missed' /\ Quiet' => Quiet
    BY <2>1 DEF Quiet
  <2> QED BY <2>1, <2>2, <2>3, ShownKept
<1>10. ASSUME SweepReads PROVE Shown'
  <2>1. sweeper'.pc = sweeper.pc /\ sweeper.pc = "idle"
        /\ UNCHANGED <<now, periods, shown, subCall, raced>>
    BY <1>10 DEF SweepReads, SubTypeOK
  <2> QED BY <2>1, ShownKept DEF shown, Quiet
<1>11. ASSUME NEW i \in sweeper.todo, SweepSkips(i) PROVE Shown'
  <2>1. sweeper'.pc = sweeper.pc /\ sweeper.pc = "idle"
        /\ UNCHANGED <<now, periods, shown, subCall, raced>>
    BY <1>11 DEF SweepSkips, SubTypeOK
  <2> QED BY <2>1, ShownKept DEF shown, Quiet
<1>12. ASSUME NEW i \in sweeper.todo, SweepExpire(i) PROVE Shown'
  <2>1. sweeper'.pc = "sync" /\ subCall' = subCall /\ missed' = (missed \/ \E c \in SubCall : subCall[c].pc = "show")
    BY <1>12 DEF SweepExpire, SubTypeOK
  <2> QED BY <2>1 DEF Shown, Quiet
<1>13. ASSUME SweepReadsPriority PROVE Shown'
  <2> DEFINE e == PriorityEnd(periods, now)
  <2>1. sweeper'.pc = "show" /\ sweeper'.until = e /\ UNCHANGED <<now, periods, shown, subCall, raced>>
    <3> HIDE DEF e
    <3>1. sweeper' = [sweeper EXCEPT !.pc = "show", !.until = e]
          /\ UNCHANGED <<now, periods, shown, subCall, raced>>
      BY <1>13 DEF SweepReadsPriority, e
    <3> QED BY <3>1 DEF SubTypeOK
  <2>2. ~Quiet'
    BY <2>1 DEF Quiet
  <2> QED BY <2>1, <2>2, ShownKept DEF shown
<1>14. ASSUME SweepWritesPriority PROVE Shown'
  <2>1. /\ sweeper.pc = "show" /\ until' = sweeper.until /\ sweeper'.pc = "idle"
        /\ UNCHANGED <<now, periods, missed, subCall, raced>>
    BY <1>14 DEF SweepWritesPriority, SubTypeOK
  <2> QED BY <2>1, ShownKept
<1>15. ASSUME SweepDies PROVE Shown'
  <2>1. /\ missed' = (missed \/ sweeper.pc # "idle") /\ sweeper'.pc = "idle"
        /\ UNCHANGED <<now, periods, until, subCall, raced>>
    BY <1>15 DEF SweepDies
  <2>2. ~missed' /\ Quiet' => Quiet
    BY <2>1 DEF Quiet
  <2> QED BY <2>1, <2>2, ShownKept
<1>16. ASSUME TimePasses PROVE Shown'
  BY <1>16, TimeShown
<1>17. CASE UNCHANGED subVars
  BY <1>17, ShownKept DEF subVars, shown, Quiet

<1> QED
  BY <1>1, <1>2, <1>3, <1>4, <1>5, <1>6, <1>7, <1>8, <1>9, <1>10, <1>11, <1>12, <1>13, <1>14, <1>15, <1>16, <1>17 DEF SubNext

\* The offers are shown first exactly as long as the periods with priority go on, once
\* the sweep has seen what has ended, unless a sync was cut short or overtaken.
THEOREM OffersFollowPriority == SubSpec => []PriorityFollowsPlan
<1>1. SubInit => SubTypeOK /\ AllAsked /\ InOrder /\ Shown
  <2> SUFFICES ASSUME SubInit PROVE SubTypeOK /\ AllAsked /\ InOrder /\ Shown
    OBVIOUS
  <2>1. SubTypeOK /\ AllAsked /\ InOrder
    BY TypesStart, OrderStart
  <2>2. Told(0)
    <3>1. PriorityEnd(periods, now) = 0 \/ \E j \in LiveIn(periods, now) : TRUE
      BY <2>1, PriorityIs DEF SubTypeOK
    <3>2. LiveIn(periods, now) = {}
      BY DEF SubInit, LiveIn
    <3> QED BY <3>1, <3>2 DEF Told, SubInit
  <2> QED BY <2>1, <2>2 DEF Shown, SubInit, Free
<1>2. SubTypeOK /\ AllAsked /\ InOrder /\ Shown /\ [SubNext]_subVars
        => (SubTypeOK /\ AllAsked /\ InOrder /\ Shown)'
  BY TypesStep, OrderStep, ShownStep
<1>3. Shown => PriorityFollowsPlan
  BY DEF Shown, Told, PriorityFollowsPlan
<1> QED
  BY <1>1, <1>2, <1>3, PTL DEF SubSpec

==========================================================================
