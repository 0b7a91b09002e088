---------------------------- MODULE DueRuleProofs ----------------------------
(***************************************************************************)
(* What is proved of the due rule, for any set of firings, any arming, any *)
(* last attempt and any time: when it finds something to run, what it      *)
(* finds, and what an attempt settles.                                     *)
(***************************************************************************)
EXTENDS DueRule, WellFoundedInduction, TLAPS

Kinds == {"due", "missed", "not-due"}

\* A time, or none.
Instant == Nat \cup {NoTime}

\* The firings between the anchor and now.
Passed(firings, armed, attempt, now) ==
  {f \in firings : AnchorOf(armed, attempt, now) < f /\ f <= now}

\* A set of times has a first one.
LEMMA FirstTime ==
  ASSUME NEW S \in SUBSET Nat, S # {}
  PROVE  \E m \in S : \A f \in S : m <= f
<1>1. PICK m \in S : \A f \in S : ~ (<<f, m>> \in OpToRel(<, Nat))
  BY NatLessThanWellFounded, WFMin
<1>2. ASSUME NEW f \in S PROVE m <= f
  <2>1. f < m => <<f, m>> \in {ss \in Nat \X Nat : ss[1] < ss[2]}
    OBVIOUS
  <2>2. ~(<<f, m>> \in {ss \in Nat \X Nat : ss[1] < ss[2]})
    BY <1>1 DEF OpToRel
  <2> QED BY <2>1, <2>2
<1> QED BY <1>2

\* A set of times up to a bound has a last one.
LEMMA LastTime ==
  ASSUME NEW bound \in Nat, NEW S \in SUBSET (0..bound), S # {}
  PROVE  \E m \in S : \A f \in S : m >= f
<1> DEFINE T == {bound - f : f \in S}
<1>1. \A f \in S : f \in Nat /\ f <= bound
  OBVIOUS
<1>2. T \in SUBSET Nat /\ T # {}
  <2>1. \A f \in S : bound - f \in Nat
    BY <1>1
  <2> QED BY <2>1
<1>3. PICK m \in T : \A f \in T : m <= f
  <2> HIDE DEF T
  <2> QED BY <1>2, FirstTime
<1>4. PICK l \in S : m = bound - l
  OBVIOUS
<1>5. ASSUME NEW f \in S PROVE l >= f
  <2>1. bound - l <= bound - f
    BY <1>3, <1>4
  <2>2. f \in Nat /\ l \in Nat
    BY <1>1
  <2> QED BY <1>1, <2>1, <2>2
<1> QED BY <1>5

\* NextRun is the first firing after a time.
LEMMA NextRunFacts ==
  ASSUME NEW firings \in SUBSET Nat, NEW after \in Int, NEW f \in firings, f > after
  PROVE  /\ NextRun(firings, after) \in firings
         /\ NextRun(firings, after) > after /\ NextRun(firings, after) <= f
<1> DEFINE ahead == {g \in firings : g > after}
<1>1. \E m \in ahead : \A g \in ahead : m <= g
  <2>1. ahead \in SUBSET Nat /\ ahead # {}
    OBVIOUS
  <2> HIDE DEF ahead
  <2> QED BY <2>1, FirstTime
<1>2. NextRun(firings, after) = CHOOSE m \in ahead : \A g \in ahead : m <= g
  BY DEF NextRun
<1>3. NextRun(firings, after) \in ahead /\ \A g \in ahead : NextRun(firings, after) <= g
  <2> HIDE DEF ahead
  <2> QED BY <1>1, <1>2
<1> QED BY <1>3

\* There is none after the last firing.
LEMMA NoNextRun ==
  ASSUME NEW firings \in SUBSET Nat, NEW after \in Int, ~\E f \in firings : f > after
  PROVE  NextRun(firings, after) = NoTime
<1>1. {f \in firings : f > after} = {}
  OBVIOUS
<1> QED BY <1>1 DEF NextRun

\* LatestRun is the last firing up to a time.
LEMMA LatestRunFacts ==
  ASSUME NEW firings \in SUBSET Nat, NEW at \in Nat, NEW f \in firings, f <= at
  PROVE  /\ LatestRun(firings, at) \in firings
         /\ LatestRun(firings, at) <= at
         /\ \A g \in firings : g <= at => LatestRun(firings, at) >= g
<1> DEFINE passed == {g \in firings : g <= at}
<1>1. \E m \in passed : \A g \in passed : m >= g
  <2>1. \A g \in passed : g \in Nat /\ g \in 0..at
    OBVIOUS
  <2>2. passed \subseteq 0..at /\ passed # {}
    BY <2>1
  <2> HIDE DEF passed
  <2> QED BY <2>2, LastTime
<1>2. LatestRun(firings, at) = CHOOSE m \in passed : \A g \in passed : m >= g
  BY DEF LatestRun
<1>3. LatestRun(firings, at) \in passed /\ \A g \in passed : LatestRun(firings, at) >= g
  <2> HIDE DEF passed
  <2> QED BY <1>1, <1>2
<1> QED BY <1>3

\* The anchor is one of the two times, or now when one of them is no earlier;
\* and never after now.
LEMMA AnchorFacts ==
  ASSUME NEW armed \in Int, NEW attempt \in Int, NEW now \in Int
  PROVE  LET anchor == AnchorOf(armed, attempt, now)
         IN /\ anchor \in {armed, attempt, now}
            /\ anchor <= now
            /\ anchor = now \/ (armed <= anchor /\ attempt <= anchor)
            /\ anchor = now => now <= armed \/ now <= attempt
BY DEF AnchorOf

\* evaluateDue finds something exactly when a firing has passed since the
\* anchor; what it finds is then the latest firing up to now, later than the
\* anchor; and it is to be run when it is recent or the schedule catches up,
\* and missed otherwise (due.ts:34-48).
THEOREM VerdictIsExact ==
  ASSUME NEW firings \in SUBSET Nat, NEW armed \in Instant, NEW attempt \in Instant,
         NEW catchUp \in BOOLEAN, NEW now \in Nat
  PROVE  LET v      == EvaluateDue(firings, armed, attempt, catchUp, now)
             passed == Passed(firings, armed, attempt, now)
         IN /\ v.kind \in Kinds
            /\ v.kind # "not-due" <=> passed # {}
            /\ v.kind # "not-due" =>
                 /\ v.occurrence \in passed /\ \A f \in passed : f <= v.occurrence
                 /\ v.kind = "due" <=> (now - v.occurrence <= Grace \/ catchUp)
<1> DEFINE anchor == AnchorOf(armed, attempt, now)
           next   == NextRun(firings, anchor)
           latest == LatestRun(firings, now)
           v      == EvaluateDue(firings, armed, attempt, catchUp, now)
           passed == Passed(firings, armed, attempt, now)
<1>1. armed \in Int /\ attempt \in Int /\ now \in Int /\ NoTime \in Int /\ NoTime \notin Nat
  BY DEF Instant, NoTime
<1>2. anchor \in Int /\ anchor <= now
  BY <1>1, AnchorFacts
<1>3. v = IF next = NoTime \/ next > now THEN [kind |-> "not-due", occurrence |-> NoTime]
          ELSE [kind |-> IF now - latest <= Grace \/ catchUp THEN "due" ELSE "missed", occurrence |-> latest]
  BY DEF EvaluateDue, VerdictFrom
<1>4. v.kind \in Kinds /\ (v.kind # "not-due" <=> ~(next = NoTime \/ next > now))
      /\ (v.kind # "not-due" => v.occurrence = latest /\ (v.kind = "due" <=> (now - latest <= Grace \/ catchUp)))
  <2>1. CASE next = NoTime \/ next > now
    BY <1>3, <2>1 DEF Kinds
  <2>2. CASE ~(next = NoTime \/ next > now)
    <3>1. CASE now - latest <= Grace \/ catchUp
      BY <1>3, <2>2, <3>1 DEF Kinds
    <3>2. CASE ~(now - latest <= Grace \/ catchUp)
      BY <1>3, <2>2, <3>2 DEF Kinds
    <3> QED BY <3>1, <3>2
  <2> QED BY <2>1, <2>2
<1>a. passed = {f \in firings : anchor < f /\ f <= now}
  BY DEF Passed
<1> HIDE DEF anchor, next, latest, v, passed
<1>5. ASSUME NEW f \in passed
      PROVE  /\ ~(next = NoTime \/ next > now)
             /\ latest \in passed /\ \A g \in passed : g <= latest
  <2>1. f \in firings /\ anchor < f /\ f <= now /\ f \in Nat
    BY <1>5, <1>a
  <2>2. next \in firings /\ next <= f /\ next \in Nat
    BY <1>2, <2>1, NextRunFacts DEF next
  <2>3. latest \in firings /\ latest <= now /\ latest \in Nat /\ \A g \in firings : g <= now => latest >= g
    BY <2>1, LatestRunFacts DEF latest
  <2>4. latest >= f
    BY <2>1, <2>3
  <2> QED BY <1>1, <1>2, <1>a, <2>1, <2>2, <2>3, <2>4
<1>6. ASSUME ~(next = NoTime \/ next > now) PROVE next \in passed
  <2>1. next \in firings /\ next > anchor /\ next \in Nat
    BY <1>2, <1>6, NextRunFacts, NoNextRun DEF next
  <2> QED BY <1>2, <1>6, <1>a, <2>1
<1>7. v.kind # "not-due" <=> passed # {}
  BY <1>4, <1>5, <1>6
<1>8. v.kind # "not-due" => latest \in passed /\ \A f \in passed : f <= latest
  BY <1>5, <1>7
<1> QED BY <1>4, <1>7, <1>8 DEF v, passed

\* Consuming sets the anchor to now: whatever windows were missed, nothing is
\* due again until the next firing, whenever the schedule was armed, and what
\* is found from then on is later than the attempt ("any number of missed
\* windows collapse into a single run", due.ts:12-15).
THEOREM AttemptSettlesThePast ==
  ASSUME NEW firings \in SUBSET Nat, NEW armed \in Instant, NEW now \in Nat,
         NEW later \in Nat, now <= later, NEW catchUp \in BOOLEAN
  PROVE  LET v == EvaluateDue(firings, armed, now, catchUp, later)
         IN /\ v.kind # "not-due" => now < v.occurrence
            /\ (\A f \in firings : ~(now < f /\ f <= later)) => v.kind = "not-due"
<1> DEFINE v      == EvaluateDue(firings, armed, now, catchUp, later)
           anchor == AnchorOf(armed, now, later)
           passed == Passed(firings, armed, now, later)
<1>1. armed \in Int /\ now \in Int /\ later \in Int /\ now \in Instant
  BY DEF Instant, NoTime
<1>2. anchor \in Int /\ now <= anchor
  BY <1>1 DEF AnchorOf
<1>3. /\ v.kind # "not-due" <=> passed # {}
      /\ v.kind # "not-due" => v.occurrence \in passed
  BY <1>1, VerdictIsExact
<1>4. \A f \in passed : f \in firings /\ now < f /\ f <= later
  BY <1>1, <1>2 DEF Passed
<1> HIDE DEF v, passed
<1>5. v.kind # "not-due" => now < v.occurrence
  BY <1>3, <1>4
<1>6. (\A f \in firings : ~(now < f /\ f <= later)) => v.kind = "not-due"
  BY <1>3, <1>4
<1> QED BY <1>5, <1>6 DEF v

\* A schedule that catches up never has an occurrence missed, and one that
\* does not only has those missed that are older than the grace
\* (due.ts:42-47).
THEOREM OnlyTheLateAreMissed ==
  ASSUME NEW firings \in SUBSET Nat, NEW armed \in Instant, NEW attempt \in Instant,
         NEW catchUp \in BOOLEAN, NEW now \in Nat
  PROVE  LET v == EvaluateDue(firings, armed, attempt, catchUp, now)
         IN v.kind = "missed" =>
              ~catchUp /\ \A f \in Passed(firings, armed, attempt, now) : f + Grace < now
<1> DEFINE v      == EvaluateDue(firings, armed, attempt, catchUp, now)
           passed == Passed(firings, armed, attempt, now)
<1>1. v.kind = "missed" =>
        /\ v.occurrence \in passed /\ (\A f \in passed : f <= v.occurrence)
        /\ ~(now - v.occurrence <= Grace \/ catchUp)
  BY VerdictIsExact
<1>2. passed \subseteq Nat
  BY DEF Passed
<1> HIDE DEF v, passed
<1>3. ASSUME v.kind = "missed" PROVE ~catchUp /\ \A f \in passed : f + Grace < now
  <2>1. v.occurrence \in Nat /\ ~(now - v.occurrence <= Grace) /\ ~catchUp
    BY <1>1, <1>2, <1>3
  <2>2. \A f \in passed : f \in Nat /\ f <= v.occurrence
    BY <1>1, <1>2, <1>3
  <2> QED BY <2>1, <2>2, GraceAssumption
<1> QED BY <1>3 DEF v, passed

\* The limit of the rule: while the clock is behind the last attempt, or the
\* arming, nothing is due, whatever fires.  It is why the scheduler's promise
\* is kept by a clock that is never set back, and broken by one that is
\* (due.ts:10-11, 52-56).
THEOREM ClockBehindTheAnchorFreezes ==
  ASSUME NEW firings \in SUBSET Nat, NEW armed \in Instant, NEW attempt \in Instant,
         NEW catchUp \in BOOLEAN, NEW now \in Nat, now <= armed \/ now <= attempt
  PROVE  EvaluateDue(firings, armed, attempt, catchUp, now).kind = "not-due"
<1> DEFINE v      == EvaluateDue(firings, armed, attempt, catchUp, now)
           passed == Passed(firings, armed, attempt, now)
<1>1. AnchorOf(armed, attempt, now) = now
  BY DEF AnchorOf, Instant, NoTime
<1>2. ASSUME NEW f \in passed PROVE FALSE
  <2>1. f \in Nat /\ now < f /\ f <= now
    BY <1>1 DEF Passed
  <2> QED BY <2>1
<1>3. v.kind # "not-due" <=> passed # {}
  BY VerdictIsExact
<1> QED BY <1>2, <1>3
=============================================================================
