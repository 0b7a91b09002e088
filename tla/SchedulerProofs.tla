-------------------------- MODULE SchedulerProofs --------------------------
(***************************************************************************)
(* What is proved of Scheduler, for any schedules, recurrences, overlapping *)
(* ticks, edits, crashes and settings of the clock: its types, that an     *)
(* occurrence runs once, that a steady clock passes over none, that what a *)
(* tick writes back loses no record, and that deferrals are counted.       *)
(***************************************************************************)
EXTENDS Scheduler, DueRuleProofs, FiniteSetTheorems

Instants == Times \cup {NoTime}
Presence == {"absent", "on", "off", "removed"}

\* Times are natural numbers, and no time comes before them all.
LEMMA InstantFacts ==
  /\ MaxTime \in Nat /\ Times \subseteq Nat /\ Instants \subseteq Int /\ NoTime \notin Times
  /\ \A f \in Times : NoTime < f /\ f \in Int
  /\ \A s \in Schedules : FiringsOf[s] \subseteq Times
<1>1. MaxTime \in Nat
  BY SchedulerAssumption
<1>2. \A s \in Schedules : FiringsOf[s] \subseteq Times
  BY SchedulerAssumption DEF Times
<1> QED BY <1>1, <1>2 DEF Times, Instants, NoTime

\* What evaluateDue finds is after the last attempt and not after now; and
\* what passed since the schedule was armed and last attempted is found
\* (due.ts:34-60).
LEMMA DueFacts ==
  ASSUME NEW firings \in SUBSET Times, NEW armedAt \in Instants, NEW attemptAt \in Instants,
         NEW catchUp \in BOOLEAN, NEW now \in Times
  PROVE  LET v == EvaluateDue(firings, armedAt, attemptAt, catchUp, now)
         IN /\ v.kind \in Kinds
            /\ v.kind # "not-due" =>
                 v.occurrence \in firings /\ attemptAt < v.occurrence /\ v.occurrence <= now
            /\ \A f \in firings : f <= now /\ armedAt < f /\ attemptAt < f => v.kind # "not-due"
<1> DEFINE v      == EvaluateDue(firings, armedAt, attemptAt, catchUp, now)
           anchor == AnchorOf(armedAt, attemptAt, now)
           passed == Passed(firings, armedAt, attemptAt, now)
<1>1. /\ firings \in SUBSET Nat /\ now \in Nat /\ armedAt \in Instant /\ attemptAt \in Instant
      /\ armedAt \in Int /\ attemptAt \in Int /\ now \in Int
  BY InstantFacts DEF Instants, Instant
<1>2. /\ v.kind \in Kinds
      /\ v.kind # "not-due" <=> passed # {}
      /\ v.kind # "not-due" => v.occurrence \in passed
  BY <1>1, VerdictIsExact
<1>3. anchor \in Int /\ anchor <= now /\ (anchor = now \/ (armedAt <= anchor /\ attemptAt <= anchor))
  BY <1>1, AnchorFacts
<1>4. anchor \in {armedAt, attemptAt, now} /\ (anchor = now => now <= armedAt \/ now <= attemptAt)
  BY <1>1, AnchorFacts
<1>5. \A f \in passed : f \in firings /\ f <= now /\ anchor < f /\ f \in Nat
  BY <1>1 DEF Passed
<1>6. \A f \in firings : anchor < f /\ f <= now => f \in passed
  BY DEF Passed
<1> HIDE DEF v, anchor, passed
<1>7. \A f \in passed : attemptAt < f
  BY <1>1, <1>3, <1>5
<1>8. ASSUME NEW f \in firings, f <= now, armedAt < f, attemptAt < f PROVE v.kind # "not-due"
  <2>1. f \in Nat
    BY <1>1
  <2>2. anchor < f
    BY <1>1, <1>4, <1>8, <2>1
  <2>3. f \in passed
    BY <1>6, <1>8, <2>2
  <2> QED BY <1>2, <2>3
<1> QED BY <1>2, <1>5, <1>7, <1>8 DEF v

-----------------------------------------------------------------------------
(* The invariant.                                                          *)

Steps   == {"off", "acquiring", "judging", "consuming", "scanning", "running", "hung", "offline", "releasing"}
Records == {"none", "missed", "ran", "failed", "manual"}

TickStates ==
  [pc : Steps, now : Instants, seen : [Schedules -> Presence], armed : [Schedules -> Instants],
   due : [Schedules -> Instants], attempt : [Schedules -> Instants],
   deferrals : [Schedules -> 0..MaxDeferrals]]

\* The types; what was reached, and what a tick took, are firings.
SchedTypes ==
  /\ clock \in Times
  /\ repo \in [Schedules -> Presence]
  /\ armed \in [Schedules -> Instants] /\ attempt \in [Schedules -> Instants]
  /\ deferrals \in [Schedules -> 0..MaxDeferrals]
  /\ lastRun \in [Schedules -> Records]
  /\ lastTickAt \in Instants
  /\ batch \in Ticks \cup {"free", "menu"}
  /\ manual \in Schedules \cup {"nobody"}
  /\ reached \in [Schedules -> SUBSET Times] /\ \A s \in Schedules : reached[s] \subseteq FiringsOf[s]
  /\ ran \in [Schedules -> SUBSET Times]
  /\ givenBack \in [Schedules -> Nat]
  /\ tick \in [Ticks -> TickStates]
  /\ \A t \in Ticks : tick[t].pc # "off" => tick[t].now \in Times
  /\ \A t \in Ticks : \A s \in Due(t) : tick[t].due[s] \in FiringsOf[s] /\ tick[t].due[s] <= tick[t].now

\* A tick past its tryAcquire holds the batch: no other one is.
HolderInv ==
  \A t \in Ticks : tick[t].pc \notin {"off", "acquiring"} => batch = t

\* What a tick saw removed is; a schedule that was there at first is known to
\* every tick.
SeenInv ==
  /\ \A t \in Ticks, s \in Schedules : tick[t].seen[s] = "removed" => repo[s] = "removed"
  /\ \A t \in Ticks, s \in AtFirst : tick[t].pc # "off" => tick[t].seen[s] # "absent"
  /\ \A s \in AtFirst : repo[s] # "absent"

\* What is due comes after the last attempt, and a tick that may have to give
\* it back remembers the attempt, and the count, of before.
DueInv ==
  \A t \in Ticks : \A s \in Due(t) :
    /\ tick[t].pc = "consuming" => attempt[s] < tick[t].due[s]
    /\ tick[t].pc = "scanning" =>
         /\ tick[t].attempt[s] < tick[t].due[s] /\ tick[t].due[s] <= attempt[s]
         /\ tick[t].deferrals[s] = deferrals[s]

Known(s) == s \in AtFirst /\ repo[s] # "removed"

\* What ran did so up to the last attempt, the one of before the scan if the
\* occurrence may be given back.
RanInv ==
  \A s \in Schedules : Known(s) =>
    /\ \A f \in ran[s] : f <= attempt[s]
    /\ \A t \in Ticks : tick[t].pc = "scanning" /\ s \in Due(t) =>
         \A f \in ran[s] \ {tick[t].due[s]} : f <= tick[t].attempt[s]

\* The deferrals in state.json are those since the last run.
CountInv == \A s \in Schedules : Known(s) => givenBack[s] = deferrals[s]

\* A clock that was never set back is after everything that was written.
SteadyInv ==
  /\ \A e \in events : <<e[1], 0>> \in events
  /\ ~Happened("setBack") =>
       \A s \in Schedules :
         /\ armed[s] <= clock /\ attempt[s] <= clock
         /\ \A f \in reached[s] : armed[s] < f /\ attempt[s] < f
         /\ \A t \in Ticks : tick[t].pc # "off" =>
              /\ tick[t].now <= clock /\ tick[t].armed[s] <= armed[s] /\ tick[t].attempt[s] <= clock

SchedInv == SchedTypes /\ HolderInv /\ SeenInv /\ DueInv /\ RanInv /\ CountInv /\ SteadyInv

\* The tick that does not run.
LEMMA OffFacts ==
  /\ Off \in TickStates /\ Off.pc = "off"
  /\ \A s \in Schedules : Off.due[s] = NoTime /\ Off.attempt[s] = NoTime /\ Off.seen[s] = "absent"
BY SchedulerAssumption DEF Off, TickStates, Never, Instants, Presence, Steps

LEMMA SchedStarts == Init => SchedInv
<1> SUFFICES ASSUME Init PROVE SchedInv
  OBVIOUS
<1> USE InstantFacts, OffFacts, SchedulerAssumption
<1>1. /\ \A t \in Ticks : tick[t].pc = "off" /\ Due(t) = {}
      /\ tick \in [Ticks -> TickStates]
  BY DEF Init, Due
<1>2. /\ clock \in Times /\ repo \in [Schedules -> Presence]
      /\ armed \in [Schedules -> Instants] /\ attempt \in [Schedules -> Instants]
      /\ \A s \in Schedules : armed[s] <= 0 /\ attempt[s] <= 0
  BY DEF Init, Never, Times, Instants, Presence, NoTime
<1>3. SchedTypes
  BY <1>1, <1>2 DEF Init, SchedTypes, Records, Instants
<1>4. HolderInv /\ DueInv
  BY <1>1 DEF HolderInv, DueInv
<1>5. SeenInv
  BY <1>1 DEF Init, SeenInv
<1>6. RanInv /\ CountInv
  BY <1>1 DEF Init, RanInv, CountInv, Known
<1>7. SteadyInv
  BY <1>1, <1>2 DEF Init, SteadyInv
<1> QED BY <1>3, <1>4, <1>5, <1>6, <1>7 DEF SchedInv

-----------------------------------------------------------------------------
(* Around the ticks.                                                       *)

\* The events are numbered from 0, so that one that happened is known.
LEMMA EventFacts ==
  ASSUME SteadyInv, NEW event, Disturb(event)
  PROVE  /\ \A e \in events' : <<e[1], 0>> \in events'
         /\ Happened(event)' /\ \A x : Happened(x) => Happened(x)'
<1> DEFINE same == {e \in events : e[1] = event}
           new  == <<event, Cardinality(same)>>
<1>1. events' = events \cup {new} /\ \A e \in events : <<e[1], 0>> \in events
  BY DEF Disturb, SteadyInv
<1>2. <<event, 0>> \in events'
  <2>1. CASE same = {}
    <3>1. new = <<event, 0>>
      BY <2>1, FS_EmptySet
    <3> QED BY <1>1, <3>1
  <2>2. CASE same # {}
    BY <1>1, <2>2
  <2> QED BY <2>1, <2>2
<1>3. new[1] = event
  OBVIOUS
<1> HIDE DEF new
<1> QED BY <1>1, <1>2, <1>3 DEF Happened

LEMMA AdvanceStep ==
  ASSUME SchedInv, Advance
  PROVE  SchedInv'
<1> USE InstantFacts DEF SchedInv
<1>1. clock' = clock + 1 /\ clock' \in Times /\ clock \in Nat
  BY DEF Advance, SchedTypes, Times
<1>2. UNCHANGED <<world, state, batch, tick, manual, ran, givenBack, bounds>>
  BY DEF Advance
<1>3. \A s \in Schedules : \A f \in reached'[s] : f \in reached[s] \/ (f = clock + 1 /\ f \in FiringsOf[s])
  BY DEF Advance, SchedTypes
<1>4. SchedTypes'
  <2>1. reached' \in [Schedules -> SUBSET Times] /\ \A s \in Schedules : reached'[s] \subseteq FiringsOf[s]
    BY <1>3 DEF SchedTypes, Advance
  <2> QED BY <1>1, <1>2, <2>1 DEF SchedTypes, Due, world, state, entries
<1>5. HolderInv' /\ SeenInv' /\ DueInv' /\ RanInv' /\ CountInv'
  BY <1>2 DEF HolderInv, SeenInv, DueInv, RanInv, CountInv, Known, Due, world, state, entries
<1>6. SteadyInv'
  <2> SUFFICES ASSUME ~Happened("setBack"), NEW s \in Schedules
               PROVE  /\ armed[s] <= clock' /\ attempt[s] <= clock'
                      /\ \A f \in reached'[s] : armed[s] < f /\ attempt[s] < f
                      /\ \A t \in Ticks : tick[t].pc # "off" =>
                           /\ tick[t].now <= clock' /\ tick[t].armed[s] <= armed[s]
                           /\ tick[t].attempt[s] <= clock'
    BY <1>2 DEF SteadyInv, Happened, world, state, entries, bounds
  <2>1. armed[s] \in Int /\ attempt[s] \in Int /\ armed[s] <= clock /\ attempt[s] <= clock
    BY DEF SchedTypes, SteadyInv, Instants
  <2>2. \A f \in reached'[s] : armed[s] < f /\ attempt[s] < f
    BY <1>1, <1>3, <2>1 DEF SteadyInv
  <2>3. ASSUME NEW t \in Ticks, tick[t].pc # "off"
        PROVE  tick[t].now <= clock' /\ tick[t].armed[s] <= armed[s] /\ tick[t].attempt[s] <= clock'
    <3>1. tick[t].now \in Int /\ tick[t].attempt[s] \in Int
      BY DEF SchedTypes, TickStates, Instants
    <3> QED BY <1>1, <2>3, <3>1 DEF SteadyInv
  <2> QED BY <1>1, <2>1, <2>2, <2>3
<1> QED BY <1>4, <1>5, <1>6

LEMMA SetBackStep ==
  ASSUME SchedInv, SetBack
  PROVE  SchedInv'
<1> USE InstantFacts DEF SchedInv
<1>1. clock' \in Times /\ UNCHANGED <<world, state, batch, tick, manual, history>>
  BY DEF SetBack, SchedTypes, Times
<1>2. SteadyInv'
  <2>1. (\A e \in events' : <<e[1], 0>> \in events') /\ Happened("setBack")'
    BY EventFacts DEF SetBack
  <2> QED BY <2>1 DEF SteadyInv
<1>3. SchedTypes'
  BY <1>1 DEF SchedTypes, Due, world, state, entries, history
<1>4. HolderInv' /\ SeenInv' /\ DueInv' /\ RanInv' /\ CountInv'
  BY <1>1 DEF HolderInv, SeenInv, DueInv, RanInv, CountInv, Known, Due, world, state, entries, history
<1> QED BY <1>2, <1>3, <1>4

LEMMA EditStep ==
  ASSUME SchedInv, NEW s \in Schedules, NEW becomes \in {"on", "off", "removed"}, NEW arms \in BOOLEAN,
         Edit(s, becomes, arms), repo[s] # "removed", becomes = "on" => arms
  PROVE  SchedInv'
<1> USE InstantFacts DEF SchedInv
<1>1. UNCHANGED <<clock, state, batch, tick, manual, ran, givenBack>>
  BY DEF Edit
<1>2. /\ repo' \in [Schedules -> Presence] /\ repo'[s] = becomes
      /\ \A u \in Schedules \ {s} : repo'[u] = repo[u]
  BY DEF Edit, SchedTypes, Presence
<1>3. /\ armed' \in [Schedules -> Instants]
      /\ \A u \in Schedules : armed'[u] = IF arms /\ u = s THEN clock ELSE armed[u]
  BY DEF Edit, SchedTypes, Instants
<1>4. /\ reached' \in [Schedules -> SUBSET Times] /\ reached'[s] = {}
      /\ \A u \in Schedules \ {s} : reached'[u] = reached[u]
  BY DEF Edit, SchedTypes
<1>5. SchedTypes'
  BY <1>1, <1>2, <1>3, <1>4 DEF SchedTypes, Due, state, entries
<1>6. \A u \in Schedules : Known(u)' => Known(u)
  BY <1>2 DEF Known
<1>7. HolderInv' /\ SeenInv' /\ DueInv'
  <2>1. SeenInv'
    <3>1. \A u \in Schedules : repo[u] = "removed" => repo'[u] = "removed"
      BY <1>2
    <3>2. \A u \in AtFirst : repo'[u] # "absent"
      BY <1>2, SchedulerAssumption DEF SeenInv
    <3> QED BY <1>1, <3>1, <3>2 DEF SeenInv
  <2> QED BY <1>1, <2>1 DEF HolderInv, DueInv, Due, state, entries
<1>8. RanInv' /\ CountInv'
  BY <1>1, <1>6 DEF RanInv, CountInv, Due, state, entries
<1>9. SteadyInv'
  <2>1. (\A e \in events' : <<e[1], 0>> \in events') /\ (Happened("setBack") => Happened("setBack")')
    BY EventFacts DEF Edit
  <2> SUFFICES ASSUME ~Happened("setBack"), NEW u \in Schedules
               PROVE  /\ armed'[u] <= clock /\ attempt[u] <= clock
                      /\ \A f \in reached'[u] : armed'[u] < f /\ attempt[u] < f
                      /\ \A t \in Ticks : tick[t].pc # "off" =>
                           /\ tick[t].now <= clock /\ tick[t].armed[u] <= armed'[u]
                           /\ tick[t].attempt[u] <= clock
    BY <1>1, <2>1 DEF SteadyInv, state, entries
  <2>2. clock \in Int /\ armed[u] \in Int /\ armed[u] <= clock
    BY DEF SchedTypes, SteadyInv, Instants
  <2>3. armed[u] <= armed'[u] /\ armed'[u] <= clock /\ armed'[u] \in Int
    BY <1>3, <2>2
  <2>4. \A f \in reached'[u] : armed'[u] < f /\ attempt[u] < f
    BY <1>3, <1>4 DEF SteadyInv
  <2>5. ASSUME NEW t \in Ticks, tick[t].pc # "off" PROVE tick[t].armed[u] <= armed'[u]
    <3>1. tick[t].armed[u] \in Int /\ tick[t].armed[u] <= armed[u]
      BY <2>5 DEF SchedTypes, TickStates, Instants, SteadyInv
    <3> QED BY <2>2, <2>3, <3>1
  <2> QED BY <2>3, <2>4, <2>5 DEF SteadyInv
<1> QED BY <1>5, <1>7, <1>8, <1>9

LEMMA EditsStep ==
  ASSUME SchedInv, NEW s \in Schedules, Create(s) \/ Enable(s) \/ Disable(s) \/ Remove(s) \/ Retime(s)
  PROVE  SchedInv'
BY EditStep DEF Create, Enable, Disable, Remove, Retime

LEMMA ManualStep ==
  ASSUME SchedInv, (\E s \in Schedules : ManualStarts(s)) \/ ManualSettles
  PROVE  SchedInv'
<1> USE SchedulerAssumption DEF SchedInv
<1>1. /\ UNCHANGED <<clock, world, attempt, deferrals, lastTickAt, tick, history, events>>
      /\ batch' \in Ticks \cup {"free", "menu"} /\ (batch \in Ticks => batch' = batch)
      /\ manual' \in Schedules \cup {"nobody"}
      /\ lastRun' \in [Schedules -> Records]
  <2>1. CASE \E s \in Schedules : ManualStarts(s)
    BY <2>1 DEF ManualStarts, SchedTypes, state, entries
  <2>2. CASE ManualSettles
    BY <2>2 DEF ManualSettles, ManualEnds, SchedTypes, Records, bounds
  <2> QED BY <2>1, <2>2
<1>2. SchedTypes'
  BY <1>1 DEF SchedTypes, Due, world, history
<1>3. HolderInv'
  BY <1>1 DEF HolderInv
<1>4. SeenInv' /\ DueInv' /\ RanInv' /\ CountInv' /\ SteadyInv'
  BY <1>1 DEF SeenInv, DueInv, RanInv, CountInv, SteadyInv, Known, Due, Happened, world, history
<1> QED BY <1>2, <1>3, <1>4

-----------------------------------------------------------------------------
(* A tick begins, waits its turn and ends.                                 *)

\* What one tick does leaves the others alone.
LEMMA TickFacts ==
  ASSUME SchedTypes, NEW t \in Ticks, NEW new \in TickStates, tick' = [tick EXCEPT ![t] = new]
  PROVE  /\ tick' \in [Ticks -> TickStates] /\ tick'[t] = new
         /\ \A u \in Ticks \ {t} : tick'[u] = tick[u] /\ Due(u)' = Due(u)
         /\ Due(t)' = {s \in Schedules : new.due[s] # NoTime}
BY DEF SchedTypes, Due

LEMMA MoveFacts ==
  ASSUME SchedTypes, NEW t \in Ticks, NEW step \in Steps, Move(t, step)
  PROVE  /\ tick' \in [Ticks -> TickStates]
         /\ tick'[t].pc = step /\ tick'[t].now = tick[t].now /\ tick'[t].seen = tick[t].seen
         /\ tick'[t].armed = tick[t].armed /\ tick'[t].due = tick[t].due
         /\ tick'[t].attempt = tick[t].attempt /\ tick'[t].deferrals = tick[t].deferrals
         /\ \A u \in Ticks \ {t} : tick'[u] = tick[u]
         /\ \A u \in Ticks : Due(u)' = Due(u)
<1>1. /\ tick' \in [Ticks -> TickStates]
      /\ tick'[t].pc = step /\ tick'[t].now = tick[t].now /\ tick'[t].seen = tick[t].seen
      /\ tick'[t].armed = tick[t].armed /\ tick'[t].due = tick[t].due
      /\ tick'[t].attempt = tick[t].attempt /\ tick'[t].deferrals = tick[t].deferrals
      /\ \A u \in Ticks \ {t} : tick'[u] = tick[u]
  BY DEF SchedTypes, Move, TickStates
<1> QED BY <1>1 DEF Due

\* A tick is over, or dies.
LEMMA OffStep ==
  ASSUME SchedInv, NEW t \in Ticks, tick' = [tick EXCEPT ![t] = Off],
         UNCHANGED <<clock, world, state, manual, history>>,
         batch' \in Ticks \cup {"free", "menu"}, HolderInv',
         \A e \in events' : <<e[1], 0>> \in events', Happened("setBack") => Happened("setBack")'
  PROVE  SchedInv'
<1> USE DEF SchedInv
<1>1. /\ tick' \in [Ticks -> TickStates] /\ tick'[t] = Off /\ Due(t)' = {}
      /\ \A u \in Ticks \ {t} : tick'[u] = tick[u] /\ Due(u)' = Due(u)
  <2>1. {s \in Schedules : Off.due[s] # NoTime} = {}
    BY OffFacts
  <2> QED BY <2>1, OffFacts, TickFacts
<1>2. SchedTypes'
  BY <1>1, OffFacts DEF SchedTypes, world, state, entries, history
<1>3. SeenInv'
  BY <1>1, OffFacts DEF SeenInv, world
<1>4. DueInv' /\ RanInv' /\ CountInv'
  BY <1>1, OffFacts DEF DueInv, RanInv, CountInv, Known, world, state, entries, history
<1>5. SteadyInv'
  BY <1>1, OffFacts DEF SteadyInv, world, state, entries, history
<1> QED BY <1>2, <1>3, <1>4, <1>5

\* A tick goes on, and nothing is written.
LEMMA MoveStep ==
  ASSUME SchedInv, NEW t \in Ticks, NEW step \in Steps \ {"off", "consuming", "scanning"}, Move(t, step),
         tick[t].pc # "off", UNCHANGED <<clock, world, state, manual, history, bounds>>,
         batch' \in Ticks \cup {"free", "menu"}, HolderInv'
  PROVE  SchedInv'
<1> USE DEF SchedInv
<1>1. /\ tick' \in [Ticks -> TickStates]
      /\ tick'[t].pc = step /\ tick'[t].now = tick[t].now /\ tick'[t].seen = tick[t].seen
      /\ tick'[t].armed = tick[t].armed /\ tick'[t].due = tick[t].due
      /\ tick'[t].attempt = tick[t].attempt
      /\ \A u \in Ticks \ {t} : tick'[u] = tick[u]
      /\ \A u \in Ticks : Due(u)' = Due(u)
  BY MoveFacts
<1>2. SchedTypes'
  BY <1>1 DEF SchedTypes, world, state, entries, history
<1>3. SeenInv'
  BY <1>1 DEF SeenInv, world
<1>4. DueInv' /\ RanInv' /\ CountInv'
  BY <1>1 DEF DueInv, RanInv, CountInv, Known, world, state, entries, history
<1>5. SteadyInv'
  BY <1>1 DEF SteadyInv, Happened, world, state, entries, history, bounds
<1> QED BY <1>2, <1>3, <1>4, <1>5

LEMMA TickStartsStep ==
  ASSUME SchedInv, NEW t \in Ticks, TickStarts(t)
  PROVE  SchedInv'
<1> USE DEF SchedInv
<1>1. /\ UNCHANGED <<clock, world, entries, batch, manual, history, bounds>>
      /\ lastTickAt' \in Instants
  BY DEF TickStarts, SchedTypes, Instants
<1>2. CASE UNCHANGED tick
  BY <1>1, <1>2 DEF SchedTypes, HolderInv, SeenInv, DueInv, RanInv, CountInv, SteadyInv, Known, Due, Happened,
                    world, entries, history, bounds
<1> DEFINE new == [Off EXCEPT !.pc = "acquiring", !.now = clock, !.seen = repo, !.armed = armed]
<1>3. CASE tick' = [tick EXCEPT ![t] = new]
  <2>1. /\ new \in TickStates /\ new.pc = "acquiring" /\ new.now = clock /\ new.seen = repo /\ new.armed = armed
        /\ \A s \in Schedules : new.due[s] = NoTime /\ new.attempt[s] = NoTime
    <3>1. clock \in Instants /\ repo \in [Schedules -> Presence] /\ armed \in [Schedules -> Instants]
      BY DEF SchedTypes, Instants
    <3> QED BY <3>1, OffFacts DEF TickStates, Steps
  <2> HIDE DEF new
  <2>2. /\ tick' \in [Ticks -> TickStates] /\ tick'[t] = new /\ Due(t)' = {}
        /\ \A u \in Ticks \ {t} : tick'[u] = tick[u] /\ Due(u)' = Due(u)
    BY <1>3, <2>1, TickFacts
  <2>3. SchedTypes'
    BY <1>1, <2>1, <2>2 DEF SchedTypes, world, entries, history
  <2>4. HolderInv' /\ SeenInv'
    BY <1>1, <2>1, <2>2 DEF HolderInv, SeenInv, world
  <2>5. DueInv' /\ RanInv' /\ CountInv'
    BY <1>1, <2>1, <2>2 DEF DueInv, RanInv, CountInv, Known, world, entries, history
  <2>6. SteadyInv'
    <3>1. \A s \in Schedules : NoTime <= clock /\ armed[s] <= armed[s] /\ clock <= clock
      <4>1. clock \in Times /\ clock \in Int /\ NoTime < clock /\ NoTime \in Int
        BY InstantFacts DEF SchedTypes, Instants
      <4>2. \A s \in Schedules : armed[s] \in Int
        BY InstantFacts DEF SchedTypes
      <4> QED BY <4>1, <4>2
    <3> QED BY <1>1, <2>1, <2>2, <3>1 DEF SteadyInv, Happened, world, entries, history, bounds
  <2> QED BY <2>3, <2>4, <2>5, <2>6
<1> QED BY <1>2, <1>3 DEF TickStarts

LEMMA TurnsStep ==
  ASSUME SchedInv, NEW t \in Ticks, TryAcquire(t) \/ Release(t)
  PROVE  SchedInv'
<1> USE SchedulerAssumption DEF SchedInv
<1>1. UNCHANGED <<clock, world, state, manual, history, bounds>>
  BY DEF TryAcquire, Release
<1>2. /\ \A e \in events' : <<e[1], 0>> \in events'
      /\ Happened("setBack") => Happened("setBack")'
  BY <1>1 DEF SteadyInv, bounds, Happened
<1>3. CASE TryAcquire(t) /\ batch = "free"
  <2>1. tick[t].pc = "acquiring" /\ batch' = t /\ Move(t, "judging")
    BY <1>3 DEF TryAcquire
  <2>2. HolderInv'
    BY <1>3, <2>1, MoveFacts DEF HolderInv, Steps
  <2> QED BY <1>1, <2>1, <2>2, MoveStep DEF Steps
<1>4. CASE TryAcquire(t) /\ batch # "free"
  <2>1. tick' = [tick EXCEPT ![t] = Off] /\ UNCHANGED batch
    BY <1>4 DEF TryAcquire
  <2>2. HolderInv'
    BY <2>1, OffFacts, TickFacts DEF HolderInv
  <2> QED BY <1>1, <1>2, <2>1, <2>2, OffStep DEF SchedTypes
<1>5. CASE Release(t)
  <2>1. tick[t].pc = "releasing" /\ tick' = [tick EXCEPT ![t] = Off] /\ batch' = "free"
    BY <1>5 DEF Release
  <2>2. HolderInv'
    BY <2>1, OffFacts, TickFacts DEF HolderInv
  <2> QED BY <1>1, <1>2, <2>1, <2>2, OffStep
<1> QED BY <1>3, <1>4, <1>5

LEMMA DeathStep ==
  ASSUME SchedInv, NEW t \in Ticks, Crash(t) \/ Exit(t)
  PROVE  SchedInv'
<1> USE DEF SchedInv
<1>1. /\ tick' = [tick EXCEPT ![t] = Off] /\ batch' = IF batch = t THEN "free" ELSE batch
      /\ UNCHANGED <<clock, world, state, manual, history>>
  BY DEF Crash, Exit, Dies
<1>2. HolderInv'
  BY <1>1, OffFacts, TickFacts DEF HolderInv
<1>3. /\ \A e \in events' : <<e[1], 0>> \in events'
      /\ Happened("setBack") => Happened("setBack")'
  <2>1. CASE Crash(t)
    BY <2>1, EventFacts DEF Crash
  <2>2. CASE Exit(t)
    BY <2>2 DEF Exit, SteadyInv, bounds, Happened
  <2> QED BY <2>1, <2>2
<1> QED BY <1>1, <1>2, <1>3, OffStep DEF SchedTypes

LEMMA ResolveStep ==
  ASSUME SchedInv, NEW t \in Ticks, Resolve(t)
  PROVE  SchedInv'
<1> USE DEF SchedInv
<1>1. PICK step \in {"running", "hung"} : Move(t, step)
  BY DEF Resolve
<1>2. tick[t].pc = "scanning" /\ UNCHANGED <<clock, world, state, batch, manual, history, bounds>>
  BY DEF Resolve
<1>3. HolderInv'
  BY <1>1, <1>2, MoveFacts DEF HolderInv, Steps
<1> QED BY <1>1, <1>2, <1>3, MoveStep DEF SchedTypes, Steps

-----------------------------------------------------------------------------
(* A tick takes what is due.                                               *)

\* s has just been recorded as missed.
IsMissed(t, s) == s \in Runnable(t) /\ Verdict(t, s).kind = "missed"
IsDue(t, s)    == s \in Runnable(t) /\ Verdict(t, s).kind = "due"

\* The due rule, of the schedules as a judging tick knows them.
LEMMA VerdictFacts ==
  ASSUME SchedInv, NEW t \in Ticks, tick[t].pc = "judging", NEW s \in Schedules
  PROVE  LET v == Verdict(t, s)
         IN /\ v.kind \in Kinds
            /\ v.kind # "not-due" =>
                 /\ v.occurrence \in FiringsOf[s] /\ v.occurrence \in Times
                 /\ attempt[s] < v.occurrence /\ v.occurrence <= tick[t].now
            /\ \A f \in FiringsOf[s] : f <= tick[t].now /\ tick[t].armed[s] < f /\ attempt[s] < f => v.kind # "not-due"
<1>1. /\ tick[t].now \in Times /\ tick[t].armed[s] \in Instants /\ attempt[s] \in Instants
      /\ FiringsOf[s] \in SUBSET Times
  BY InstantFacts DEF SchedInv, SchedTypes, TickStates
<1> DEFINE catchUp == s \in CatchUp
<1>2. catchUp \in BOOLEAN
  OBVIOUS
<1>3. Verdict(t, s) = EvaluateDue(FiringsOf[s], tick[t].armed[s], attempt[s], catchUp, tick[t].now)
  BY DEF Verdict
<1> HIDE DEF catchUp
<1> QED BY <1>1, <1>2, <1>3, DueFacts

LEMMA TakeDueFacts ==
  ASSUME SchedInv, NEW t \in Ticks, TakeDue(t)
  PROVE  /\ attempt' \in [Schedules -> Instants] /\ lastRun' \in [Schedules -> Records]
         /\ ran' \in [Schedules -> SUBSET Times] /\ reached' \in [Schedules -> SUBSET Times]
         /\ tick' \in [Ticks -> TickStates]
         /\ tick'[t].pc \in {"consuming", "releasing"} /\ tick'[t].armed = Never
         /\ tick'[t].now = tick[t].now /\ tick'[t].seen = tick[t].seen /\ tick'[t].attempt = tick[t].attempt
         /\ \A u \in Ticks \ {t} : tick'[u] = tick[u] /\ Due(u)' = Due(u)
         /\ \A s \in Schedules :
              /\ tick'[t].due[s] = IF IsDue(t, s) THEN Verdict(t, s).occurrence ELSE NoTime
              /\ attempt'[s] = IF IsMissed(t, s) THEN tick[t].now ELSE attempt[s]
              /\ lastRun'[s] = IF IsMissed(t, s) THEN "missed" ELSE lastRun[s]
              /\ ran'[s] = IF IsMissed(t, s) THEN ran[s] \cup {Verdict(t, s).occurrence} ELSE ran[s]
              /\ reached'[s] = IF IsMissed(t, s) THEN {f \in reached[s] : f > tick[t].now} ELSE reached[s]
<1> DEFINE due == [s \in Schedules |-> IF IsDue(t, s) THEN Verdict(t, s).occurrence ELSE NoTime]
           pc  == IF \E s \in Schedules : IsDue(t, s) THEN "consuming" ELSE "releasing"
<1>1. tick[t].pc = "judging" /\ tick[t].now \in Times /\ tick[t].now \in Instants
  BY DEF TakeDue, SchedInv, SchedTypes, Instants
<1>2. \A s \in Schedules : Verdict(t, s).kind # "not-due" => Verdict(t, s).occurrence \in Times
  BY <1>1, VerdictFacts
<1>3. /\ attempt' = [s \in Schedules |-> IF IsMissed(t, s) THEN tick[t].now ELSE attempt[s]]
      /\ lastRun' = [s \in Schedules |-> IF IsMissed(t, s) THEN "missed" ELSE lastRun[s]]
      /\ ran' = [s \in Schedules |-> IF IsMissed(t, s) THEN ran[s] \cup {Verdict(t, s).occurrence} ELSE ran[s]]
      /\ reached' = [s \in Schedules |-> IF IsMissed(t, s) THEN {f \in reached[s] : f > tick[t].now} ELSE reached[s]]
  BY DEF TakeDue, Judged, IsMissed, Runnable
<1> DEFINE new == [tick[t] EXCEPT !.due = due, !.pc = pc, !.armed = Never]
<1>4. tick' = [tick EXCEPT ![t] = new]
  BY DEF TakeDue, IsDue
<1>5. due \in [Schedules -> Instants] /\ Never \in [Schedules -> Instants] /\ pc \in {"consuming", "releasing"}
  BY <1>2 DEF IsDue, Instants, Never
<1> HIDE DEF due, pc
<1>6. /\ new \in TickStates
      /\ new.pc = pc /\ new.due = due /\ new.armed = Never
      /\ new.now = tick[t].now /\ new.seen = tick[t].seen /\ new.attempt = tick[t].attempt
  BY <1>5 DEF SchedInv, SchedTypes, TickStates, Steps
<1> HIDE DEF new
<1>7. /\ tick' \in [Ticks -> TickStates] /\ tick'[t] = new
      /\ \A u \in Ticks \ {t} : tick'[u] = tick[u] /\ Due(u)' = Due(u)
  BY <1>4, <1>6, TickFacts DEF SchedInv
<1>8. /\ attempt' \in [Schedules -> Instants] /\ lastRun' \in [Schedules -> Records]
      /\ ran' \in [Schedules -> SUBSET Times] /\ reached' \in [Schedules -> SUBSET Times]
  <2>1. /\ attempt \in [Schedules -> Instants] /\ lastRun \in [Schedules -> Records]
        /\ ran \in [Schedules -> SUBSET Times] /\ reached \in [Schedules -> SUBSET Times]
    BY DEF SchedInv, SchedTypes
  <2>2. \A s \in Schedules : IsMissed(t, s) => Verdict(t, s).occurrence \in Times
    BY <1>2 DEF IsMissed
  <2> QED BY <1>1, <1>3, <2>1, <2>2 DEF Records
<1> QED BY <1>3, <1>5, <1>6, <1>7, <1>8 DEF due

LEMMA TakeDueStep ==
  ASSUME SchedInv, NEW t \in Ticks, TakeDue(t)
  PROVE  SchedInv'
<1> USE InstantFacts DEF SchedInv
<1> DEFINE now == tick[t].now
<1>1. /\ tick[t].pc = "judging" /\ now \in Times /\ now \in Int /\ batch = t
      /\ UNCHANGED <<clock, world, lastTickAt, batch, manual, deferrals, givenBack, bounds>>
  <2>1. /\ tick[t].pc = "judging"
        /\ UNCHANGED <<clock, world, lastTickAt, batch, manual, deferrals, givenBack, bounds>>
    BY DEF TakeDue
  <2>2. now \in Times /\ batch = t
    BY <2>1 DEF SchedTypes, HolderInv
  <2> QED BY <2>1, <2>2
<1> HIDE DEF now
<1>2. \A s \in Schedules : IsMissed(t, s) \/ IsDue(t, s) =>
        /\ Verdict(t, s).occurrence \in FiringsOf[s] /\ Verdict(t, s).occurrence \in Int
        /\ attempt[s] < Verdict(t, s).occurrence /\ Verdict(t, s).occurrence <= now
  <2> SUFFICES ASSUME NEW s \in Schedules, Verdict(t, s).kind # "not-due"
               PROVE  /\ Verdict(t, s).occurrence \in FiringsOf[s] /\ Verdict(t, s).occurrence \in Int
                      /\ attempt[s] < Verdict(t, s).occurrence /\ Verdict(t, s).occurrence <= now
    BY DEF IsMissed, IsDue
  <2>1. /\ Verdict(t, s).occurrence \in FiringsOf[s] /\ Verdict(t, s).occurrence \in Times
        /\ attempt[s] < Verdict(t, s).occurrence /\ Verdict(t, s).occurrence <= now
    BY <1>1, VerdictFacts DEF now
  <2> QED BY <2>1
<1>3. \A u \in Ticks : tick'[u].pc = "scanning" => FALSE
  BY <1>1, TakeDueFacts DEF HolderInv
<1>4. \A s \in Schedules : attempt[s] \in Int /\ (IsMissed(t, s) => attempt[s] < now)
  <2>1. \A s \in Schedules : attempt[s] \in Int
    BY DEF SchedTypes
  <2> QED BY <1>1, <1>2, <2>1
<1>5. SchedTypes'
  <2>1. \A s \in Schedules : reached'[s] \subseteq FiringsOf[s]
    BY TakeDueFacts DEF SchedTypes
  <2>2. \A u \in Ticks : tick'[u].pc # "off" => tick'[u].now \in Times
    BY <1>1, TakeDueFacts DEF SchedTypes, now
  <2>3. \A u \in Ticks : \A s \in Due(u)' : tick'[u].due[s] \in FiringsOf[s] /\ tick'[u].due[s] <= tick'[u].now
    <3>1. ASSUME NEW s \in Due(t)' PROVE tick'[t].due[s] \in FiringsOf[s] /\ tick'[t].due[s] <= now
      BY <1>2, TakeDueFacts DEF Due, now
    <3> QED BY <3>1, TakeDueFacts DEF SchedTypes, now
  <2> QED BY <1>1, <2>1, <2>2, <2>3, TakeDueFacts DEF SchedTypes, world
<1>6. HolderInv' /\ SeenInv'
  BY <1>1, TakeDueFacts DEF HolderInv, SeenInv, world
<1>7. DueInv'
  <2>1. ASSUME NEW s \in Due(t)' PROVE attempt'[s] < tick'[t].due[s]
    <3>1. s \in Schedules /\ IsDue(t, s) /\ ~IsMissed(t, s)
      BY <2>1, TakeDueFacts DEF Due, IsDue, IsMissed
    <3> QED BY <1>2, <3>1, TakeDueFacts
  <2>2. \A u \in Ticks \ {t} : tick'[u].pc # "consuming"
    BY <1>1, TakeDueFacts DEF HolderInv
  <2> QED BY <1>3, <2>1, <2>2 DEF DueInv
<1>8. RanInv'
  <2> SUFFICES ASSUME NEW s \in Schedules, Known(s), NEW f \in ran'[s] PROVE f <= attempt'[s]
    BY <1>1, <1>3 DEF RanInv, Known, world
  <2>1. CASE ~IsMissed(t, s)
    BY <2>1, TakeDueFacts DEF RanInv
  <2>2. CASE IsMissed(t, s) /\ f \in ran[s]
    <3>1. f \in Int /\ f <= attempt[s]
      BY <2>2 DEF RanInv, SchedTypes
    <3>2. attempt'[s] = now /\ attempt[s] < now /\ attempt[s] \in Int
      BY <1>4, <2>2, TakeDueFacts DEF now
    <3> QED BY <1>1, <3>1, <3>2
  <2>3. CASE IsMissed(t, s) /\ f = Verdict(t, s).occurrence
    BY <1>2, <2>3, TakeDueFacts DEF now
  <2>4. ran'[s] = IF IsMissed(t, s) THEN ran[s] \cup {Verdict(t, s).occurrence} ELSE ran[s]
    BY TakeDueFacts
  <2> QED BY <2>1, <2>2, <2>3, <2>4
<1>9. CountInv'
  BY <1>1 DEF CountInv, Known, world
<1>10. SteadyInv'
  <2> SUFFICES ASSUME ~Happened("setBack"), NEW s \in Schedules
               PROVE  /\ attempt'[s] <= clock
                      /\ \A f \in reached'[s] : armed[s] < f /\ attempt'[s] < f
                      /\ \A u \in Ticks : tick'[u].pc # "off" =>
                           /\ tick'[u].now <= clock /\ tick'[u].armed[s] <= armed[s] /\ tick'[u].attempt[s] <= clock
    BY <1>1 DEF SteadyInv, Happened, world, bounds
  <2>1. now <= clock
    BY <1>1 DEF SteadyInv, now
  <2>2. \A f \in reached'[s] : f \in reached[s] /\ (IsMissed(t, s) => f > now) /\ f \in Int
    <3>1. \A f \in reached'[s] : f \in reached[s] /\ (IsMissed(t, s) => f > now)
      BY TakeDueFacts DEF now
    <3>2. reached[s] \subseteq Times
      BY DEF SchedTypes
    <3> QED BY <3>1, <3>2
  <2>3. Never[s] <= armed[s]
    BY DEF SchedTypes, Instants, Never, NoTime, Times
  <2>4. attempt'[s] <= clock /\ \A f \in reached'[s] : armed[s] < f /\ attempt'[s] < f
    <3>1. attempt'[s] = IF IsMissed(t, s) THEN now ELSE attempt[s]
      BY TakeDueFacts DEF now
    <3> QED BY <1>1, <2>1, <2>2, <3>1 DEF SteadyInv
  <2>5. ASSUME NEW u \in Ticks, tick'[u].pc # "off"
        PROVE  tick'[u].now <= clock /\ tick'[u].armed[s] <= armed[s] /\ tick'[u].attempt[s] <= clock
    <3>1. CASE u = t
      BY <1>1, <2>1, <2>3, <3>1, TakeDueFacts DEF SteadyInv, now
    <3>2. CASE u # t
      BY <2>5, <3>2, TakeDueFacts DEF SteadyInv
    <3> QED BY <3>1, <3>2
  <2> QED BY <2>4, <2>5
<1> QED BY <1>5, <1>6, <1>7, <1>8, <1>9, <1>10

\* The facts about the tick that holds the batch.
LEMMA HolderFacts ==
  ASSUME SchedInv, NEW t \in Ticks, tick[t].pc \notin {"off", "acquiring"}
  PROVE  /\ tick[t].now \in Times /\ tick[t].now \in Int
         /\ \A u \in Ticks \ {t} : tick[u].pc \in {"off", "acquiring"}
         /\ \A s \in Schedules : attempt[s] \in Int /\ tick[t].attempt[s] \in Instants /\ tick[t].attempt[s] \in Int
         /\ \A s \in Due(t) : /\ tick[t].due[s] \in FiringsOf[s] /\ tick[t].due[s] \in Times
                              /\ tick[t].due[s] \in Int /\ tick[t].due[s] <= tick[t].now
<1>1. tick[t].now \in Times /\ tick[t].now \in Int
  BY InstantFacts DEF SchedInv, SchedTypes
<1>2. \A u \in Ticks \ {t} : tick[u].pc \in {"off", "acquiring"}
  BY DEF SchedInv, HolderInv
<1>3. \A s \in Schedules : attempt[s] \in Int /\ tick[t].attempt[s] \in Instants /\ tick[t].attempt[s] \in Int
  <2>1. \A s \in Schedules : attempt[s] \in Instants /\ tick[t].attempt[s] \in Instants
    BY DEF SchedInv, SchedTypes, TickStates
  <2>2. \A i \in Instants : i \in Int
    BY InstantFacts
  <2> QED BY <2>1, <2>2
<1>4. \A s \in Due(t) : tick[t].due[s] \in FiringsOf[s] /\ tick[t].due[s] <= tick[t].now /\ s \in Schedules
  BY DEF SchedInv, SchedTypes, Due
<1> QED BY <1>1, <1>2, <1>3, <1>4, InstantFacts

LEMMA ConsumeStep ==
  ASSUME SchedInv, NEW t \in Ticks, Consume(t)
  PROVE  SchedInv'
<1> USE DEF SchedInv
<1> DEFINE new == [tick[t] EXCEPT !.pc = "scanning", !.attempt = attempt, !.deferrals = deferrals]
           now == tick[t].now
<1>1. /\ tick[t].pc = "consuming" /\ tick' = [tick EXCEPT ![t] = new]
      /\ UNCHANGED <<clock, world, lastTickAt, batch, manual, deferrals, lastRun, givenBack, bounds>>
  BY DEF Consume
<1>2. \A s \in Schedules :
        /\ attempt'[s] = IF s \in Due(t) THEN now ELSE attempt[s]
        /\ ran'[s] = IF s \in Due(t) THEN ran[s] \cup {tick[t].due[s]} ELSE ran[s]
        /\ reached'[s] = IF s \in Due(t) THEN {f \in reached[s] : f > now} ELSE reached[s]
  BY DEF Consume, Judged
<1>3. /\ new \in TickStates /\ new.pc = "scanning" /\ new.now = now /\ new.seen = tick[t].seen
      /\ new.armed = tick[t].armed /\ new.due = tick[t].due /\ new.attempt = attempt /\ new.deferrals = deferrals
  BY DEF SchedTypes, TickStates, Steps
<1> HIDE DEF new
<1>4. /\ tick' \in [Ticks -> TickStates] /\ tick'[t] = new
      /\ \A u \in Ticks \ {t} : tick'[u] = tick[u] /\ Due(u)' = Due(u)
      /\ Due(t)' = Due(t)
  <2>1. tick' \in [Ticks -> TickStates] /\ tick'[t] = new
        /\ \A u \in Ticks \ {t} : tick'[u] = tick[u] /\ Due(u)' = Due(u)
    BY <1>1, <1>3, TickFacts
  <2> QED BY <1>3, <2>1 DEF Due
<1>5. /\ now \in Times /\ now \in Int
      /\ \A u \in Ticks \ {t} : tick[u].pc \in {"off", "acquiring"}
      /\ \A s \in Schedules : attempt[s] \in Int
      /\ \A s \in Due(t) : /\ tick[t].due[s] \in Times /\ tick[t].due[s] \in Int /\ tick[t].due[s] <= now
                           /\ attempt[s] < tick[t].due[s]
  BY <1>1, HolderFacts DEF DueInv
<1>6. SchedTypes'
  <2>1. /\ attempt' \in [Schedules -> Instants]
        /\ ran' \in [Schedules -> SUBSET Times]
        /\ reached' \in [Schedules -> SUBSET Times] /\ \A s \in Schedules : reached'[s] \subseteq FiringsOf[s]
    <3>1. now \in Instants /\ \A s \in Due(t) : tick[t].due[s] \in Times
      BY <1>5 DEF Instants
    <3>2. attempt' \in [Schedules -> Instants]
      BY <3>1 DEF Consume, SchedTypes
    <3>3. ran' \in [Schedules -> SUBSET Times]
      BY <3>1 DEF Consume, SchedTypes
    <3>4. reached' \in [Schedules -> SUBSET Times]
      BY DEF Consume, Judged, SchedTypes
    <3> QED BY <1>2, <3>2, <3>3, <3>4 DEF SchedTypes
  <2> QED BY <1>1, <1>3, <1>4, <1>5, <2>1 DEF SchedTypes, world
<1>7. HolderInv' /\ SeenInv'
  BY <1>1, <1>3, <1>4 DEF HolderInv, SeenInv, world
<1>8. DueInv'
  <2>1. ASSUME NEW s \in Due(t) PROVE attempt[s] < tick[t].due[s] /\ tick[t].due[s] <= attempt'[s]
    BY <1>2, <1>5 DEF Due
  <2>2. \A u \in Ticks \ {t} : tick'[u].pc \notin {"consuming", "scanning"}
    BY <1>4, <1>5
  <2> QED BY <1>1, <1>3, <1>4, <2>1, <2>2 DEF DueInv
<1>9. RanInv'
  <2> SUFFICES ASSUME NEW s \in Schedules, Known(s), NEW f \in ran'[s]
               PROVE  /\ f <= attempt'[s]
                      /\ s \in Due(t) /\ f # tick[t].due[s] => f <= attempt[s]
    <3>1. \A u \in Ticks : tick'[u].pc = "scanning" => u = t
      BY <1>4, <1>5
    <3> QED BY <1>1, <1>3, <1>4, <3>1 DEF RanInv, Known, world
  <2>1. CASE f \in ran[s]
    <3>1. f <= attempt[s] /\ f \in Int
      BY <2>1, InstantFacts DEF RanInv, SchedTypes
    <3>2. CASE s \in Due(t)
      <4>1. attempt'[s] = now
        BY <1>2, <3>2
      <4>2. attempt[s] < tick[t].due[s] /\ tick[t].due[s] <= now /\ tick[t].due[s] \in Int /\ attempt[s] \in Int
        BY <1>5, <3>2
      <4> HIDE DEF now
      <4> QED BY <1>5, <3>1, <4>1, <4>2
    <3>3. CASE s \notin Due(t)
      BY <1>2, <3>1, <3>3
    <3> QED BY <3>2, <3>3
  <2>2. CASE s \in Due(t) /\ f = tick[t].due[s]
    BY <1>2, <1>5, <2>2
  <2> QED BY <1>2, <2>1, <2>2
<1>10. CountInv'
  BY <1>1 DEF CountInv, Known, world
<1>11. SteadyInv'
  <2> SUFFICES ASSUME ~Happened("setBack"), NEW s \in Schedules
               PROVE  /\ attempt'[s] <= clock
                      /\ \A f \in reached'[s] : armed[s] < f /\ attempt'[s] < f
                      /\ \A u \in Ticks : tick'[u].pc # "off" =>
                           /\ tick'[u].now <= clock /\ tick'[u].armed[s] <= armed[s] /\ tick'[u].attempt[s] <= clock
    BY <1>1 DEF SteadyInv, Happened, world, bounds
  <2>1. now <= clock
    BY <1>1 DEF SteadyInv
  <2>2. \A f \in reached'[s] : f \in reached[s] /\ (s \in Due(t) => f > now) /\ f \in Int
    <3>1. reached[s] \subseteq Times
      BY DEF SchedTypes
    <3> QED BY <1>2, <3>1, InstantFacts
  <2>3. attempt'[s] <= clock /\ \A f \in reached'[s] : armed[s] < f /\ attempt'[s] < f
    BY <1>2, <1>5, <2>1, <2>2 DEF SteadyInv
  <2>4. ASSUME NEW u \in Ticks, tick'[u].pc # "off"
        PROVE  tick'[u].now <= clock /\ tick'[u].armed[s] <= armed[s] /\ tick'[u].attempt[s] <= clock
    <3>1. CASE u = t
      BY <1>1, <1>3, <1>4, <2>1, <3>1 DEF SteadyInv
    <3>2. CASE u # t
      BY <1>4, <2>4, <3>2 DEF SteadyInv
    <3> QED BY <3>1, <3>2
  <2> QED BY <2>3, <2>4
<1> QED BY <1>6, <1>7, <1>8, <1>9, <1>10, <1>11

\* A tick whose scan failed gives back what it may.
LEMMA DeferFacts ==
  ASSUME SchedInv, NEW t \in Ticks, Defer(t)
  PROVE  /\ tick' \in [Ticks -> TickStates]
         /\ tick'[t].pc \in {"releasing", "offline"} /\ tick'[t].now = tick[t].now
         /\ tick'[t].seen = tick[t].seen /\ tick'[t].armed = tick[t].armed /\ tick'[t].attempt = tick[t].attempt
         /\ \A u \in Ticks \ {t} : tick'[u] = tick[u] /\ Due(u)' = Due(u)
         /\ \A s \in Schedules :
              /\ tick'[t].due[s] = IF s \in Exhausted(t) THEN tick[t].due[s] ELSE NoTime
              /\ attempt'[s] = IF s \in Postponed(t) THEN tick[t].attempt[s] ELSE attempt[s]
              /\ deferrals'[s] = IF s \in Postponed(t) THEN tick[t].deferrals[s] + 1 ELSE deferrals[s]
              /\ ran'[s] = IF s \in Postponed(t) THEN ran[s] \ {tick[t].due[s]} ELSE ran[s]
              /\ givenBack'[s] = IF s \in Postponed(t) THEN givenBack[s] + 1 ELSE givenBack[s]
              /\ \A f \in reached'[s] :
                   \/ f \in reached[s]
                   \/ s \in Postponed(t) /\ f = tick[t].due[s] /\ armed[s] < f
<1> DEFINE due == [s \in Schedules |-> IF s \in Exhausted(t) THEN tick[t].due[s] ELSE NoTime]
           pc  == IF Exhausted(t) = {} THEN "releasing" ELSE "offline"
           new == [tick[t] EXCEPT !.due = due, !.pc = pc]
<1>1. tick' = [tick EXCEPT ![t] = new]
  BY DEF Defer
<1>2. due \in [Schedules -> Instants] /\ pc \in {"releasing", "offline"}
  BY DEF SchedInv, SchedTypes, TickStates, Instants
<1> HIDE DEF due, pc
<1>3. /\ new \in TickStates /\ new.pc = pc /\ new.due = due /\ new.armed = tick[t].armed
      /\ new.now = tick[t].now /\ new.seen = tick[t].seen /\ new.attempt = tick[t].attempt
  BY <1>2 DEF SchedInv, SchedTypes, TickStates, Steps
<1> HIDE DEF new
<1>4. /\ tick' \in [Ticks -> TickStates] /\ tick'[t] = new
      /\ \A u \in Ticks \ {t} : tick'[u] = tick[u] /\ Due(u)' = Due(u)
  BY <1>1, <1>3, TickFacts DEF SchedInv
<1>5. ASSUME NEW s \in Schedules
      PROVE  /\ attempt'[s] = IF s \in Postponed(t) THEN tick[t].attempt[s] ELSE attempt[s]
             /\ deferrals'[s] = IF s \in Postponed(t) THEN tick[t].deferrals[s] + 1 ELSE deferrals[s]
             /\ ran'[s] = IF s \in Postponed(t) THEN ran[s] \ {tick[t].due[s]} ELSE ran[s]
             /\ givenBack'[s] = IF s \in Postponed(t) THEN givenBack[s] + 1 ELSE givenBack[s]
             /\ \A f \in reached'[s] :
                  \/ f \in reached[s]
                  \/ s \in Postponed(t) /\ f = tick[t].due[s] /\ armed[s] < f
  BY DEF Defer, Postpone
<1> QED BY <1>2, <1>3, <1>4, <1>5 DEF due

LEMMA DeferStep ==
  ASSUME SchedInv, NEW t \in Ticks, Defer(t)
  PROVE  SchedInv'
<1> USE DEF SchedInv
<1>1. /\ tick[t].pc = "scanning"
      /\ UNCHANGED <<clock, world, lastTickAt, batch, manual, lastRun, bounds>>
  BY DEF Defer, Postpone
<1>2. /\ \A u \in Ticks \ {t} : tick[u].pc \in {"off", "acquiring"}
      /\ \A s \in Schedules : attempt[s] \in Int /\ tick[t].attempt[s] \in Instants /\ tick[t].attempt[s] \in Int
      /\ \A s \in Due(t) : /\ tick[t].due[s] \in FiringsOf[s] /\ tick[t].due[s] \in Times /\ tick[t].due[s] \in Int
                           /\ tick[t].attempt[s] < tick[t].due[s] /\ tick[t].due[s] <= attempt[s]
                           /\ tick[t].deferrals[s] = deferrals[s]
  BY <1>1, HolderFacts DEF DueInv
<1>3. Postponed(t) \subseteq Due(t) /\ Exhausted(t) \subseteq Due(t) /\ Due(t) \subseteq Schedules
  BY DEF Postponed, Exhausted, Due
<1>4. \A s \in Postponed(t) : deferrals[s] + 1 \in 0..MaxDeferrals
  <2> SUFFICES ASSUME NEW s \in Postponed(t) PROVE deferrals[s] + 1 \in 0..MaxDeferrals
    OBVIOUS
  <2>1. deferrals[s] \in 0..MaxDeferrals /\ MaxDeferrals \in Nat
    BY <1>3, SchedulerAssumption DEF SchedTypes
  <2>2. ~(deferrals[s] >= MaxDeferrals)
    BY <1>2 DEF Postponed, Exhausted
  <2> QED BY <2>1, <2>2
<1>5. SchedTypes'
  <2>1. attempt' \in [Schedules -> Instants]
    BY <1>2 DEF Defer, Postpone, SchedTypes
  <2>2. deferrals' \in [Schedules -> 0..MaxDeferrals]
    <3>1. \A s \in Postponed(t) : tick[t].deferrals[s] + 1 \in 0..MaxDeferrals
      BY <1>2, <1>3, <1>4
    <3> QED BY <3>1 DEF Defer, Postpone, SchedTypes
  <2>3. ran' \in [Schedules -> SUBSET Times] /\ givenBack' \in [Schedules -> Nat]
    BY DEF Defer, SchedTypes
  <2>4. reached' \in [Schedules -> SUBSET Times] /\ \A s \in Schedules : reached'[s] \subseteq FiringsOf[s]
    <3>1. ASSUME NEW s \in Schedules, NEW f \in reached'[s] PROVE f \in Times /\ f \in FiringsOf[s]
      <4>1. CASE f \in reached[s]
        BY <4>1 DEF SchedTypes
      <4>2. CASE s \in Postponed(t) /\ f = tick[t].due[s]
        BY <1>2, <1>3, <4>2
      <4> HIDE DEF SchedInv
      <4> QED BY <3>1, <4>1, <4>2, DeferFacts
    <3>2. reached' = [s \in Schedules |-> reached'[s]]
      BY DEF Defer
    <3> HIDE DEF SchedInv
    <3> QED BY <3>1, <3>2
  <2>5. \A u \in Ticks : tick'[u].pc # "off" => tick'[u].now \in Times
    BY <1>1, DeferFacts DEF SchedTypes
  <2>6. \A u \in Ticks : \A s \in Due(u)' : tick'[u].due[s] \in FiringsOf[s] /\ tick'[u].due[s] <= tick'[u].now
    <3>1. ASSUME NEW s \in Due(t)' PROVE tick'[t].due[s] \in FiringsOf[s] /\ tick'[t].due[s] <= tick[t].now
      <4>1. s \in Due(t) /\ tick'[t].due[s] = tick[t].due[s]
        BY <1>3, <3>1, DeferFacts DEF Due
      <4> QED BY <4>1 DEF SchedTypes
    <3> QED BY <3>1, DeferFacts DEF SchedTypes
  <2> QED BY <1>1, <2>1, <2>2, <2>3, <2>4, <2>5, <2>6, DeferFacts DEF SchedTypes, world
<1>6. HolderInv' /\ SeenInv'
  BY <1>1, DeferFacts DEF HolderInv, SeenInv, world
<1>7. \A u \in Ticks : tick'[u].pc \notin {"consuming", "scanning"}
  BY <1>2, DeferFacts
<1>8. DueInv'
  BY <1>7 DEF DueInv
<1>9. RanInv'
  <2> SUFFICES ASSUME NEW s \in Schedules, Known(s), NEW f \in ran'[s] PROVE f <= attempt'[s]
    BY <1>1, <1>7 DEF RanInv, Known, world
  <2>1. CASE s \in Postponed(t)
    <3>1. f \in ran[s] \ {tick[t].due[s]} /\ attempt'[s] = tick[t].attempt[s]
      BY <2>1, DeferFacts
    <3> QED BY <1>1, <1>3, <2>1, <3>1 DEF RanInv
  <2>2. CASE s \notin Postponed(t)
    BY <2>2, DeferFacts DEF RanInv
  <2> QED BY <2>1, <2>2
<1>10. CountInv'
  <2> SUFFICES ASSUME NEW s \in Schedules, Known(s) PROVE givenBack'[s] = deferrals'[s]
    BY <1>1 DEF CountInv, Known, world
  <2>1. givenBack[s] = deferrals[s] /\ (s \in Postponed(t) => tick[t].deferrals[s] = deferrals[s])
    BY <1>2, <1>3 DEF CountInv
  <2>2. /\ deferrals'[s] = IF s \in Postponed(t) THEN tick[t].deferrals[s] + 1 ELSE deferrals[s]
        /\ givenBack'[s] = IF s \in Postponed(t) THEN givenBack[s] + 1 ELSE givenBack[s]
    <3> HIDE DEF SchedInv
    <3> QED BY DeferFacts
  <2> QED BY <2>1, <2>2
<1>11. SteadyInv'
  <2> SUFFICES ASSUME ~Happened("setBack"), NEW s \in Schedules
               PROVE  /\ attempt'[s] <= clock
                      /\ \A f \in reached'[s] : armed[s] < f /\ attempt'[s] < f
                      /\ \A u \in Ticks : tick'[u].pc # "off" =>
                           /\ tick'[u].now <= clock /\ tick'[u].armed[s] <= armed[s] /\ tick'[u].attempt[s] <= clock
    BY <1>1 DEF SteadyInv, Happened, world, bounds
  <2>1. attempt[s] <= clock /\ tick[t].attempt[s] <= clock
    BY <1>1 DEF SteadyInv
  <2>2. attempt'[s] <= clock
    BY <2>1, DeferFacts
  <2>3. ASSUME NEW f \in reached'[s] PROVE armed[s] < f /\ attempt'[s] < f
    <3>1. CASE f \in reached[s] /\ s \notin Postponed(t)
      BY <3>1, DeferFacts DEF SteadyInv
    <3>2. CASE f \in reached[s] /\ s \in Postponed(t)
      <4>1. attempt'[s] = tick[t].attempt[s] /\ armed[s] < f /\ attempt[s] < f
        BY <3>2, DeferFacts DEF SteadyInv
      <4>2. tick[t].attempt[s] < tick[t].due[s] /\ tick[t].due[s] <= attempt[s] /\ tick[t].due[s] \in Int
        BY <1>2, <1>3, <3>2
      <4>3. f \in Int
        BY <3>2, InstantFacts DEF SchedTypes
      <4> QED BY <1>2, <4>1, <4>2, <4>3
    <3>3. CASE s \in Postponed(t) /\ f = tick[t].due[s] /\ armed[s] < f
      <4>1. attempt'[s] = tick[t].attempt[s]
        BY <3>3, DeferFacts
      <4> QED BY <1>2, <1>3, <3>3, <4>1
    <3>4. f \in reached[s] \/ (s \in Postponed(t) /\ f = tick[t].due[s] /\ armed[s] < f)
      <4> HIDE DEF SchedInv
      <4> QED BY <2>3, DeferFacts
    <3> QED BY <3>1, <3>2, <3>3, <3>4
  <2>4. ASSUME NEW u \in Ticks, tick'[u].pc # "off"
        PROVE  tick'[u].now <= clock /\ tick'[u].armed[s] <= armed[s] /\ tick'[u].attempt[s] <= clock
    <3>1. CASE u = t
      BY <1>1, <2>1, <3>1, DeferFacts DEF SteadyInv
    <3>2. CASE u # t
      BY <2>4, <3>2, DeferFacts DEF SteadyInv
    <3> QED BY <3>1, <3>2
  <2> QED BY <2>2, <2>3, <2>4
<1> QED BY <1>5, <1>6, <1>8, <1>9, <1>10, <1>11

\* A tick records its run, and drops the entries of what it did not see.
LEMMA FinishStep ==
  ASSUME SchedInv, NEW t \in Ticks, Finish(t)
  PROVE  SchedInv'
<1> USE DEF SchedInv
<1> DEFINE isLive(s) == s \in LiveIds(t)
<1>1. /\ tick[t].pc \in {"running", "offline"} /\ Move(t, "releasing")
      /\ UNCHANGED <<clock, world, lastTickAt, batch, manual, reached, ran, bounds>>
      /\ \A s \in Schedules :
           /\ attempt'[s] = IF isLive(s) THEN attempt[s] ELSE NoTime
           /\ deferrals'[s] = IF isLive(s) /\ s \notin Due(t) THEN deferrals[s] ELSE 0
           /\ givenBack'[s] = IF s \in Due(t) THEN 0 ELSE givenBack[s]
  BY DEF Finish
<1>2. /\ tick' \in [Ticks -> TickStates]
      /\ tick'[t].pc = "releasing" /\ tick'[t].now = tick[t].now /\ tick'[t].seen = tick[t].seen
      /\ tick'[t].armed = tick[t].armed /\ tick'[t].due = tick[t].due /\ tick'[t].attempt = tick[t].attempt
      /\ \A u \in Ticks \ {t} : tick'[u] = tick[u]
      /\ \A u \in Ticks : Due(u)' = Due(u)
  BY <1>1, MoveFacts DEF Steps
<1>3. \A s \in Schedules : Known(s) => isLive(s)
  BY <1>1 DEF Known, LiveIds, Existing, SeenInv, SchedTypes, TickStates, Presence
<1>4. SchedTypes'
  <2>1. attempt' \in [Schedules -> Instants]
    BY DEF Finish, SchedTypes, Instants
  <2>2. deferrals' \in [Schedules -> 0..MaxDeferrals]
    <3>1. 0 \in 0..MaxDeferrals
      BY SchedulerAssumption
    <3> QED BY <3>1 DEF Finish, SchedTypes
  <2>3. givenBack' \in [Schedules -> Nat]
    BY DEF Finish, SchedTypes
  <2>4. lastRun' \in [Schedules -> Records]
    BY DEF Finish, SchedTypes, Records, RecordOf
  <2> QED BY <1>1, <1>2, <2>1, <2>2, <2>3, <2>4 DEF SchedTypes, world
<1>5. HolderInv' /\ SeenInv'
  BY <1>1, <1>2 DEF HolderInv, SeenInv, world
<1>6. \A u \in Ticks : tick'[u].pc \notin {"consuming", "scanning"}
  BY <1>1, <1>2, HolderFacts
<1>7. DueInv'
  BY <1>6 DEF DueInv
<1>8. RanInv'
  BY <1>1, <1>3, <1>6 DEF RanInv, Known, world
<1>9. CountInv'
  BY <1>1, <1>3 DEF CountInv, Known, world
<1>10. SteadyInv'
  <2> SUFFICES ASSUME ~Happened("setBack"), NEW s \in Schedules
               PROVE  /\ attempt'[s] <= clock
                      /\ \A f \in reached[s] : attempt'[s] < f
    BY <1>1, <1>2 DEF SteadyInv, Happened, world, bounds
  <2>1. clock \in Times /\ reached[s] \subseteq Times
    BY DEF SchedTypes
  <2>2. NoTime <= clock /\ \A f \in reached[s] : NoTime < f
    <3>1. NoTime \in Int /\ clock \in Int /\ NoTime < clock
      BY <2>1, InstantFacts DEF NoTime
    <3>2. NoTime <= clock
      BY <3>1
    <3> QED BY <2>1, <3>2, InstantFacts
  <2> QED BY <1>1, <2>2 DEF SteadyInv
<1> QED BY <1>4, <1>5, <1>7, <1>8, <1>9, <1>10

-----------------------------------------------------------------------------
(* Every step.                                                             *)

LEMMA ActStep ==
  ASSUME SchedInv, NEW t \in Ticks, TickStarts(t) \/ Acts(t) \/ Crash(t)
  PROVE  SchedInv'
BY TickStartsStep, TurnsStep, TakeDueStep, ConsumeStep, ResolveStep, DeferStep, FinishStep, DeathStep DEF Acts

LEMMA SchedStep == SchedInv /\ [Next]_vars => SchedInv'
<1> SUFFICES ASSUME SchedInv, [Next]_vars PROVE SchedInv'
  OBVIOUS
<1>1. CASE UNCHANGED vars
  BY <1>1 DEF SchedInv, SchedTypes, HolderInv, SeenInv, DueInv, RanInv, CountInv, SteadyInv, Known, Due, Happened,
              vars, world, state, entries, history, bounds
<1>2. CASE Next
  BY <1>2, AdvanceStep, SetBackStep, EditsStep, ActStep, ManualStep DEF Next
<1> QED BY <1>1, <1>2

THEOREM SchedInvariant == Spec => []SchedInv
BY SchedStarts, SchedStep, PTL DEF Spec

\* Whoever moved a tick is that tick.
LEMMA OwnMoves ==
  ASSUME SchedTypes, [Next]_vars, NEW t \in Ticks, tick'[t] # tick[t]
  PROVE  TickStarts(t) \/ Acts(t) \/ Crash(t)
<1>1. ASSUME NEW u \in Ticks, u # t PROVE ~(TickStarts(u) \/ Acts(u) \/ Crash(u))
  <2>1. tick \in [Ticks -> TickStates]
    BY DEF SchedTypes
  <2>2. ~TickStarts(u) /\ ~TryAcquire(u) /\ ~TakeDue(u) /\ ~Consume(u) /\ ~Resolve(u)
    BY <1>1, <2>1 DEF TickStarts, TryAcquire, TakeDue, Consume, Resolve, Move
  <2>3. ~Defer(u) /\ ~Finish(u) /\ ~Release(u) /\ ~Exit(u) /\ ~Crash(u)
    BY <1>1, <2>1 DEF Defer, Finish, Release, Exit, Crash, Dies, Move
  <2> QED BY <2>2, <2>3 DEF Acts
<1>2. tick' # tick
  OBVIOUS
<1>3. \E u \in Ticks : TickStarts(u) \/ Acts(u) \/ Crash(u)
  BY <1>2 DEF Next, vars, Advance, SetBack, Create, Enable, Disable, Remove, Retime, Edit,
              ManualStarts, ManualSettles, ManualEnds
<1> QED BY <1>1, <1>3

\* Judging ends with TakeDue, and a failed scan with Defer.
LEMMA Deciders ==
  ASSUME SchedTypes, [Next]_vars, NEW t \in Ticks
  PROVE  /\ tick[t].pc = "judging" /\ tick'[t].pc \in {"consuming", "releasing"} => TakeDue(t)
         /\ tick[t].pc = "scanning" /\ tick'[t].pc \in {"releasing", "offline"} => Defer(t)
<1>1. tick'[t] = Off => tick'[t].pc = "off"
  BY OffFacts
<1>2. tick \in [Ticks -> TickStates]
  BY DEF SchedTypes
<1>3. CASE tick[t].pc = "judging" /\ tick'[t].pc \in {"consuming", "releasing"}
  <2>1. TickStarts(t) \/ Acts(t) \/ Crash(t)
    BY <1>3, OwnMoves
  <2>2. ~Crash(t)
    BY <1>1, <1>2, <1>3 DEF Crash, Dies
  <2> QED BY <1>3, <2>1, <2>2 DEF Acts, TickStarts, TryAcquire, Consume, Resolve, Defer, Finish, Release, Exit
<1>4. CASE tick[t].pc = "scanning" /\ tick'[t].pc \in {"releasing", "offline"}
  <2>1. TickStarts(t) \/ Acts(t) \/ Crash(t)
    BY <1>4, OwnMoves
  <2>2. ~Crash(t)
    BY <1>1, <1>2, <1>4 DEF Crash, Dies
  <2>3. ASSUME Resolve(t) PROVE FALSE
    <3>1. PICK step \in {"running", "hung"} : Move(t, step)
      BY <2>3 DEF Resolve
    <3>2. tick'[t].pc = step
      BY <3>1, MoveFacts DEF Steps
    <3> QED BY <1>4, <3>2
  <2> QED BY <1>4, <2>1, <2>2, <2>3 DEF Acts, TickStarts, TryAcquire, TakeDue, Consume, Finish, Release, Exit
<1> QED BY <1>3, <1>4

-----------------------------------------------------------------------------
(* What is promised.                                                       *)

\* Everything keeps its type, and what a tick took, it took at or before its
\* own time (scheduled-run.ts:85-158, due.ts:34-60).
THEOREM TypeCorrect == Spec => []TypeOK
<1>1. SchedInv => TypeOK
  <2> SUFFICES ASSUME SchedInv PROVE TypeOK
    OBVIOUS
  <2> USE DEF SchedInv, SchedTypes
  <2>1. /\ clock \in Times /\ repo \in [Schedules -> {"absent", "on", "off", "removed"}]
        /\ deferrals \in [Schedules -> 0..MaxDeferrals]
        /\ lastRun \in [Schedules -> {"none", "missed", "ran", "failed", "manual"}]
    BY DEF Presence, Records
  <2>2. /\ armed \in [Schedules -> Times \cup {NoTime}] /\ attempt \in [Schedules -> Times \cup {NoTime}]
        /\ lastTickAt \in Times \cup {NoTime}
    BY DEF Instants
  <2>3. \A t \in Ticks : \A s \in Due(t) : tick[t].due[s] <= tick[t].now
    OBVIOUS
  <2> QED BY <2>1, <2>2, <2>3 DEF TypeOK
<1> QED BY <1>1, SchedInvariant, PTL

\* A tick takes or records as missed only what nobody ran, whatever overlaps
\* it, crashes, is edited or turns the clock back (due.ts:14-15,
\* scheduled-run.ts:24).
THEOREM RunsOnce == Spec => OccurrenceRunsOnce
<1>1. ASSUME SchedInv, [Next]_vars, NEW t \in Ticks, NEW s \in AtFirst, Judges(t), repo[s] # "removed"
      PROVE  /\ tick'[t].due[s] # NoTime => tick'[t].due[s] \notin ran[s]
             /\ lastRun'[s] = "missed" /\ lastRun[s] # "missed" => ran'[s] # ran[s]
  <2>1. s \in Schedules /\ Known(s)
    BY <1>1, SchedulerAssumption DEF Known
  <2>2. TakeDue(t) /\ tick[t].pc = "judging"
    BY <1>1, Deciders DEF Judges, SchedInv
  <2>3. \A f \in ran[s] : f <= attempt[s] /\ f \in Int
    BY <1>1, <2>1, InstantFacts DEF SchedInv, RanInv, SchedTypes
  <2>4. attempt[s] \in Int
    BY <1>1, <2>1, InstantFacts DEF SchedInv, SchedTypes
  <2>5. Verdict(t, s).kind # "not-due" => Verdict(t, s).occurrence \notin ran[s]
    <3>1. Verdict(t, s).kind # "not-due" => attempt[s] < Verdict(t, s).occurrence /\ Verdict(t, s).occurrence \in Times
      BY <1>1, <2>1, <2>2, VerdictFacts
    <3> QED BY <2>3, <2>4, <3>1, InstantFacts
  <2>6. /\ tick'[t].due[s] = IF IsDue(t, s) THEN Verdict(t, s).occurrence ELSE NoTime
        /\ lastRun'[s] = IF IsMissed(t, s) THEN "missed" ELSE lastRun[s]
        /\ ran'[s] = IF IsMissed(t, s) THEN ran[s] \cup {Verdict(t, s).occurrence} ELSE ran[s]
    BY <1>1, <2>1, <2>2, TakeDueFacts
  <2> QED BY <2>5, <2>6 DEF IsDue, IsMissed
<1>2. SchedInv /\ [Next]_vars =>
        \A t \in Ticks, s \in AtFirst : Judges(t) /\ repo[s] # "removed" =>
          /\ tick[t].due[s]' # NoTime => tick[t].due[s]' \notin ran[s]
          /\ lastRun'[s] = "missed" /\ lastRun[s] # "missed" => ran'[s] # ran[s]
  BY <1>1
<1>3. SchedInv /\ [Next]_vars => [\A t \in Ticks, s \in AtFirst : Judges(t) /\ repo[s] # "removed" =>
          /\ tick[t].due[s]' # NoTime => tick[t].due[s]' \notin ran[s]
          /\ lastRun'[s] = "missed" /\ lastRun[s] # "missed" => ran'[s] # ran[s]]_vars
  BY <1>2
<1> QED BY <1>3, SchedInvariant, PTL DEF Spec, OccurrenceRunsOnce

\* While the clock is never set back, a tick takes, or records as missed,
\* every occurrence that passed since its schedule was armed and last
\* attempted (due.ts:34-60, scheduled-run.ts:131-150).
THEOREM NoneIsPassedOver == Spec => NoneIsPassedOverByASteadyClock
<1>1. ASSUME SchedInv, [Next]_vars, NEW t \in Ticks, NEW s \in Schedules, ~Happened("setBack"), PassesOver(t, s)
      PROVE  FALSE
  <2>1. TakeDue(t) /\ tick[t].pc = "judging" /\ s \in Runnable(t)
    BY <1>1, Deciders DEF PassesOver, IsOwed, Judges, SchedInv
  <2>2. PICK f \in reached[s] : f <= tick[t].now
    BY <1>1 DEF PassesOver, IsOwed
  <2>3. f \in FiringsOf[s] /\ f \in Int /\ armed[s] \in Int /\ tick[t].armed[s] \in Int
    <3>1. f \in FiringsOf[s] /\ f \in Int
      BY InstantFacts, <1>1 DEF SchedInv, SchedTypes
    <3>2. armed[s] \in Instants /\ tick[t].armed[s] \in Instants
      BY <1>1 DEF SchedInv, SchedTypes, TickStates
    <3>3. \A i \in Instants : i \in Int
      BY InstantFacts
    <3> QED BY <3>1, <3>2, <3>3
  <2>4. armed[s] < f /\ attempt[s] < f /\ tick[t].armed[s] <= armed[s]
    BY <1>1, <2>1 DEF SchedInv, SteadyInv
  <2>5. tick[t].armed[s] < f
    BY <2>3, <2>4
  <2>6. Verdict(t, s).kind \in {"due", "missed"}
    BY <1>1, <2>1, <2>2, <2>3, <2>4, <2>5, VerdictFacts DEF Kinds
  <2>7. CASE IsDue(t, s)
    <3>1. tick'[t].due[s] = Verdict(t, s).occurrence /\ Verdict(t, s).occurrence \in Times
      BY <1>1, <2>1, <2>6, <2>7, TakeDueFacts, VerdictFacts
    <3> QED BY <1>1, <3>1, InstantFacts DEF PassesOver
  <2>8. CASE IsMissed(t, s)
    <3>1. lastRun'[s] = "missed"
      BY <1>1, <2>1, <2>8, TakeDueFacts
    <3> QED BY <1>1, <3>1 DEF PassesOver
  <2> QED BY <2>1, <2>6, <2>7, <2>8 DEF IsDue, IsMissed
<1>2. SchedInv /\ [Next]_vars =>
        [\A t \in Ticks, s \in Schedules : ~Happened("setBack") => ~PassesOver(t, s)]_vars
  BY <1>1
<1> QED BY <1>2, SchedInvariant, PTL DEF Spec, NoneIsPassedOverByASteadyClock

\* No tick drops the record of a schedule it knew of, however late it writes
\* (run-state.ts:18-20, run-state.ts:81-118).
THEOREM RecordsStay == Spec => NoKnownRecordIsLost
<1>1. ASSUME SchedInv, [Next]_vars, NEW s \in Schedules,
             \A t \in Ticks : tick[t].pc # "off" => tick[t].seen[s] # "absent", Loses(s)
      PROVE  FALSE
  <2>1. lastRun[s] # "none" /\ lastRun'[s] = "none" /\ repo[s] # "removed" /\ lastRun' # lastRun
    BY <1>1 DEF Loses
  <2>2. (\E t \in Ticks : TakeDue(t) \/ Finish(t)) \/ ManualSettles
    BY <1>1, <2>1 DEF Next, Acts, vars, state, entries, Advance, SetBack, Create, Enable, Disable, Remove, Retime, Edit,
                      TickStarts, TryAcquire, Consume, Resolve, Defer, Postpone, Release, Exit, Crash, Dies, ManualStarts
  <2>3. ASSUME NEW t \in Ticks, TakeDue(t) PROVE FALSE
    <3>1. lastRun'[s] = IF IsMissed(t, s) THEN "missed" ELSE lastRun[s]
      BY <1>1, <2>3, TakeDueFacts
    <3> QED BY <2>1, <3>1
  <2>4. ASSUME NEW t \in Ticks, Finish(t) PROVE FALSE
    <3>1. tick[t].pc # "off" /\ tick[t].seen[s] \in Presence
      BY <1>1, <2>4 DEF Finish, SchedInv, SchedTypes, TickStates
    <3>2. tick[t].seen[s] \in {"on", "off"}
      BY <1>1, <2>1, <3>1 DEF SchedInv, SeenInv, Presence
    <3>3. lastRun'[s] = IF s \in Due(t) THEN RecordOf(tick[t].pc) ELSE lastRun[s]
      BY <2>4, <3>2 DEF Finish, LiveIds, Existing
    <3> QED BY <2>1, <3>3 DEF RecordOf
  <2>5. CASE ManualSettles
    BY <1>1, <2>1, <2>5 DEF ManualSettles, SchedInv, SchedTypes
  <2> QED BY <2>2, <2>3, <2>4, <2>5
<1>2. SchedInv /\ [Next]_vars =>
        [\A s \in Schedules :
           (\A t \in Ticks : tick[t].pc # "off" => tick[t].seen[s] # "absent") => ~Loses(s)]_vars
  BY <1>1
<1> QED BY <1>2, SchedInvariant, PTL DEF Spec, NoKnownRecordIsLost

\* A schedule is postponed less than MAX_DEFERRALS times in a row, and
\* reported failed after exactly so many, however the ticks overlap or crash
\* (scheduled-run.ts:160-184).
THEOREM DeferralsCounted == Spec => DeferralsAreCounted
<1>1. ASSUME SchedInv, [Next]_vars, NEW t \in Ticks, NEW s \in AtFirst, Defers(t), s \in Due(t), repo[s] # "removed"
      PROVE  IF tick'[t].due[s] = NoTime THEN givenBack[s] < MaxDeferrals ELSE givenBack[s] = MaxDeferrals
  <2>1. Defer(t) /\ tick[t].pc = "scanning" /\ s \in Schedules /\ Known(s)
    BY <1>1, Deciders, SchedulerAssumption DEF Defers, SchedInv, Known
  <2>2. givenBack[s] = deferrals[s] /\ tick[t].deferrals[s] = deferrals[s] /\ tick[t].due[s] # NoTime
    BY <1>1, <2>1 DEF SchedInv, CountInv, DueInv, Due
  <2>3. deferrals[s] \in 0..MaxDeferrals /\ MaxDeferrals \in Nat
    BY <1>1, <2>1, SchedulerAssumption DEF SchedInv, SchedTypes
  <2>4. tick'[t].due[s] = IF s \in Exhausted(t) THEN tick[t].due[s] ELSE NoTime
    BY <1>1, <2>1, DeferFacts
  <2>5. s \in Exhausted(t) <=> deferrals[s] >= MaxDeferrals
    BY <1>1, <2>2 DEF Exhausted
  <2> QED BY <2>2, <2>3, <2>4, <2>5
<1>2. SchedInv /\ [Next]_vars =>
        [\A t \in Ticks, s \in AtFirst : Defers(t) /\ s \in Due(t) /\ repo[s] # "removed" =>
           IF tick[t].due[s]' = NoTime THEN givenBack[s] < MaxDeferrals
                                       ELSE givenBack[s] = MaxDeferrals]_vars
  BY <1>1
<1> QED BY <1>2, SchedInvariant, PTL DEF Spec, DeferralsAreCounted
-----------------------------------------------------------------------------
(* The batch.                                                              *)

\* Who is inside the update batch: a tick, or the menu's run by hand.
BatchHolders == IF batch = "free" THEN {} ELSE {batch}

Mutex == INSTANCE BatchMutex WITH Procs <- Ticks \cup {"menu"}, holders <- BatchHolders

\* Each step takes the batch for one process, frees it for the one that has
\* it, or does neither.
LEMMA BatchStep == SchedInv /\ [Next]_vars => [Mutex!Next]_BatchHolders
<1> SUFFICES ASSUME SchedInv, Next, BatchHolders' # BatchHolders PROVE Mutex!Next
  BY DEF vars, BatchHolders
<1>1. batch' # batch /\ batch \in Ticks \cup {"free", "menu"} /\ {"free", "menu"} \cap Ticks = {}
  BY SchedulerAssumption DEF BatchHolders, SchedInv, SchedTypes
<1>2. ASSUME batch = "free", NEW p \in Ticks \cup {"menu"}, batch' = p PROVE Mutex!Next
  <2>1. BatchHolders = {} /\ BatchHolders' = {p}
    BY <1>1, <1>2 DEF BatchHolders
  <2> QED BY <2>1 DEF Mutex!Next, Mutex!Take
<1>3. ASSUME NEW p \in Ticks \cup {"menu"}, batch = p, batch' = "free" PROVE Mutex!Next
  <2>1. BatchHolders = {p} /\ BatchHolders' = {}
    BY <1>1, <1>3 DEF BatchHolders
  <2>2. BatchHolders' = BatchHolders \ {p}
    BY <2>1
  <2> QED BY <2>1, <2>2 DEF Mutex!Next, Mutex!Leave
<1>4. ASSUME NEW t \in Ticks, TryAcquire(t) PROVE Mutex!Next
  BY <1>1, <1>2, <1>4 DEF TryAcquire
<1>5. ASSUME NEW t \in Ticks, Release(t) PROVE Mutex!Next
  <2>1. batch = t /\ batch' = "free"
    BY <1>5 DEF Release, SchedInv, HolderInv
  <2> QED BY <1>3, <2>1
<1>6. ASSUME NEW t \in Ticks, Dies(t) PROVE Mutex!Next
  BY <1>1, <1>3, <1>6 DEF Dies
<1>7. ASSUME NEW s \in Schedules, ManualStarts(s) PROVE Mutex!Next
  BY <1>1, <1>2, <1>7 DEF ManualStarts
<1>8. CASE ManualSettles
  BY <1>1, <1>3, <1>8 DEF ManualSettles, ManualEnds
<1>9. ~Advance /\ ~SetBack
  BY <1>1 DEF Advance, SetBack
<1>10. ASSUME NEW s \in Schedules PROVE ~(Create(s) \/ Enable(s) \/ Disable(s) \/ Remove(s) \/ Retime(s))
  BY <1>1 DEF Create, Enable, Disable, Remove, Retime, Edit
<1>11. ASSUME NEW t \in Ticks, TickStarts(t) \/ TakeDue(t) \/ Consume(t) \/ Resolve(t) \/ Defer(t) \/ Finish(t)
       PROVE  FALSE
  BY <1>1, <1>11 DEF TickStarts, TakeDue, Consume, Resolve, Defer, Finish
<1>12. ASSUME NEW t \in Ticks, Exit(t) \/ Crash(t) PROVE Dies(t)
  BY <1>12 DEF Exit, Crash
<1> QED BY <1>4, <1>5, <1>6, <1>7, <1>8, <1>9, <1>10, <1>11, <1>12 DEF Next, Acts

\* The scheduler uses the batch as BatchMutex promises it: ticks that overlap
\* and the run by hand are never inside it together, and none of them, the
\* tick that crashes or is cut short by its watchdog included, ever frees the
\* batch of another one (scheduled-run.ts:108-117, run-deps.ts).
THEOREM BatchAsPromised == Spec => Mutex!Spec
<1>1. Init => Mutex!Init
  BY DEF Init, Mutex!Init, BatchHolders
<1> QED BY SchedInvariant, BatchStep, <1>1, PTL DEF Spec, Mutex!Spec
=============================================================================
