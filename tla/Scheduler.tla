----------------------------- MODULE Scheduler -----------------------------
(***************************************************************************)
(* The scheduler's runs: core/scheduler/scheduled-run.ts (a tick),         *)
(* manual-run.ts ("run now" in the menu), persistence/run-state.ts         *)
(* (state.json) and persistence/schedule-repo.ts (schedules.json), with    *)
(* the process around a tick, commands/schedule/tick.ts.                   *)
(*                                                                         *)
(* The operating system starts ticks, and may start one while another      *)
(* still runs; a tick captures the time and the schedules first and may    *)
(* act on them much later.  The user edits the schedules from another      *)
(* terminal and runs one by hand meanwhile.  Every write of state.json     *)
(* re-reads the file under its lock, so a write is one step; what a tick   *)
(* read earlier and writes back is in its own variables.  The installs of  *)
(* a tick are UpdatePipeline's "scheduled" driver: here they are one step. *)
(* An operator whose name ends in _Bug has a defect the code does not      *)
(* have.                                                                   *)
(***************************************************************************)
EXTENDS DueRule, FiniteSets

CONSTANTS
  Schedules,    \* schedule ids
  Ticks,        \* processes the OS trigger starts, again and again
  FiringsOf,    \* when each schedule's recurrence fires
  CatchUp,      \* the schedules that catch up missed occurrences
  Invalid,      \* the schedules scheduleIssues refuses (edited by hand)
  AtFirst,      \* the schedules that are on at first, armed at 0; the others
                \* are off or do not exist yet
  MaxTime,      \* bound: the clock stays in 0..MaxTime
  MaxDeferrals, \* MAX_DEFERRALS
  Events,       \* what disturbs the ticks: of "setBack", "crash" and "edit"
  MaxEvents,    \* bound: how many of them, together
  MaxManualRuns,\* bound: runs by hand
  MayHang       \* a provider's listing may never answer

ASSUME SchedulerAssumption ==
  /\ MaxTime \in Nat
  /\ FiringsOf \in [Schedules -> SUBSET (0..MaxTime)]
  /\ CatchUp \subseteq Schedules
  /\ Invalid \subseteq Schedules
  /\ AtFirst \subseteq Schedules
  /\ MaxDeferrals \in Nat
  /\ Events \subseteq {"setBack", "crash", "edit"}
  /\ {MaxEvents, MaxManualRuns} \subseteq Nat
  /\ MayHang \in BOOLEAN
  /\ {"free", "menu"} \cap Ticks = {}
  /\ "nobody" \notin Schedules

VARIABLES
  clock,     \* the machine's time
  repo,      \* schedules.json: "absent", "on", "off" or "removed"
  armed,     \* schedules.json: armedAt
  attempt,   \* state.json: lastAttemptAt, or NoTime
  deferrals, \* state.json: deferrals
  lastTickAt,\* state.json: the heartbeat, or NoTime
  lastRun,   \* state.json: what the last run was, "none" without a record
  batch,     \* who holds the update batch: "free", a tick or the "menu"
  tick,      \* what each tick knows and where it is
  manual,    \* the schedule run by hand, or "nobody"
  reached,   \* history: the firings the clock reached while the schedule was
             \* on, that no tick has judged
  ran,       \* history: the occurrences ticks took and did not give back
  givenBack, \* history: how often a schedule was postponed since its last run
  events,    \* the events so far, numbered by kind
  manualRuns \* the runs by hand so far

world == <<repo, armed>>
entries == <<attempt, deferrals, lastRun>>
state == <<entries, lastTickAt>>
history == <<reached, ran, givenBack>>
bounds == <<events, manualRuns>>
vars == <<clock, world, state, batch, tick, manual, history, bounds>>

Times == 0..MaxTime
Never == [s \in Schedules |-> NoTime]

\* A tick that does not run.
Off == [pc |-> "off", now |-> NoTime, seen |-> [s \in Schedules |-> "absent"],
        armed |-> Never, due |-> Never, attempt |-> Never,
        deferrals |-> [s \in Schedules |-> 0]]

Init ==
  /\ clock = 0
  /\ repo \in [Schedules -> {"absent", "on", "off"}]
  /\ \A s \in Schedules : repo[s] = "on" <=> s \in AtFirst
  /\ armed = [s \in Schedules |-> IF repo[s] = "absent" THEN NoTime ELSE 0]
  /\ attempt = Never
  /\ deferrals = [s \in Schedules |-> 0]
  /\ lastRun = [s \in Schedules |-> "none"]
  /\ lastTickAt = NoTime
  /\ batch = "free"
  /\ tick = [t \in Ticks |-> Off]
  /\ manual = "nobody"
  /\ reached = [s \in Schedules |-> {}]
  /\ ran = [s \in Schedules |-> {}]
  /\ givenBack = [s \in Schedules |-> 0]
  /\ events = {}
  /\ manualRuns = 0

\* One more event, while the bound allows it.
Disturb(event) ==
  /\ event \in Events
  /\ Cardinality(events) < MaxEvents
  /\ events' = events \cup {<<event, Cardinality({e \in events : e[1] = event})>>}
  /\ UNCHANGED manualRuns

-----------------------------------------------------------------------------
(* The clock (external).                                                   *)

Advance ==
  /\ clock < MaxTime
  /\ clock' = clock + 1
  /\ reached' = [s \in Schedules |->
       IF repo[s] = "on" /\ clock + 1 \in FiringsOf[s] \ ran[s]
       THEN reached[s] \cup {clock + 1} ELSE reached[s]]
  /\ UNCHANGED <<world, state, batch, tick, manual, ran, givenBack, bounds>>

SetBack ==
  /\ Disturb("setBack")
  /\ clock' \in 0..(clock - 1)
  /\ UNCHANGED <<world, state, batch, tick, manual, history>>

-----------------------------------------------------------------------------
(* The schedules: one edit of schedules.json from a terminal or the menu.  *)

Edit(s, becomes, arms) ==
  /\ Disturb("edit")
  /\ repo' = [repo EXCEPT ![s] = becomes]
  /\ armed' = IF arms THEN [armed EXCEPT ![s] = clock] ELSE armed
  /\ reached' = IF arms \/ becomes # "on" THEN [reached EXCEPT ![s] = {}] ELSE reached
  /\ UNCHANGED <<clock, state, batch, tick, manual, ran, givenBack>>

Create(s)  == repo[s] = "absent" /\ Edit(s, "on", TRUE)
Enable(s)  == repo[s] = "off" /\ Edit(s, "on", TRUE)
Disable(s) == repo[s] = "on" /\ Edit(s, "off", FALSE)
Remove(s)  == repo[s] \in {"on", "off"} /\ Edit(s, "removed", FALSE)

\* replace: another recurrence arms the schedule again.
Retime(s)  == repo[s] = "on" /\ Edit(s, "on", TRUE)

-----------------------------------------------------------------------------
(* A tick.                                                                 *)

Move(t, step) == tick' = [tick EXCEPT ![t].pc = step]

Existing(seen) == {s \in Schedules : seen[s] \in {"on", "off"}}
Runnable(t)    == {s \in Schedules \ Invalid : tick[t].seen[s] = "on"}
Due(t)         == {s \in Schedules : tick[t].due[s] # NoTime}

\* tick: the enabled schedules, the time and the heartbeat.  Nothing enabled
\* is idle; nothing valid is idle after the heartbeat.
TickStarts(t) ==
  /\ tick[t].pc = "off"
  /\ \E s \in Schedules : repo[s] = "on"
  /\ lastTickAt' = clock
  /\ tick' = IF \E s \in Schedules \ Invalid : repo[s] = "on"
             THEN [tick EXCEPT ![t] =
                     [Off EXCEPT !.pc = "acquiring", !.now = clock, !.seen = repo, !.armed = armed]]
             ELSE tick
  /\ UNCHANGED <<clock, world, entries, batch, manual, history, bounds>>

\* tryAcquire: the batch, or busy and over.
TryAcquire(t) ==
  /\ tick[t].pc = "acquiring"
  /\ IF batch = "free" THEN batch' = t /\ Move(t, "judging")
                       ELSE UNCHANGED batch /\ tick' = [tick EXCEPT ![t] = Off]
  /\ UNCHANGED <<clock, world, state, manual, history, bounds>>

\* The finally of tick, and the end of the process.
Release(t) ==
  /\ tick[t].pc = "releasing"
  /\ batch' = "free"
  /\ tick' = [tick EXCEPT ![t] = Off]
  /\ UNCHANGED <<clock, world, state, manual, history, bounds>>

\* The last attempt is forgotten: the arming alone anchors the schedule.
Verdict_Bug(t, s) ==
  EvaluateDue(FiringsOf[s], tick[t].armed[s], NoTime, s \in CatchUp, tick[t].now)

Verdict(t, s) ==
  EvaluateDue(FiringsOf[s], tick[t].armed[s], attempt[s], s \in CatchUp, tick[t].now)

\* No longer to be judged: what a tick at time now took.
Judged(S, now) ==
  reached' = [s \in Schedules |->
    IF s \in S THEN {f \in reached[s] : f > now} ELSE reached[s]]

\* #takeDue: the verdicts, and the missed ones recorded.
TakeDue(t) ==
  /\ tick[t].pc = "judging"
  /\ LET kind(s)  == Verdict(t, s).kind
         missed   == {s \in Runnable(t) : kind(s) = "missed"}
         isDue(s) == s \in Runnable(t) /\ kind(s) = "due"
     IN /\ attempt' = [s \in Schedules |-> IF s \in missed THEN tick[t].now ELSE attempt[s]]
        /\ lastRun' = [s \in Schedules |-> IF s \in missed THEN "missed" ELSE lastRun[s]]
        /\ Judged(missed, tick[t].now)
        /\ ran' = [s \in Schedules |->
             IF s \in missed THEN ran[s] \cup {Verdict(t, s).occurrence} ELSE ran[s]]
        /\ tick' = [tick EXCEPT ![t] = [@ EXCEPT
             !.due = [s \in Schedules |->
                        IF isDue(s) THEN Verdict(t, s).occurrence ELSE NoTime],
             !.pc = IF \E s \in Schedules : isDue(s) THEN "consuming" ELSE "releasing",
             !.armed = Never]]
  /\ UNCHANGED <<clock, world, lastTickAt, batch, manual, deferrals, givenBack, bounds>>

\* The state before, kept for a deferral; then consume.
Consume(t) ==
  /\ tick[t].pc = "consuming"
  /\ tick' = [tick EXCEPT ![t] =
       [@ EXCEPT !.pc = "scanning", !.attempt = attempt, !.deferrals = deferrals]]
  /\ attempt' = [s \in Schedules |-> IF s \in Due(t) THEN tick[t].now ELSE attempt[s]]
  /\ Judged(Due(t), tick[t].now)
  /\ ran' = [s \in Schedules |-> IF s \in Due(t) THEN ran[s] \cup {tick[t].due[s]} ELSE ran[s]]
  /\ UNCHANGED <<clock, world, lastTickAt, batch, manual, deferrals, lastRun, givenBack, bounds>>

\* resolve: the scan of the providers the due targets need.  One of them
\* answers and the updates start, or one never answers; Defer is the rest.
Resolve(t) ==
  /\ tick[t].pc = "scanning"
  /\ \E step \in {"running"} \cup (IF MayHang THEN {"hung"} ELSE {}) : Move(t, step)
  /\ UNCHANGED <<clock, world, state, batch, manual, history, bounds>>

\* One deferral too many.
Exhausted_Bug(t) == {s \in Due(t) : tick[t].deferrals[s] > MaxDeferrals}

Exhausted(t) == {s \in Due(t) : tick[t].deferrals[s] >= MaxDeferrals}
Postponed(t) == Due(t) \ Exhausted(t)

\* postpone from the entry read before the scan, without its record.
Postpone_Bug(t) ==
  /\ attempt' = [s \in Schedules |->
       IF s \in Postponed(t) THEN tick[t].attempt[s] ELSE attempt[s]]
  /\ deferrals' = [s \in Schedules |->
       IF s \in Postponed(t) THEN tick[t].deferrals[s] + 1 ELSE deferrals[s]]
  /\ lastRun' = [s \in Schedules |-> IF s \in Postponed(t) THEN "none" ELSE lastRun[s]]

\* postpone: the entry as it is now, with the anchor the tick had read.
Postpone(t) ==
  /\ attempt' = [s \in Schedules |->
       IF s \in Postponed(t) THEN tick[t].attempt[s] ELSE attempt[s]]
  /\ deferrals' = [s \in Schedules |->
       IF s \in Postponed(t) THEN tick[t].deferrals[s] + 1 ELSE deferrals[s]]
  /\ UNCHANGED lastRun

\* #defer, when every provider of the scan failed.
Defer(t) ==
  /\ tick[t].pc = "scanning"
  /\ Postpone(t)
  /\ reached' = [s \in Schedules |->
       IF s \in Postponed(t) /\ repo[s] = "on" /\ armed[s] < tick[t].due[s]
       THEN reached[s] \cup {tick[t].due[s]} ELSE reached[s]]
  /\ ran' = [s \in Schedules |->
       IF s \in Postponed(t) THEN ran[s] \ {tick[t].due[s]} ELSE ran[s]]
  /\ givenBack' = [s \in Schedules |->
       IF s \in Postponed(t) THEN givenBack[s] + 1 ELSE givenBack[s]]
  /\ tick' = [tick EXCEPT ![t] = [@ EXCEPT
       !.due = [s \in Schedules |-> IF s \in Exhausted(t) THEN tick[t].due[s] ELSE NoTime],
       !.pc = IF Exhausted(t) = {} THEN "releasing" ELSE "offline"]]
  /\ UNCHANGED <<clock, world, lastTickAt, batch, manual, bounds>>

\* The record of a run: a stop or the deadline settles what was left as
\* skipped, in a record all the same.
RecordOf(pc) == IF pc = "running" THEN "ran" ELSE "failed"

\* liveIds: the schedules as this process read them, once, when it started.
LiveIds(t) == Existing(tick[t].seen)

\* #execute, whose updates end behind a gate a stop or the deadline closes;
\* then #finish: recordRuns and withoutOrphans in one write.
Finish(t) ==
  /\ tick[t].pc \in {"running", "offline"}
  /\ LET recorded == [s \in Schedules |-> IF s \in Due(t) THEN RecordOf(tick[t].pc) ELSE lastRun[s]]
         isLive(s) == s \in LiveIds(t)
     IN /\ lastRun' = [s \in Schedules |-> IF isLive(s) THEN recorded[s] ELSE "none"]
        /\ attempt' = [s \in Schedules |-> IF isLive(s) THEN attempt[s] ELSE NoTime]
        /\ deferrals' = [s \in Schedules |-> IF isLive(s) /\ s \notin Due(t) THEN deferrals[s] ELSE 0]
        /\ givenBack' = [s \in Schedules |-> IF s \in Due(t) THEN 0 ELSE givenBack[s]]
  /\ Move(t, "releasing")
  /\ UNCHANGED <<clock, world, lastTickAt, batch, manual, reached, ran, bounds>>

\* The process ends, and the batch with it.
Dies(t) ==
  /\ tick' = [tick EXCEPT ![t] = Off]
  /\ batch' = IF batch = t THEN "free" ELSE batch
  /\ UNCHANGED <<clock, world, state, manual, history>>

\* Killed, or a write of state.json throws: the finally releases the batch.
Crash(t) ==
  /\ tick[t].pc # "off"
  /\ Disturb("crash")
  /\ Dies(t)

\* No timer was armed.
Exit_Bug(t) == FALSE /\ UNCHANGED vars

\* The watchdog, or the grace after a stop: a tick that hangs exits.
Exit(t) ==
  /\ tick[t].pc = "hung"
  /\ Dies(t)
  /\ UNCHANGED bounds

-----------------------------------------------------------------------------
(* A run by hand, in the menu.                                             *)

\* prepare: the schedule's targets are scanned and its updates, if any, run
\* with the update batch.
ManualStarts(s) ==
  /\ manual = "nobody"
  /\ repo[s] \in {"on", "off"}
  /\ manualRuns < MaxManualRuns
  /\ manualRuns' = manualRuns + 1
  /\ manual' = s
  /\ \/ UNCHANGED batch
     \/ batch = "free" /\ batch' = "menu"
  /\ UNCHANGED <<clock, world, state, tick, history, events>>

\* What settle, and the menu that goes on, do besides the record.
ManualEnds ==
  /\ manual # "nobody"
  /\ manual' = "nobody"
  /\ batch' = IF batch = "menu" THEN "free" ELSE batch
  /\ UNCHANGED <<clock, world, deferrals, lastTickAt, tick, history, bounds>>

\* settle that consumes the occurrence too.
ManualSettles_Bug ==
  /\ ManualEnds
  /\ lastRun' = [lastRun EXCEPT ![manual] = "manual"]
  /\ attempt' = [attempt EXCEPT ![manual] = clock]

\* settle: the record, and nothing else of the entry.  A run declined, or a
\* state.json that cannot be written, leaves no record.
ManualSettles ==
  /\ ManualEnds
  /\ \/ lastRun' = [lastRun EXCEPT ![manual] = "manual"]
     \/ UNCHANGED lastRun
  /\ UNCHANGED attempt

-----------------------------------------------------------------------------

Acts(t) ==
  \/ TryAcquire(t) \/ TakeDue(t) \/ Consume(t) \/ Resolve(t)
  \/ Defer(t) \/ Finish(t) \/ Release(t) \/ Exit(t)

Next ==
  \/ Advance
  \/ SetBack
  \/ \E s \in Schedules : Create(s) \/ Enable(s) \/ Disable(s) \/ Remove(s) \/ Retime(s)
  \/ \E t \in Ticks : TickStarts(t) \/ Acts(t) \/ Crash(t)
  \/ \E s \in Schedules : ManualStarts(s)
  \/ ManualSettles

\* The trigger keeps starting ticks, a tick runs to its end, and a run by
\* hand ends.  The clock, the user and crashes owe nothing.
Fairness ==
  /\ \A t \in Ticks : WF_vars(TickStarts(t)) /\ WF_vars(Acts(t))
  /\ WF_vars(ManualSettles)

Spec == Init /\ [][Next]_vars /\ Fairness

-----------------------------------------------------------------------------

\* The type invariant: what a tick took, it took at or before its own time.
TypeOK ==
  /\ clock \in Times
  /\ repo \in [Schedules -> {"absent", "on", "off", "removed"}]
  /\ armed \in [Schedules -> Times \cup {NoTime}]
  /\ attempt \in [Schedules -> Times \cup {NoTime}]
  /\ deferrals \in [Schedules -> 0..MaxDeferrals]
  /\ lastRun \in [Schedules -> {"none", "missed", "ran", "failed", "manual"}]
  /\ lastTickAt \in Times \cup {NoTime}
  /\ batch \in Ticks \cup {"free", "menu"}
  /\ manual \in Schedules \cup {"nobody"}
  /\ \A t \in Ticks : \A s \in Due(t) : tick[t].due[s] <= tick[t].now

Happened(event) == <<event, 0>> \in events

Judges(t) == tick[t].pc = "judging" /\ tick[t].pc' \in {"consuming", "releasing"}

\* An occurrence is run by one tick at most, however long a tick waited
\* between reading the clock and taking the batch, whatever the user edits
\* and even if the clock is set back; and one that was run is not recorded as
\* missed ("any number of missed windows collapse into a single run",
\* due.ts:14-15; "a crash never loops on an occurrence",
\* scheduled-run.ts:24).  Only a deferral gives an occurrence back.
OccurrenceRunsOnce ==
  [][\A t \in Ticks, s \in AtFirst : Judges(t) /\ repo[s] # "removed" =>
       /\ tick[t].due[s]' # NoTime => tick[t].due[s]' \notin ran[s]
       /\ lastRun'[s] = "missed" /\ lastRun[s] # "missed" => ran'[s] # ran[s]]_vars

\* s has an occurrence that passed while it was on, and the tick read a clock
\* that had reached it.
IsOwed(t, s) == s \in Runnable(t) /\ \E f \in reached[s] : f <= tick[t].now

PassesOver(t, s) ==
  Judges(t) /\ IsOwed(t, s) /\ ~(tick[t].due[s]' # NoTime \/ lastRun'[s] = "missed")

\* A tick that holds the batch takes every occurrence that has passed since
\* the schedule was armed and that nobody took, or records it as missed: "a
\* clock set backwards cannot freeze a schedule" (due.ts:10-11).
NoOccurrenceIsPassedOver == [][\A t \in Ticks, s \in Schedules : ~PassesOver(t, s)]_vars

\* The same, of a clock that is never set back.
NoneIsPassedOverByASteadyClock ==
  [][\A t \in Ticks, s \in Schedules : ~Happened("setBack") => ~PassesOver(t, s)]_vars

Loses(s) == lastRun[s] # "none" /\ lastRun'[s] = "none" /\ repo[s] # "removed"

\* A record of a run is only ever replaced by a later one while its schedule
\* exists: "a tick and a manual run finishing at the same moment never lose
\* each other's record" (run-state.ts:18-20).
NoRecordIsLost == [][\A s \in Schedules : ~Loses(s)]_vars

\* The same, of a schedule that existed when the tick that writes started: a
\* deferral, a finish or a missed record of one tick never drops what a run
\* by hand recorded during its scan or its installs.
NoKnownRecordIsLost ==
  [][\A s \in Schedules :
       (\A t \in Ticks : tick[t].pc # "off" => tick[t].seen[s] # "absent") => ~Loses(s)]_vars

Defers(t) == tick[t].pc = "scanning" /\ tick[t].pc' \in {"releasing", "offline"}

\* A schedule is postponed while it was given back less than MAX_DEFERRALS
\* times since its last run, and reported failed when it was given back
\* exactly so often ("up to MAX_DEFERRALS times, then report it failed",
\* scheduled-run.ts:160-161): the count a tick writes after its scan is the
\* one it read before, and no overlapping or crashed tick spoils it.  A count
\* left by an occurrence that was then missed, or lost to a crash, counts for
\* the next one.
DeferralsAreCounted ==
  [][\A t \in Ticks, s \in AtFirst : Defers(t) /\ s \in Due(t) /\ repo[s] # "removed" =>
       IF tick[t].due[s]' = NoTime THEN givenBack[s] < MaxDeferrals
                                   ELSE givenBack[s] = MaxDeferrals]_vars

\* Once the clock and the user rest, every occurrence that passed has been
\* run, reported or recorded as missed: ticks that find the batch busy, crash
\* or have no network leave it to a later one, and none keeps the batch forever,
\* even one whose provider never answers.
OccurrencesAreSettled ==
  <>[](Happened("setBack") \/
       \A s \in Schedules \ Invalid : repo[s] = "on" => reached[s] = {})
=============================================================================
