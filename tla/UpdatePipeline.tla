--------------------------- MODULE UpdatePipeline ---------------------------
(***************************************************************************)
(* The one update path of gup (core/update/update-pipeline.ts and its      *)
(* neighbours): plan, enter the batch, direct installs one package at a    *)
(* time, one elevated batch, retry tiers, report; together with the        *)
(* runner's one-slot interrupt channel (core/runner.ts) and the levers a   *)
(* user, a timer or the scheduler pulls meanwhile.                         *)
(*                                                                         *)
(* A package is a value with a provider and a need for administrator       *)
(* rights; a planned item is a position in the request.  What a provider   *)
(* does inside update() is any number of installs (runInherit) up to a     *)
(* bound, then any outcome.  Messages, durations and drawing are left out. *)
(*                                                                         *)
(* An operator whose name ends in _Bug is a variant with a defect the code *)
(* does not have: no specification uses it; it shows that a property       *)
(* would catch the defect.                                                 *)
(***************************************************************************)
EXTENDS Naturals, Sequences

CONSTANTS
  Packages,       \* the packages that can be requested
  ProviderOf,     \* function: the provider of a package
  AdminPackages,  \* the packages flagged requiresAdmin
  Unknown,        \* the packages whose provider is not found on this platform
  Requests,       \* the requests a run may get: sequences of packages
  Drivers,        \* who drives a run: see AllDrivers
  TimeoutOn,      \* the install timeout is on (it is unless set to 0)
  MaxInstalls     \* bound: installs (runInherit calls) in one provider.update()

AllDrivers == {"console", "auto", "runView", "scheduled"}

ASSUME PipelineAssumption ==
  /\ AdminPackages \subseteq Packages
  /\ Unknown \subseteq Packages
  /\ Requests \subseteq Seq(Packages)
  /\ Drivers \subseteq AllDrivers
  /\ TimeoutOn \in BOOLEAN
  /\ MaxInstalls \in Nat

VARIABLES
  driver,     \* "console", "auto" (gup update -y), "runView" or "scheduled"
  requests,   \* the packages asked for, in order
  pc,         \* where runUpdates is
  batch,      \* the user's update batch: "free", "ours" or held by an "other" run
  stopped,    \* the abort gate
  todo,       \* the items the current loop has not reached
  current,    \* the item in flight, or NoItem
  outcome,    \* the latest outcome of each item, or "none"
  cancelled,  \* the items reported as cancelled
  tiers,      \* the retry tiers still offered
  tier,       \* the tier being replayed, or "none"
  started,    \* history: the tiers each item was started with in-process
  installs,   \* installs of the attempt in flight so far
  child,      \* the runner's child: "none", "running", "killed", "gone" or "lost"
  timerFired, \* the child's install timeout has fired
  flags,      \* the interrupts of the runInherit call in flight
  pending,    \* pendingInterrupt: what the batch loop will consume
  hit         \* history: the interrupts that reached the attempt in flight

runner == <<installs, child, timerFired, flags, pending, hit>>
loop   == <<todo, current, tiers, tier, started>>
vars   == <<driver, requests, pc, batch, stopped, outcome, cancelled, loop, runner>>

Interrupts == {"aborted", "timedOut"}

\* RETRY_TIERS, the least aggressive first.
RetryTiers == <<"force", "force-uninstall", "reinstall">>
Tiers      == {RetryTiers[k] : k \in 1..3}
NoItem     == 0

\* What a provider answers; a rejection settles as "failed".
RawOutcomes == {"success", "skipped", "failed", "retryable"}
\* "interrupted" is the skip finalizeOutcome makes of an interrupted attempt.
Outcomes == RawOutcomes \cup {"interrupted"}

-----------------------------------------------------------------------------
(* The plan.                                                               *)

Items    == DOMAIN requests
Elevated == {i \in Items : requests[i] \in AdminPackages}
Direct   == Items \ Elevated

Provider(i)     == ProviderOf[requests[i]]
SamePackage(i)  == {j \in Items : requests[j] = requests[i]}

\* groupByProvider: the items of S by provider, providers in the order
\* Before first meets them, and Before within a provider.
Grouped(Before(_, _), S, i, j) ==
  IF Provider(i) = Provider(j)
  THEN Before(i, j)
  ELSE \E a \in S : /\ Provider(a) = Provider(i)
                    /\ \A b \in S : Provider(b) = Provider(j) => Before(a, b)

InRequestOrder(i, j) == i < j
DirectOrder(i, j)    == Grouped(InRequestOrder, Direct, i, j)

\* Plan order: the direct items, grouped, then the elevated ones.
PlanOrder(i, j) ==
  \/ i \in Direct /\ j \in Elevated
  \/ {i, j} \subseteq Direct /\ DirectOrder(i, j)
  \/ {i, j} \subseteq Elevated /\ i < j

\* A replay groups its failures by provider again.
ReplayOrder(S, i, j) == Grouped(PlanOrder, S, i, j)

-----------------------------------------------------------------------------

Init ==
  /\ driver \in Drivers
  /\ requests \in Requests
  /\ pc = "start"
  /\ batch \in (IF driver = "scheduled" THEN {"ours"} ELSE {"free", "other"})
  /\ stopped = FALSE
  /\ todo = {}
  /\ current = NoItem
  /\ outcome = [i \in DOMAIN requests |-> "none"]
  /\ cancelled = {}
  /\ tiers = Tiers
  /\ tier = "none"
  /\ started = [i \in DOMAIN requests |-> {}]
  /\ installs = 0
  /\ child = "none"
  /\ timerFired = FALSE
  /\ flags = {}
  /\ pending = {}
  /\ hit = {}

Fixed == UNCHANGED <<driver, requests>>

\* The direct installs begin.
BeginDirect == pc' = "direct" /\ todo' = Direct

-----------------------------------------------------------------------------
(* Entering the batch.                                                     *)

\* The plan is made; a scheduled run already holds the batch, an interactive
\* one enters the guard.
Plan ==
  /\ pc = "start"
  /\ IF driver = "scheduled" THEN BeginDirect ELSE pc' = "enter" /\ UNCHANGED todo
  /\ Fixed
  /\ UNCHANGED <<batch, stopped, outcome, cancelled, current, tiers, tier, started, runner>>

TakeBatch ==
  /\ pc \in {"enter", "waiting"}
  /\ batch = "free"
  /\ batch' = "ours"
  /\ BeginDirect
  /\ Fixed
  /\ UNCHANGED <<stopped, outcome, cancelled, current, tiers, tier, started, runner>>

\* Another run holds the batch: wait for it.
FindBusy ==
  /\ pc = "enter"
  /\ batch = "other"
  /\ pc' = "waiting"
  /\ Fixed
  /\ UNCHANGED <<batch, stopped, outcome, cancelled, loop, runner>>

\* The wait is aborted, be the batch free by now: the run goes on with a
\* release that does nothing, and its closed gate keeps all from starting.
AbandonWait ==
  /\ pc = "waiting"
  /\ stopped
  /\ BeginDirect
  /\ Fixed
  /\ UNCHANGED <<batch, stopped, outcome, cancelled, current, tiers, tier, started, runner>>

\* The lock's directory cannot be used: runUpdates rejects.
EnterFails ==
  /\ pc \in {"enter", "waiting"}
  /\ pc' = "failed"
  /\ Fixed
  /\ UNCHANGED <<batch, stopped, outcome, cancelled, loop, runner>>

\* The batch of the other run ends.  (BatchLock has runs that compete.)
OtherRunEnds ==
  /\ batch = "other"
  /\ batch' = "free"
  /\ Fixed
  /\ UNCHANGED <<pc, stopped, outcome, cancelled, loop, runner>>

-----------------------------------------------------------------------------
(* One package in-process: attemptOne, retryOne and applyUpdate.           *)

\* provider.update() begins: nothing of an earlier attempt is left to it.
Start(i) ==
  /\ current' = i
  /\ pc' = "installing"
  /\ started' = [started EXCEPT ![i] = @ \cup {tier}]
  /\ installs' = 0
  /\ hit' = {}
  /\ UNCHANGED <<child, timerFired, flags, pending>>

\* A loop that does not look at the gate.
TakeNext_Bug(i, ahead) == i \in todo /\ ahead = {} /\ todo' = todo \ {i}

\* A loop goes on to item i, unless the gate is closed.
TakeNext(i, ahead) ==
  /\ ~stopped
  /\ i \in todo
  /\ ahead = {}
  /\ todo' = todo \ {i}

\* The next direct item.  An unknown provider
\* makes a skipped outcome at once: nothing is attempted.
StartDirect(i) ==
  /\ pc = "direct"
  /\ TakeNext(i, {j \in todo \ {i} : DirectOrder(j, i)})
  /\ \/ /\ requests[i] \notin Unknown
        /\ Start(i)
        /\ UNCHANGED outcome
     \/ /\ requests[i] \in Unknown
        /\ outcome' = [outcome EXCEPT ![i] = "skipped"]
        /\ UNCHANGED <<pc, current, started, runner>>
  /\ Fixed
  /\ UNCHANGED <<batch, stopped, cancelled, tiers, tier>>

\* The next failure of a replay.
StartReplay(i) ==
  /\ pc = "replay"
  /\ TakeNext(i, {j \in todo \ {i} : ReplayOrder(todo, j, i)})
  /\ Start(i)
  /\ Fixed
  /\ UNCHANGED <<batch, stopped, outcome, cancelled, tiers, tier>>

\* runInherit: the child starts, interruptible, its timer armed.
Spawn ==
  /\ child' = "running"
  /\ timerFired' = FALSE
  /\ flags' = {}

StartInstall ==
  /\ pc = "installing"
  /\ child = "none"
  /\ installs < MaxInstalls
  /\ installs' = installs + 1
  /\ Spawn
  /\ Fixed
  /\ UNCHANGED <<pc, batch, stopped, outcome, cancelled, loop, pending, hit>>

\* The child ends: on its own, or because it was killed with its tree.
ChildEnds ==
  /\ \/ child = "running" /\ child' = "gone"
     \/ child = "killed" /\ child' = "lost"
  /\ Fixed
  /\ UNCHANGED <<pc, batch, stopped, outcome, cancelled, loop, installs, timerFired, flags,
                 pending, hit>>

Ended == child \in {"gone", "lost"}

\* runInherit returns: its interrupts wait for the batch loop, the slot of
\* the interruptible child is given back.
InstallReturns ==
  /\ pc = "installing"
  /\ Ended
  /\ pending' = pending \cup flags
  /\ flags' = {}
  /\ child' = "none"
  /\ Fixed
  /\ UNCHANGED <<pc, batch, stopped, outcome, cancelled, loop, installs, timerFired, hit>>

\* finalizeOutcome: an interrupted attempt is a skip, whatever the provider
\* made of it.
Finalized(raw) == IF pending = {} THEN raw ELSE "interrupted"

\* provider.update() settles: the interrupts are consumed, the outcome
\* replaces the former one of every entry with the same key.
Settle(raw) ==
  /\ pc = "installing"
  /\ child = "none"
  /\ outcome' = [i \in Items |->
       IF i = current \/ (tier # "none" /\ i \in SamePackage(current) /\ outcome[i] # "none")
       THEN Finalized(raw) ELSE outcome[i]]
  /\ pending' = {}
  /\ current' = NoItem
  /\ pc' = IF tier = "none" THEN "direct" ELSE "replay"
  /\ Fixed
  /\ UNCHANGED <<batch, stopped, cancelled, todo, tiers, tier, started, installs, child,
                 timerFired, flags, hit>>

EndDirect ==
  /\ pc = "direct"
  /\ stopped \/ todo = {}
  /\ pc' = "elevate"
  /\ todo' = {}
  /\ Fixed
  /\ UNCHANGED <<batch, stopped, outcome, cancelled, current, tiers, tier, started, runner>>

-----------------------------------------------------------------------------
(* The elevated step.                                                      *)

\* A closed gate or an empty list passes the step over; -y elevates without
\* asking; the others ask (a scheduled run answers no at once).
ConsiderElevation ==
  /\ pc = "elevate"
  /\ \/ /\ stopped \/ Elevated = {}
        /\ pc' = "retry"
     \/ /\ ~stopped /\ Elevated # {}
        /\ pc' = IF driver = "auto" THEN "preparing" ELSE "asking"
  /\ Fixed
  /\ UNCHANGED <<batch, stopped, outcome, cancelled, loop, runner>>

\* The user says yes.
ConfirmElevation ==
  /\ pc = "asking"
  /\ driver # "scheduled"
  /\ pc' = "preparing"
  /\ Fixed
  /\ UNCHANGED <<batch, stopped, outcome, cancelled, loop, runner>>

\* runElevatedBatch writes its input, then waits for the elevated child
\* through runInherit.
Elevate ==
  /\ pc = "preparing"
  /\ pc' = "elevating"
  /\ Spawn
  /\ Fixed
  /\ UNCHANGED <<batch, stopped, outcome, cancelled, loop, installs, pending, hit>>

\* outcomes[index] without its fallback.
SettleElevated_Bug(f) ==
  /\ outcome' = [i \in Items |->
       IF i \in Elevated THEN IF child = "lost" THEN "undefined" ELSE f[i] ELSE outcome[i]]
  /\ pc' = "retry"

\* settle: an outcome for every elevated item.
SettleElevated(f) ==
  /\ outcome' = [i \in Items |-> IF i \in Elevated THEN f[i] ELSE outcome[i]]
  /\ pc' = "retry"

\* No, from the user, the headless decisions or, in the run view, a question
\* whose turn comes after the stop.
DeclineElevation ==
  /\ pc = "asking"
  /\ SettleElevated([i \in Elevated |-> "skipped"])
  /\ Fixed
  /\ UNCHANGED <<batch, stopped, cancelled, loop, runner>>

\* discardPendingInterrupt forgotten.
ElevatedReturns_Bug ==
  /\ pc = "elevating"
  /\ Ended
  /\ \E raw \in RawOutcomes : SettleElevated([i \in Elevated |-> raw])
  /\ child' = "none"
  /\ flags' = {}
  /\ pending' = pending \cup flags
  /\ Fixed
  /\ UNCHANGED <<batch, stopped, cancelled, loop, installs, timerFired, hit>>

\* The wait is over.  A killed waiter loses every outcome; otherwise the
\* elevated child's are read, their retryable flags included (ElevatedBatch
\* has the detail).  discardPendingInterrupt follows.
ElevatedReturns ==
  /\ pc = "elevating"
  /\ Ended
  /\ \E f \in [Elevated -> IF child = "lost" THEN {"failed"} ELSE RawOutcomes] :
       SettleElevated(f)
  /\ child' = "none"
  /\ flags' = {}
  /\ pending' = {}
  /\ Fixed
  /\ UNCHANGED <<batch, stopped, cancelled, loop, installs, timerFired, hit>>

-----------------------------------------------------------------------------
(* The retry loop.                                                         *)

\* skippedAs leaves the retryable flag on.
Retryable_Bug == {i \in Items : outcome[i] \in {"retryable", "interrupted"}}

\* retryableItems.
Retryable == {i \in Items : outcome[i] = "retryable"}

\* The loop ends on a closed gate, when nothing is retryable, when every
\* tier was used; -y and scheduled runs never choose one.
EndRetries ==
  /\ pc = "retry"
  /\ stopped \/ Retryable = {} \/ tiers = {} \/ driver \in {"auto", "scheduled"}
  /\ pc' = "report"
  /\ Fixed
  /\ UNCHANGED <<batch, stopped, outcome, cancelled, loop, runner>>

AskRetry ==
  /\ pc = "retry"
  /\ ~stopped /\ Retryable # {} /\ tiers # {} /\ driver \in {"console", "runView"}
  /\ pc' = "choosing"
  /\ Fixed
  /\ UNCHANGED <<batch, stopped, outcome, cancelled, loop, runner>>

\* The tier stays on offer.
ChooseTier_Bug(t) ==
  /\ pc = "choosing"
  /\ t \in tiers
  /\ tier' = t
  /\ todo' = Retryable
  /\ pc' = "replay"
  /\ Fixed
  /\ UNCHANGED <<batch, stopped, outcome, cancelled, current, tiers, started, runner>>

\* The tier is offered once.
ChooseTier(t) ==
  /\ pc = "choosing"
  /\ t \in tiers
  /\ tiers' = tiers \ {t}
  /\ tier' = t
  /\ todo' = Retryable
  /\ pc' = "replay"
  /\ Fixed
  /\ UNCHANGED <<batch, stopped, outcome, cancelled, current, started, runner>>

ChooseNone ==
  /\ pc = "choosing"
  /\ pc' = "report"
  /\ Fixed
  /\ UNCHANGED <<batch, stopped, outcome, cancelled, loop, runner>>

\* replay is over.
EndReplay ==
  /\ pc = "replay"
  /\ stopped \/ todo = {}
  /\ pc' = "retry"
  /\ tier' = "none"
  /\ todo' = {}
  /\ Fixed
  /\ UNCHANGED <<batch, stopped, outcome, cancelled, current, tiers, started, runner>>

-----------------------------------------------------------------------------
(* The end of the run.                                                     *)

\* runUpdates' finally.  A scheduled run's batch is the tick's to release.
Released == IF batch = "ours" /\ driver # "scheduled" THEN "free" ELSE batch

\* The elevated items are not looked at.
Report_Bug ==
  /\ pc = "report"
  /\ cancelled' = {i \in Direct : \A j \in SamePackage(i) : outcome[j] = "none"}
  /\ batch' = Released
  /\ pc' = "done"
  /\ Fixed
  /\ UNCHANGED <<stopped, outcome, loop, runner>>

\* What was planned and never attempted is cancelled; the report is built.
Report ==
  /\ pc = "report"
  /\ cancelled' = {i \in Items : \A j \in SamePackage(i) : outcome[j] = "none"}
  /\ batch' = Released
  /\ pc' = "done"
  /\ Fixed
  /\ UNCHANGED <<stopped, outcome, loop, runner>>

\* The elevated batch's input cannot be written: runUpdates rejects.
ElevationSetupFails ==
  /\ pc = "preparing"
  /\ batch' = Released
  /\ pc' = "failed"
  /\ Fixed
  /\ UNCHANGED <<stopped, outcome, cancelled, loop, runner>>

\* The batch is released after the report only, not in a finally.
CancelPrompt_Bug ==
  /\ pc \in {"asking", "choosing"}
  /\ driver = "console"
  /\ pc' = "failed"
  /\ Fixed
  /\ UNCHANGED <<batch, stopped, outcome, cancelled, loop, runner>>

\* Ctrl+C in a console prompt rejects the question, and with it the run.
CancelPrompt ==
  /\ pc \in {"asking", "choosing"}
  /\ driver = "console"
  /\ batch' = Released
  /\ pc' = "failed"
  /\ Fixed
  /\ UNCHANGED <<stopped, outcome, cancelled, loop, runner>>

-----------------------------------------------------------------------------
(* The levers.                                                             *)

IsOver    == pc \in {"done", "failed"}
Questions == {"asking", "choosing"}
IsAsking  == pc \in Questions

\* The flag is set and nothing is killed.
Interrupt_Bug(why) ==
  /\ flags' = flags \cup {why}
  /\ hit' = IF pc = "installing" THEN hit \cup {why} ELSE hit
  /\ UNCHANGED <<installs, child, pending>>

\* skipCurrent or the timer: the flag is set even when the child is already
\* gone and its return is what is still awaited.
Interrupt(why) ==
  /\ flags' = flags \cup {why}
  /\ child' = IF child = "running" THEN "killed" ELSE child
  /\ hit' = IF pc = "installing" THEN hit \cup {why} ELSE hit
  /\ UNCHANGED <<installs, pending>>

IsInterruptible == child # "none"

\* Ctrl+C on a plain terminal: with a child in flight it interrupts it, and
\* a double press also stops; with nothing in flight it stops.
PressCtrlC ==
  /\ driver \in {"console", "auto"}
  /\ ~IsOver /\ ~IsAsking
  /\ \/ IsInterruptible /\ Interrupt("aborted") /\ (UNCHANGED stopped \/ stopped' = TRUE)
     \/ ~IsInterruptible /\ stopped' = TRUE /\ UNCHANGED <<installs, child, pending, flags, hit>>
  /\ Fixed
  /\ UNCHANGED <<pc, batch, outcome, cancelled, loop, timerFired>>

\* The run view's skip: not during the elevated step.
SkipInView ==
  /\ driver = "runView"
  /\ pc = "installing"
  /\ IsInterruptible
  /\ Interrupt("aborted")
  /\ Fixed
  /\ UNCHANGED <<pc, batch, stopped, outcome, cancelled, loop, timerFired>>

\* The run view's stop, at any time, an open question included; the
\* elevated step is left to end.
StopInView ==
  /\ driver = "runView"
  /\ ~IsOver
  /\ stopped' = TRUE
  /\ IF IsInterruptible /\ pc # "elevating"
     THEN Interrupt("aborted")
     ELSE UNCHANGED <<installs, child, pending, flags, hit>>
  /\ Fixed
  /\ UNCHANGED <<pc, batch, outcome, cancelled, loop, timerFired>>

\* A signal stops a scheduled run, the install in flight included.
StopSignal ==
  /\ driver = "scheduled"
  /\ ~IsOver
  /\ stopped' = TRUE
  /\ IF IsInterruptible
     THEN Interrupt("aborted")
     ELSE UNCHANGED <<installs, child, pending, flags, hit>>
  /\ Fixed
  /\ UNCHANGED <<pc, batch, outcome, cancelled, loop, timerFired>>

\* A scheduled run's deadline closes its gate, and interrupts nothing.
DeadlinePasses ==
  /\ driver = "scheduled"
  /\ ~IsOver
  /\ stopped' = TRUE
  /\ Fixed
  /\ UNCHANGED <<pc, batch, outcome, cancelled, loop, runner>>

CloseGate == StopSignal \/ DeadlinePasses

\* The install timeout, once per runInherit call.
InstallTimeout ==
  /\ TimeoutOn
  /\ IsInterruptible
  /\ ~timerFired
  /\ timerFired' = TRUE
  /\ Interrupt("timedOut")
  /\ Fixed
  /\ UNCHANGED <<pc, batch, stopped, outcome, cancelled, loop>>

-----------------------------------------------------------------------------

Attempt ==
  \/ \E i \in Items : StartDirect(i) \/ StartReplay(i)
  \/ StartInstall
  \/ InstallReturns
  \/ \E raw \in RawOutcomes : Settle(raw)

Answer ==
  \/ ConfirmElevation \/ DeclineElevation
  \/ \E t \in Tiers : ChooseTier(t)
  \/ ChooseNone \/ CancelPrompt

Progress ==
  \/ Plan \/ TakeBatch \/ FindBusy \/ AbandonWait \/ EndDirect \/ ConsiderElevation
  \/ Elevate \/ ElevatedReturns \/ EndRetries \/ AskRetry \/ EndReplay \/ Report

Fail == EnterFails \/ ElevationSetupFails

Lever == PressCtrlC \/ SkipInView \/ StopInView \/ CloseGate

Next ==
  \/ Progress \/ Attempt \/ Answer \/ Lever \/ Fail
  \/ ChildEnds \/ InstallTimeout \/ OtherRunEnds

\* The pipeline and the providers run on, an armed timer fires, a killed
\* child dies, another run's batch ends, and headless decisions answer.
\* Nobody has to pull a lever or to answer a question, and an install may
\* never end on its own.
Fairness ==
  /\ WF_vars(Progress)
  /\ WF_vars(Attempt)
  /\ WF_vars(InstallTimeout)
  /\ WF_vars(child = "killed" /\ ChildEnds)
  /\ WF_vars(driver = "scheduled" /\ Answer)
  /\ WF_vars(OtherRunEnds)

Spec == Init /\ [][Next]_vars /\ Fairness

-----------------------------------------------------------------------------

Steps == {"start", "enter", "waiting", "direct", "installing", "elevate", "asking", "preparing",
          "elevating", "retry", "choosing", "replay", "report", "done", "failed"}

\* The type invariant: above all, an item's outcome is one a provider or
\* finalizeOutcome makes (apply-update.ts:49-69).
TypeOK ==
  /\ driver \in Drivers
  /\ requests \in Requests
  /\ pc \in Steps
  /\ batch \in {"free", "ours", "other"}
  /\ stopped \in BOOLEAN
  /\ todo \subseteq Items
  /\ current \in Items \cup {NoItem}
  /\ outcome \in [Items -> Outcomes \cup {"none"}]
  /\ cancelled \subseteq Items
  /\ tiers \subseteq Tiers
  /\ tier \in Tiers \cup {"none"}
  /\ started \in [Items -> SUBSET (Tiers \cup {"none"})]
  /\ installs \in 0..MaxInstalls
  /\ child \in {"none", "running", "killed", "gone", "lost"}
  /\ timerFired \in BOOLEAN
  /\ flags \subseteq Interrupts
  /\ pending \subseteq Interrupts
  /\ hit \subseteq Interrupts

\* No package is requested twice.
IsDistinct == \A i, j \in Items : requests[i] = requests[j] => i = j

\* An attempt ends as an interrupted skip exactly when a lever or the timer
\* reached it: no interrupt is lost on its way through the provider, and
\* none bleeds into another package's outcome (runner.ts:213-217).
SkipMeansInterrupted ==
  [][current # NoItem /\ current' = NoItem
       => ((outcome'[current] = "interrupted") <=> (hit # {}))]_vars

\* Package managers are only driven inside the batch this run holds, the
\* abandoned wait included (batch-lock.ts:127-130).
BatchHeldWhileInstalling == child # "none" => batch = "ours"

\* However the run ends, an interactive one leaves the batch: a rejection of
\* a prompt or of the elevated step must not keep every later run waiting
\* (update-pipeline.ts:60-64).
ReleasedAtEnd == pc \in {"done", "failed"} /\ driver # "scheduled" => batch # "ours"

\* A package or the elevated batch is on its way.
StepsInFlight == {"installing", "preparing", "elevating"}

\* Once the gate is closed, and what was in flight has ended, no package
\* starts, no question opens and no outcome is made: what is left can only
\* be cancelled (update-pipeline.ts:69-72, 85).  (A question open at the
\* stop is set apart, see StopMeansNothingNewStarts.)
NoPackageStartsAfterStop ==
  [][stopped /\ pc \notin StepsInFlight \cup Questions
       => pc' \notin StepsInFlight \cup Questions /\ outcome' = outcome]_vars

\* Every package asked for ends either with an outcome or cancelled, never
\* both, and nothing is cancelled unless the run was stopped
\* (update-report.ts:6-8).
AccountedFor ==
  pc = "done" =>
    /\ IsDistinct => \A i \in Items : (outcome[i] # "none") <=> (i \notin cancelled)
    /\ cancelled # {} => stopped

\* Only an outcome flagged retryable is ever replaced: a success is not
\* redone, a skip is not offered again (finalize-outcome.ts:23-26).
FinalOutcomesStay ==
  [][\A i \in Items : IsDistinct /\ outcome[i] \notin {"none", "retryable"}
       => outcome'[i] = outcome[i]]_vars

\* A package is attempted at most once with each tier, and once without:
\* the retry questions cannot go round in circles (retry-pass.ts:48-68).
TierOncePerItem ==
  [][\A i \in Items : current # i /\ current' = i => tier \notin started[i]]_vars

\* A run nobody attends ends, whatever an installer does, as long as the
\* install timeout is on (runner.ts:486-509).
UnattendedRunsEnd ==
  driver \in {"auto", "scheduled"} ~> pc \in {"done", "failed"}

-----------------------------------------------------------------------------
(* What the repository says of a run, and the code does not keep.          *)

\* "stop: nothing new starts, what is left is cancelled" (run-control.ts:17-18).
StopMeansNothingNewStarts ==
  [][stopped /\ pc \notin StepsInFlight => pc' \notin StepsInFlight]_vars
=============================================================================
