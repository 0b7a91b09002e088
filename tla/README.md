# Verification of gup

gup updates the packages of many package managers from one program: a command
line, a full-screen application and a scheduler drive the same update path.
This directory holds TLA+ specifications of the parts where order, failure and
concurrency matter, TLC runs that check them on small instances, and proofs
that the TLA+ proof system checks for all values of the constants.

All paths below are relative to the repository's `src/` directory unless they
begin with `src/`, `index/` or `docs/`.

## 1. The system

| Part | State it keeps | Operations | Talks to |
|---|---|---|---|
| Update pipeline, `core/update` | the plan, one outcome entry per attempted package, the retry tiers left | `runUpdates`: plan, enter the batch, direct installs one by one, one elevated batch, retry loop, report | batch guard, providers, elevation, decisions (questions), gate (stop), observer |
| Batch lock, `core/update/batch-lock.ts` | a listening endpoint per user, a display file | `tryAcquire`, `enter` (wait), `release` | other gup processes, through the operating system |
| Install runner, `core/runner.ts` | `abortCurrent` (the interruptible child), `pendingInterrupt` (the cause of an interrupt, for the batch loop) | `runInherit`, `skipCurrent`, `consumeInterrupt`, the install timeout | child processes, providers, pipeline |
| Levers, `ui/skip-controller.ts`, `ui/run/run-control.ts`, `run-levers.ts`, `run-dialogs.ts` | the abort gate, the time of the last Ctrl+C, a queue of dialogs | Ctrl+C, skip, stop, the questions of a run | runner, pipeline |
| Elevated batch, `core/elevation.ts`, `commands/admin-batch.ts` | a temporary directory with targets in and outcomes out | `runElevatedBatch`; `adminBatchCommand` in the elevated child | UAC or sudo, the child process |
| Scheduler, `core/scheduler` | `state.json` (anchors, deferrals, last runs), `schedules.json`, the install record, the system's trigger | `tick`, `stop`, manual runs, trigger sync and health | batch lock, pipeline, scan, crontab / launchd / Task Scheduler |
| File lock, `core/state/file-lock.ts` | a lock file per guarded file | acquire with a stale takeover, release | concurrent gup processes |
| Configuration, `core/config` | one JSON file, what each process loaded of it | load, recover a corrupt file, write or update a section | every process |
| Install terminal, `core/pty` | a pseudo-terminal, an exit file | start, kill, exit | runner, run view |
| Run view and application, `ui/run`, `ui/app`, `ui/tui` | the view's model of the run, the screen | keys, events, drawing | pipeline's observer |
| Registry and scan, `core/registry.ts` | the list of providers | parallel probes bounded in time, parallel listings | providers |
| Providers, `providers` | none | `listOutdated`, `update` | package managers |
| History and log, `core/history`, `core/log` | append-only files | record, read, rotate | pipeline, elevated child |
| Reports, insights, exports, languages, themes, landing site | none that interacts | formatting | — |

What is hard: a run is a long sequence of awaits during which a user, a timer
or the scheduler pulls levers at any moment; the cause of an interrupt travels
past the providers in a module variable; several gup processes of one user
compete for one batch, one settings file, one state file and one trigger, and
any of them may die; the elevated child is a third process behind a prompt,
reachable only through files; installers and listings may hang; and the clock
may be set back. `PROJECT.json`, "hazards", lists these at the lines where they
bite, with the properties that cover them.

What makes each part correct:

- *pipeline*: each package asked for ends with one outcome or is cancelled; a
  stop starts nothing new; a skip is said exactly of what was interrupted;
  nothing final is redone; a run nobody attends ends; the batch is always left.
- *run view*: the screen tells the run; its levers, which only know the screen,
  never do to the run what the pipeline does not allow; a stopped run ends.
- *batch lock*: one batch at a time; a crash leaves no lock behind; a waiting
  run gets its turn; what it shows of the holder is true.
- *elevated batch*: one truthful outcome per target, whatever dies; nothing
  begins to install once the run has its answer, and the child does not install
  outside the run's batch (a UAC child whose wait was killed does: see section 3).
- *scheduler*: an occurrence is run, deferred or recorded missed, never twice
  and never forgotten; a tick never loses what another process recorded; the
  deferrals are the promised number.
- *file lock, configuration*: no save of a guarded file is lost; a file that was
  spoilt, or a section of a newer gup, is never written over.
- *trigger*: after a command that ended well, the trigger is registered exactly
  when a schedule is on, the record names it, and no installation takes another's
  (a removal that failed unnoticed is the exception: see section 3).

## 2. The modules

| Module | What it is |
|---|---|
| `BatchMutex` | abstract: what the batch lock, and the file lock, promise: a mutex that a death releases |
| `AtomicStore` | abstract: what the settings file promises, saves that change one section in one step |
| `BatchLock` | the lock itself, on a named pipe (Windows) and on a unix socket (POSIX) |
| `UpdatePipeline` | the update path, the runner's interrupt slot and the levers, for the four drivers |
| `RunView` | the pipeline composed with the run view: its screen, levers and dialogs |
| `ElevatedBatch` | the two processes of the elevated batch, the waiter and the prompt between them |
| `DueRule` | the due rule, as operators |
| `Scheduler` | ticks that overlap, the run by hand, `state.json`, the schedules and the clock |
| `FileLock` | the lock file every shared file is written under; a part, extended by a system |
| `ConfigStore` | the settings file that several processes load and save under `FileLock` |
| `TriggerSync` | schedules, registration and record, with the commands that synchronise them |
| `MCUpdatePipeline`, `MCRunView`, `MCScheduler`, `MCTriggerSync` | packages, requests, recurrences and installations for TLC |
| `BatchLockProofs`, `UpdatePipelineProofs`, `RunViewProofs`, `ElevatedBatchProofs`, `DueRuleProofs`, `SchedulerProofs`, `ConfigStoreProofs`, `TriggerSyncProofs` | the theorems of each module |

`PROJECT.json`, "map", gives the source lines of each definition. An operator
whose name ends in `_Bug` is a variant with a defect the code does not have; no
specification uses it. It is there to show that a property would catch the
defect ("mutants").

How they fit:

- `UpdatePipeline` sees the batch lock as one variable, `batch` (free, ours,
  another run's); `BatchLock` is the detail, with runs that compete and die. It
  sees the elevated batch as one step with a child, whose outcomes are any, or
  all failures when the waiter was killed; `ElevatedBatch` is the detail.
- `BatchLock` implements `BatchMutex` (property `MutexSpec`) on Windows, and on
  POSIX while no two runs are at the socket together.
- `RunView` extends `UpdatePipeline` and each of its steps takes at most one of
  the pipeline's: it implements the pipeline's fair specification (property
  `LeversActOnTheRun`).
- `Scheduler` evaluates `DueRule`, and implements `BatchMutex` in its use of the
  batch. The installs of a tick are one step there: their detail is the driver
  `scheduled` of `UpdatePipeline`. A write of `state.json` re-reads the file
  under `FileLock`, so it is one step; what a tick read before is a variable of
  its own.
- `ConfigStore` extends `FileLock`. While the lock has no mishap its sections
  implement `BatchMutex`, and its saves `AtomicStore`. It models `config.json` and the schedules'
  file alike, a section being saved by `write` or by `update`. `Scheduler` and
  `TriggerSync` take a save of the schedules as one step.

### BatchLock

`pc[p]` is where process `p` is in `tryAcquire`, the batch and `release`.
`server[p]` is its own server: closed, bound or listening. `endpoint` is whose
server the endpoint's *name* leads to: the name and the server are different
things on POSIX, where a file outlives its process and anybody may unlink it.
`info` is the display file. One action is one system call or one await, since
another process can come in between:

- `FirstListen`, `StartListening`, `SecondListen`: `tryListen`. On POSIX,
  binding and listening are two system calls; in between the socket exists and
  refuses connections.
- `Probe`, `Unlink`: `isAnswering`, `rmSync` (lines 169-170).
- `WriteInfo`: the display file, which may fail to be written.
- `Poll`, `GiveUp`: the wait of an interactive run. A scheduled run never
  waits: `Busy` sends it off.
- `DropInfo`, `CloseServer`: `release`, in the code's order. Closing a server
  on POSIX unlinks its name, whoever bears it by then.
- `Crash`, `Restart`: a death at any point, at most `MaxCrashes` times. A
  `release` whose `rmSync` throws (line 121) is one in "held": its rejection ends
  the process, and the server goes with it.

External, modelled from the calls: bind, listen, connect, close and exit. A
probe times out after a second and then counts as an answer; it is covered by
`Probe` seeing a listening owner.

### UpdatePipeline

A package has a provider and, perhaps, a need for administrator rights; an item
is a position in the request. `pc` is where `runUpdates` is: start, enter,
waiting, direct, installing, elevate, asking, preparing, elevating, retry,
choosing, replay, report, done or failed. `todo` and `current` are the loop in
progress, `outcome` the latest entry of each item, `tiers` the retry tiers
still on offer.

The runner: `child` is its interruptible child (running, killed, gone by
itself, or lost to a kill), `flags` the interrupts of the `runInherit` call in
flight, `pending` the module variable `pendingInterrupt`. What a provider does
inside `update()` is `StartInstall`, `ChildEnds`, `InstallReturns` up to
`MaxInstalls` times, then `Settle(raw)` with any outcome: a rejection is
"failed". `hit` and `started` are history variables, for the properties only.

The drivers differ in their questions and levers:

| Driver | Questions | Levers |
|---|---|---|
| `console` (`gup update`, prompts) | answered, or rejected by Ctrl+C | Ctrl+C skips the install in flight; twice, or with nothing in flight, it stops |
| `auto` (`gup update -y`) | elevates without asking, never retries | the same Ctrl+C |
| `runView` (full screen) | dialogs | skip and stop, which leave the elevated step alone |
| `scheduled` | never elevates, never retries | a stop signal, the deadline |

### ElevatedBatch

`parent` is `runElevatedBatch`, `waiter` the process it waits for (PowerShell
or sudo), `prompt` the elevation prompt, `child` the elevated gup. `actual` is
what really came of each target, `output` the outcomes file, `told` what the
run is told. On Windows a killed waiter leaves the prompt and the child alone
and the child's exit code is dropped; under sudo the child dies with its
waiter, and its exit code becomes sudo's. The directory is removed before the
answer; that its removal itself may be refused is left out.

### RunView

`phase` and `shown` are `RunModel`'s phase and items, `stopping` what
`markStopping` set, `dialog` which dialog is open. The pipeline's steps come
with the event the observer gets of them (`Planned`, `WaitShown`,
`StartedShown`, `ElevationShown`, `FinishedShown`, `DoneShown`); an event names
a package by its key, so every row with that key changes. `PressSkip`,
`PressStop`, `PressCtrlCTwice` and `AnswerStop` are `RunLevers`: they decide
from `phase`, which is not the pipeline's `pc`. `OpenQuestion`, `AnswerUnseen`
and `AnswerQuestion` are `RunDialogs`, whose box is shared with "Stop all?".
Runs of the other drivers keep `UpdatePipeline`'s levers and answers
(`AnswerElsewhere`, `LeverElsewhere`).

### DueRule and Scheduler

A recurrence is the set of times it fires at, which is all that `nextRun` and
`latestRun` ask of a cron expression; `Grace` is how late is still on time.

`repo` and `armed` are the schedules, `attempt`, `deferrals`, `lastRun` and
`lastTickAt` are `state.json`, `batch` is the update batch. `tick[t]` is what
process `t` captured and where it is: `now`, the schedules it `seen` and when
they were `armed`, what is `due`, and the `attempt` and `deferrals` of before
its scan. Each write of the code is a step: the heartbeat (`TickStarts`), the
batch (`TryAcquire`), the missed ones (`TakeDue`), the consumption (`Consume`),
the scan (`Resolve`, or `Defer` when every provider failed), the records
(`Finish`), the release. `Exit` is the watchdog, or the grace after a signal,
that ends a tick whose provider never answers; `Crash` a death at any point.
Two ticks may run at once: the second one gets to the batch after the first,
with the clock and the schedules it read before. `Create`, `Enable`, `Disable`,
`Remove` and `Retime` are `ScheduleRepo`'s edits; `ManualStarts` and
`ManualSettles` the run by hand. `reached`, `ran` and `givenBack` are history,
for the properties only: the firings that nobody judged yet, those that ticks
took, and the postponements since the last run.

### FileLock and ConfigStore

`lock` is whose lock file is there, `isStale` whether it is ten seconds old,
`at[p]` and `attempts[p]` where a process is in `acquire`. Each system call is a
step: creating the file exclusively, the stat, the unlink *by name*, which
removes whatever lock is there by then. Every call may be refused, a process
may die at any point or sleep ten seconds in its section. The two ways the lock
can be lost are recorded in `mishaps`: a *takeover* of a lock created after the
former one was judged, and an *overrun* section.

`disk` is the file (missing, corrupt or a document with its sections),
`backups` what was moved aside, `store[p]` what a process loaded, `job[p]` the
save in progress. A section's value is the set of the edits it carries: `write`
replaces it, `update` adds to the fresh one. `Load`, `Recover`, `Save`,
`Locking`, `ReadFresh`, `Replace` and `EndSave` are the steps of `ConfigStore`;
the temporary file and its rename are one. `Spoil` and `NewerSaves` are other
programs. `saved` and `moves` are history.

### TriggerSync

`schedules`, `trigger` (the installation whose ticks the system starts),
`record` (`install.json`), and `command[t]`: what terminal `t` is doing, of
which installation, with how many schedules it counted, and where. `Change`,
`Heal`, `Reinstall` and `Uninstall` begin a command; `Sync`, `Check`, `Look`,
`Register`, `WriteRecord`, `Unregister`, `Forget` and `DisableAll` are what is
between its awaits. A terminal may be closed, the user may delete the
registration, an installation may go. `alone` and `missed` are history: the
commands nothing else disturbed, and those that took a removal for done that had
not happened.

How a call fails is the mechanism's, the constant `Mechanism`:

| | `crontab` | `windows-task` | `launchd` |
|---|---|---|---|
| `status` is not answered | reads as not registered | the same | the same |
| `install` fails | nothing has changed | nothing has changed | the old agent may be gone, or the new one be there |
| `uninstall` fails | the command fails | the command fails, or *passes for done* when the query fails too | *passes for done*; or the agent is gone and the command fails on its plist |

The column of `launchd` has the others' outcomes, so a run with it covers all
three. A login, at which launchd would load a plist that was left, is not
modelled.

## 3. The runs

Sizes are those of TLC's runs (distinct states).

| Run | Instance | Shows |
|---|---|---|
| `batch_lock_windows` (1,853) | 3 processes, one scheduled, 2 crashes | mutual exclusion, reachability, the display file, the refinement of `BatchMutex`, no starvation |
| `batch_lock_posix` (40,076) | the same, on a socket | the same safety as long as two runs never are at the socket together; a dead holder's socket is taken over and nobody starves |
| `batch_lock_race` | 2 processes | **violated**: two holders at once |
| `update_pipeline` (3,477,939) | four drivers; a request with an elevated item between two providers, one with an unknown provider; 2 installs per update | the eight safety and action properties |
| `run_view` (407,068) | four drivers; requests of two items, an unknown provider, a package asked for twice; 2 installs per update | the screen is true; the view implements the fair pipeline; unattended and stopped runs end |
| `update_elevates_after_stop` | run view | **violated**: elevation starts after a stop |
| `elevated_batch` (1,293) | UAC and sudo, 3 targets, the child may die anywhere, the wait may be cut short anywhere | truthful and complete outcomes, nothing begins to install after them, no install outside the batch but that of a UAC child whose wait was killed, the step ends |
| `scheduler` (337,964) | 2 schedules, 2 overlapping ticks, 3 instants, one crash, edit or clock set back, one run by hand, listings that may hang | occurrences run once, none is passed over, no record is lost, deferrals are counted, and in the end nothing is owed |
| `scheduler_clock_set_back` | the same, no run by hand | **violated**: an occurrence is passed over after a clock set back |
| `scheduler_newcomer_record` | the same, one edit, one run by hand | **violated**: a new schedule's record is dropped |
| `config_store` (1,104,034) | 2 processes, 2 sections (one written, one updated), 3 saves, 2 attempts, 2 faults of any kind | the section is exclusive, every save is in the file, spoilt files and newer sections stay, but in the cases the properties name |
| `trigger_sync` (1,168,120) | launchd, 2 terminals, 4 installations (one outdated copy, one that cannot be registered), 2 schedules, 3 commands, one fault | schedules, trigger and record agree after an undisturbed command that missed no removal; nobody takes a trigger |

Why the bounds are enough.

- *Batch lock*: a violation needs one holder, one process that probes and one
  that takes over, so three processes; a second crash lets a process that took
  over from a dead one die as well.
- *Pipeline and view*: three items give a direct item before and after, a
  provider group, and an item in each list; two installs per update are what it
  takes to lose an interrupt between them; the tiers are the code's three. The
  view's questions and levers meet with one direct and one elevated item.
- *Elevation*: three targets let the child die before, between and after, and a
  killed wait leave a child with targets to do.
- *Scheduler*: two ticks are one that holds the batch and one that read the
  clock before; a schedule that fires twice has an occurrence after a consumed
  one, and the other one comes into being during a tick. One event is put
  between any two steps; more of them only repeat. With one deferral allowed a
  schedule is postponed, then reported. The theorems do away with these bounds.
- *Configuration*: a takeover needs a dead holder and two waiters, one of them
  the holder restarted; a lost save needs two savers and a third save to show.
  Two faults give a crash followed by a corrupt file, or the reverse.
- *Trigger*: two commands can overlap and a third one repairs; of four
  installations each is in another relation to the one on record.

`CHECK_DEADLOCK FALSE` is set everywhere because every one of these systems
ends or is cut by a bound: a run is over, a lock whose processes are done has
nothing left to do, and the bounds on the clock, saves and commands run out.

The violated runs are disagreements between the code and what its comments
promise; `PROJECT.json`, "findings", quotes both:

1. The POSIX lock has a window: between a bind and its listen, or after a crash
   left a socket, a second run probes, finds nobody and unlinks a socket that
   is, by then, a live holder's.
2. The run view's stop does not close an elevation dialog that is open, and the
   pipeline does not look at the gate after the answer.
3. A clock set back behind the last attempt does freeze a schedule until the
   clock is past it again: an anchor that is now has nothing between it and now.
4. A tick drops the records of the schedules created since it started, which it
   takes for orphans.

Three more are conditions of properties that hold:

- A killed UAC waiter ends the run, and its batch, while the elevated child goes
  on installing (`elevation.ts:161-166, 337`): the next run may take the batch
  beside it. `NoInstallOutsideBatch` excepts that child and no other.
- A trigger without a record, which overlapping or killed commands leave, is only
  found by asking the system, and no answer is taken for nothing there
  (`trigger-sync.ts:139`, `os-trigger.ts:42`): the change that switches the last
  schedule off then leaves it registered.
- On Windows a failed removal passes for done when the query after it fails too
  (`windows-task.ts:60-62`), and on macOS one whose `bootout` fails: the record
  goes and the task stays. `CommandsAgreeWithTheSystem` and
  `RecordNamesTheTrigger` except the command that such a removal happens to, and
  no later one.

Three more were met while modelling, and are no properties: a target given twice
to `gup update` and stopped after the first is neither in the entries nor among
the cancelled (`AccountedFor` is about different targets); the retry question
offers gentler tiers again after a more aggressive one; and under sudo one failed
target makes all outcomes of the batch failures.

The conditions in some properties are the code's limits, and are stated as
such: `OneHolder` and `FileHoldsEverySave` name the mishaps of a lock whose age
is judged before it is unlinked, the good file that a late `Recover` moves aside
and the write of an outsider; `SpoiltFilesAreKept` two moves within one second;
the trigger's properties are about a command that nothing overlaps, after any
history, other commands' missed removals included.

### Fairness

Safety needs none. For liveness:

- *BatchLock*: a process that started runs on (a process scheduler), and a
  holder leaves its batch: that a batch ends is what `run_view` shows of
  unattended runs. Nobody has to start, give up or crash. A waiter needs only
  weak fairness because a process that is done does not come back in the model:
  with runs arriving for ever, a polling waiter can always lose the race for the
  endpoint, and the code promises no order.
- *UpdatePipeline, RunView*: the pipeline and the providers run on between
  installs; an armed timer fires; a killed child dies (a tree kill on Windows, a
  signal elsewhere); another run's batch ends; headless decisions answer at
  once, and so does a question whose turn comes after a stop. **Nobody** has to
  pull a lever or answer a question, and an install may run for ever:
  `UnattendedRunsEnd` holds because of the timer alone. It is stated with the
  install timeout on, as it is unless the user sets it to 0. `RunView` has the
  same fairness as the pipeline, on its own steps; TLC checks that it implies
  the pipeline's.
- *ElevatedBatch*: both processes run on, a prompt is answered or gives up.
- *Scheduler*: the system keeps starting ticks (that is what the trigger is
  for), a tick that runs goes on, and a run by hand ends. The clock, the user,
  crashes and a hanging provider owe nothing: `OccurrencesAreSettled` holds of a
  hung tick because of the watchdog alone.

`ConfigStore` and `TriggerSync` state safety only: a save that meets a held lock
gives up after a bounded number of turns, and a command ends with its calls.

## 4. The proofs

| Theorem | States | For |
|---|---|---|
| `BatchLockProofs!TypeCorrect` | `TypeOK` | both platforms, any processes and crashes |
| `BatchLockProofs!OneBatch` | `OneBatchAtATime` | Windows |
| `BatchLockProofs!Reachable` | `HolderIsReachable` | Windows |
| `BatchLockProofs!Refinement` | `MutexSpec`: the lock implements `BatchMutex` | Windows |
| `BatchLockProofs!InfoStays` | `InfoStaysTheHolders` | Windows |
| `BatchLockProofs!SafeAlone` | `SafeUnlessContended` | both platforms |
| `BatchLockProofs!RefinementAlone` | `MutexSpec` | POSIX, while no two runs are at the socket together |
| `UpdatePipelineProofs!TypeCorrect` | `TypeOK` | any packages, requests, drivers, installs |
| `UpdatePipelineProofs!BatchHeld` | `BatchHeldWhileInstalling` | the same |
| `UpdatePipelineProofs!BatchReleased` | `ReleasedAtEnd` | the same |
| `UpdatePipelineProofs!InterruptsReachTheirOutcome` | `SkipMeansInterrupted` | the same |
| `UpdatePipelineProofs!EveryPackageIsAccountedFor` | `AccountedFor` | the same |
| `UpdatePipelineProofs!FinalOutcomes` | `FinalOutcomesStay` | the same |
| `UpdatePipelineProofs!TiersAreOfferedOnce` | `TierOncePerItem` | the same |
| `UpdatePipelineProofs!StopStartsNothing` | `NoPackageStartsAfterStop` | the same |
| `UpdatePipelineProofs!InstallsFollowThePlan` | the package that starts is the first of the direct ones left in plan order, in a replay too; an elevated one that is replayed comes after the direct ones of its provider | the same |
| `UpdatePipelineProofs!OneProviderAtATime` | at most one provider is half done | the same |
| `UpdatePipelineProofs!RunsAreFinite` | each step leaves less of three bounded numbers | the same |
| `UpdatePipelineProofs!UnattendedRunsGoOn` | a run nobody attends has a part whose turn it is, until it is over | the same, with the timeout on |
| `RunViewProofs!ViewRefinesThePipeline` | `Init /\ [][Next]_vars` of the pipeline: the safety part of `LeversActOnTheRun` | the same, under the view |
| `RunViewProofs!ScreenIsTrue` | `ScreenTellsTheRun` | the same |
| `RunViewProofs!StoppedRunsGoToTheirEnd` | after a stop with no dialog open none opens, each step leaves less of the run, and a part of it has its turn until it is over | the same; the last with the timeout on |
| `ElevatedBatchProofs!TypeCorrect`, `TruthfulOutcomes` | `TypeOK`, `OutcomesAreTruthful` | any number of targets, both platforms |
| `ElevatedBatchProofs!NoOutsideInstall` | `NoInstallOutsideBatch` | the same |
| `ElevatedBatchProofs!NoLateStart` | `NothingStartsAfterTheAnswer` | the same |
| `ElevatedBatchProofs!FewSteps` | the step takes at most `N + 11` steps | any number of targets, both platforms |
| `ElevatedBatchProofs!NobodyIsStuck` | while the run waits, somebody can move | the same |
| `DueRuleProofs!VerdictIsExact` | due or missed exactly when a firing has passed since the anchor, and then the latest | any set of firings, any times |
| `DueRuleProofs!AttemptSettlesThePast` | after an attempt nothing is due before the next firing | the same |
| `DueRuleProofs!OnlyTheLateAreMissed` | with catch-up nothing is missed, without it only what is later than the grace | the same |
| `DueRuleProofs!ClockBehindTheAnchorFreezes` | nothing is due while the clock is behind the last attempt or the arming | the same |
| `SchedulerProofs!TypeCorrect` | `TypeOK` | any schedules, recurrences, grace, ticks and events |
| `SchedulerProofs!RunsOnce` | `OccurrenceRunsOnce` | the same |
| `SchedulerProofs!NoneIsPassedOver` | `NoneIsPassedOverByASteadyClock` | the same |
| `SchedulerProofs!RecordsStay` | `NoKnownRecordIsLost` | the same |
| `SchedulerProofs!DeferralsCounted` | `DeferralsAreCounted` | the same, any `MAX_DEFERRALS` |
| `SchedulerProofs!BatchAsPromised` | the scheduler's use of the batch implements `BatchMutex` | the same |
| `ConfigStoreProofs!TypeCorrect` | `TypeOK` | any processes, sections, attempts and faults |
| `ConfigStoreProofs!OnlyOneHolder` | `OneHolder` | the same |
| `ConfigStoreProofs!EverySaveIsThere` | `FileHoldsEverySave` | the same |
| `ConfigStoreProofs!SpoiltFilesStay` | `SpoiltFilesAreKept` | the same |
| `ConfigStoreProofs!NewerSectionsAreKept` | `NewerSectionsStay` | the same |
| `ConfigStoreProofs!LockAsPromised` | the file lock implements `BatchMutex` | the same, without mishaps |
| `ConfigStoreProofs!SavesAreAtomic` | the store implements `AtomicStore` | the same, and no good file moved aside or written over by others |
| `TriggerSyncProofs!TypeCorrect` | `TypeOK` | any terminals, installations, mechanism, finite set of schedules |
| `TriggerSyncProofs!SystemAgrees` | `CommandsAgreeWithTheSystem` | the same |
| `TriggerSyncProofs!RecordIsTrue` | `RecordNamesTheTrigger` | the same |
| `TriggerSyncProofs!TriggerIsNotTaken` | `NobodyTakesTheTrigger` | the same |

They assume what the modules' ASSUMEs say of the constants (types, that a
request is a sequence of known packages, that there are finitely many
schedules to count), and nothing else but what the third column says.

The arguments:

- *Lock.* `PipeInv`: a process is in its batch exactly when the endpoint's name
  leads to it. Mutual exclusion alone is not inductive: it is the name being
  taken that keeps the second process out. It holds on Windows, where taking and
  freeing the name are one step with entering and leaving, and so does what the
  display file says. On POSIX the name and the batch come apart, which is the
  race above. What holds there holds while no two runs are at the socket
  together, and `SocketInv` is why: the name leads to the holder, who listens, or
  to the run that is binding; and who is about to unlink it has no holder to
  harm, which is what a second run at the socket breaks.
- *Batch, slot.* `ControlInv` relates the step of the run to the batch
  (`BatchInv`: from the direct installs on an interactive run that holds
  nothing is one whose gate is closed) and to the runner (`SlotInv`: what is
  pending or flagged is what hit the attempt in flight, and between attempts
  the slot is empty). `SkipMeansInterrupted` is not inductive: at the end of an
  attempt only `pending` is looked at, and that it holds all that hit the
  attempt is `SlotInv`.
- *Account.* `AccountInv`: before the elevated step the items with no outcome
  are those still to do or those a closed gate left; after it none is left
  unless the gate is closed. `TierInv` and `RetryInv`: the tier in hand is not
  on offer any more, what a replay has left to do is still retryable, and no item
  was started with a tier that is still on offer.
- *Order of the installs.* `groupByProvider` makes an order out of an order, and
  keeps each provider's items together (`GroupsInOrder`): transitivity across
  groups rests on the first item of a finite group (`FirstElement`). Grouping
  some of the items again, which is what a replay does with those that failed,
  elevated ones included, keeps the direct ones among them in the order they had
  (`ReplayKeepsTheOrder`). `ReplayInv`: the direct loop itself has direct items
  only. `OrderInv`: what it has left comes after what it has done.
- *A run ends.* `RunsAreFinite` gives the measure, compared lexicographically:
  `PhasesLeft` (where the run stands, the tiers left, the gate, the other run's
  batch), `ItemsLeft` of the loop, `WorkLeft` of the attempt. Each step leaves
  less, the levers included: an interrupt that leaves nothing less changes
  nothing, since what it flags again had reached the attempt. `AliveInv` shows
  for `UnattendedRunsGoOn` that a child that runs has its timer before it and
  that nobody is asked a question that nobody answers; `NextItem` that a loop
  is never without a first item, whatever the grouping.
- *View.* `PhaseInv` is the heart of it: while the run is not over, the model
  says "elevating" exactly while the pipeline prepares or awaits the elevated
  batch. With it a lever, which looks at the phase, does what the pipeline
  allows at that `pc`; `DialogInv` does the same for answers. `ShownInv` follows
  the rows; the two requests for one package are what makes it more than a copy
  of the outcomes. `StoppingInv`, that the view is stopping exactly when the gate
  is closed, leaves the levers nothing to do after a stop, so all steps are the
  pipeline's. The view alone may go on for ever before that: a stop dialog can be
  opened and declined again and again.
- *Elevated batch.* `Together`: where the parent, the waiter, the prompt and the
  child stand to one another, a complete file coming from a child that ended.
  With the directory removed whenever there is an answer, a late child finds no
  targets (`NoLateStart`). `StepsLeft` counts what is left of each of them and goes down with every step;
  `Started` is why a wait has its waiter, and an answered prompt its child.
- *Scheduler.* `HolderInv`: only the tick with the batch is past its
  `tryAcquire`, so nobody else writes `attempt` or `deferrals` between a scan
  and its deferral (`DueInv`). `RanInv`: everything that ran did so up to the
  last attempt, and up to the *remembered* one, but for the occurrence in hand,
  while it may be given back. The due rule only finds what is after the last
  attempt (`DueFacts`, a corollary of `VerdictIsExact`), hence `RunsOnce`,
  whatever the clock does. `SteadyInv`, for a clock never set back, says the converse: a
  firing that nobody judged is after the arming, also as the tick knows it, and
  after the last attempt, so the rule finds it. `CountInv` counts deferrals,
  `SeenInv` says that a schedule a tick saw removed is.
- *Due rule.* `AnchorOf` is at most now; by well-foundedness of the naturals a
  set of passed firings that has a member has a latest one. The verdict is then
  a matter of comparing it with the anchor and the grace.
  `ClockBehindTheAnchorFreezes` is why `NoneIsPassedOver` is about a steady
  clock: it proves what the run `scheduler_clock_set_back` shows.
- *Configuration.* `HolderInv`, then `FreshInv`: what a holder read is the file
  until it replaces it, as long as no mishap or outsider comes in between; and
  `SavedInv`: the file holds what was saved. Without a lock kept the second
  fails: that is why the properties name the mishaps. `SavesAreAtomic` is
  `FreshInv` at the rename: what is replaced is what was read, so the replacement
  changes the one section, and everything before it changes nothing.
- *Trigger.* `StepsInv` and `AloneInv`: a command nobody disturbed is the only
  one, and its step tells how many schedules are on and what the system and the
  record have become, up to the write it is about to make, unless it missed its
  removal; that nobody unsays (`EndKeepsMissed`), so a command that ends without
  one has removed what it says.

Only model-checked, and why: liveness, whose fairness speaks of ENABLED, which
is out of the prover's reach: `WaitersGetTheBatch`, `UnattendedRunsEnd`,
`StopEndsTheRun`, `ElevatedStepEnds`, `OccurrencesAreSettled` and the fairness
part of `LeversActOnTheRun`. Of three of them the theorems give all but the
fairness: `RunsAreFinite` with `UnattendedRunsGoOn`, `StoppedRunsGoToTheirEnd`,
and `FewSteps` with `NobodyIsStuck`, say that no behaviour is infinite and that
none has to stop early. Every safety property that a run checks is also a theorem.

## 5. What is not modelled

In the modelled parts: message wording, durations, the history's and the log's
writes; nothing reads them back. The double press within 1.5 seconds is a free
choice, and so is the moment a timer fires. The install runner's argument checks
and the probes are pure. The batch lock's directory errors are one action,
`EnterFails`; the clean-up when a terminal closes is a crash of `BatchLock`. The
elevated child's file is written in one call by this same program, so entries of
a wrong shape do not occur. The parsing and matching of cron expressions are a
library's. A `state.json` spoilt by hand, which reads as empty, is left out, and
so are the launcher and the environment that `install.json` also carries. The
pauses of the file lock are left out, so a save may try again at any moment.

Components without a module, with their reasons, are in `PROJECT.json`,
"components". Most of the code by far is of three kinds that hold no state two
actors share: the adapters of more than 150 package managers and the list of
them (`providers/`, `registry.ts`), of which the pipeline takes any behaviour;
rendering (`ui/`, charts, themes, catalogues of messages); and formatting
(reports, exports, insights). They are not modelled, which is why the modules
translate a small part of the repository's lines. The scan probes and lists in
parallel, each call failing soft on its own, without a cancel or shared state; of
the mechanisms of the trigger (crontab, launchd, Task Scheduler) what they write
is not modelled, only how their calls end, and their health report only reads. The tracker of a run by
hand only moves a date. The history is an append-only journal, one call a record.

## 6. Plan

Done: the pipeline, its lock, its elevated batch and its view; the scheduler,
the settings and the trigger; the proofs of all their safety properties, the two
abstract specifications and who implements them, and that runs and elevated
steps are finite. Left:

1. `PtySession`: the exit of an install terminal, its kill and its exit file,
   against the runner's interrupts.
2. Log rotation by several processes.
3. Two ticks' plans and the manual run's tracker, with a process that dies
   between the last update and the record.
4. Proofs: that the ticks of a scheduler never stand still.
