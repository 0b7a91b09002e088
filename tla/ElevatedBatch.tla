---------------------------- MODULE ElevatedBatch ----------------------------
(***************************************************************************)
(* The elevated batch: core/elevation.ts in the invoking process, and      *)
(* commands/admin-batch.ts in the elevated child it starts through a       *)
(* waiter, PowerShell's Start-Process -Wait behind a UAC prompt (Windows)  *)
(* or sudo (POSIX).  The two talk through files of a temporary directory:  *)
(* the targets in, the outcomes out.  It is the detail of the step         *)
(* "elevating" of UpdatePipeline.                                          *)
(*                                                                         *)
(* The waiter and the prompt are external: they are modelled from the      *)
(* command lines the code starts and the comments that explain them.  A    *)
(* definition whose name ends in _Bug has a defect the code does not have. *)
(***************************************************************************)
EXTENDS Naturals

CONSTANTS
  N,           \* the targets of the batch are 1..N
  Platforms,   \* where the run may be: "windows" (UAC), "posix" (sudo)
  MayKill,     \* the platforms where the wait is interrupted (Ctrl+C on a
               \* console, the timer)
  MayCrash     \* the child may die at any point

ASSUME ElevatedAssumption ==
  /\ N \in Nat \ {0}
  /\ Platforms \subseteq {"windows", "posix"}
  /\ MayKill \subseteq Platforms
  /\ MayCrash \in BOOLEAN

VARIABLES
  platform,  \* the platform of this run
  parent,  \* "writing", "waiting", "reading", "returned" or "released"
  input,   \* the temporary directory: "none", "written" or "removed"
  prompt,  \* the elevation prompt: "none", "open" or "answered"
  waiter,  \* the process the parent waits for
  child,   \* the elevated child: "none", "reading", "updating" or "exited"
  code,    \* the child's exit code
  actual,  \* what really came of each target, "none" until the child did it
  output,  \* the outcomes file: "none" or "complete"
  told     \* what runElevatedBatch answers for each target

\* Everything that changes.
vars == <<parent, input, prompt, waiter, child, code, actual, output, told>>

Targets  == 1..N
Outcomes == {"success", "skipped", "failed"}

IsWindows == platform = "windows"

Init ==
  /\ platform \in Platforms
  /\ parent = "writing"
  /\ input = "none"
  /\ prompt = "none"
  /\ waiter = "none"
  /\ child = "none"
  /\ code = 0
  /\ actual = [t \in Targets |-> "none"]
  /\ output = "none"
  /\ told = [t \in Targets |-> "none"]

-----------------------------------------------------------------------------
(* The invoking process.                                                   *)

\* writeBatchInput and the spawner: the waiter runs, the prompt opens.
Launch ==
  /\ parent = "writing"
  /\ parent' = "waiting"
  /\ input' = "written"
  /\ waiter' = "running"
  /\ prompt' = "open"
  /\ UNCHANGED <<child, code, actual, output, told>>

\* The directory is left to the child.
Answer_Bug(f) ==
  /\ told' = f
  /\ parent' = "returned"
  /\ UNCHANGED <<input, prompt, waiter, child, code, actual, output>>

\* runElevatedBatch answers f; its finally removes the directory.
Answer(f) ==
  /\ told' = f
  /\ parent' = "returned"
  /\ input' = "removed"
  /\ UNCHANGED <<prompt, waiter, child, code, actual, output>>

\* fallbackFailure for every target.
AllFailed == [t \in Targets |-> "failed"]

\* A waiter that fails is taken for a prompt that was declined.
SpawnerThrows_Bug ==
  /\ parent = "waiting"
  /\ waiter \in {"failed", "killed"}
  /\ Answer([t \in Targets |-> "skipped"])

\* A waiter that failed, or was killed, makes the spawner throw.
SpawnerThrows ==
  /\ parent = "waiting"
  /\ waiter \in {"failed", "killed"}
  /\ Answer(AllFailed)

SpawnerReturns ==
  /\ parent = "waiting"
  /\ waiter = "succeeded"
  /\ parent' = "reading"
  /\ UNCHANGED <<input, prompt, waiter, child, code, actual, output, told>>

\* A target that failed has no entry.
ReadBatchOutput_Bug ==
  /\ parent = "reading"
  /\ Answer([t \in {t \in Targets : actual[t] # "failed"} |-> actual[t]])

\* readBatchOutput: one outcome per target, or failures for all of them.
ReadBatchOutput ==
  /\ parent = "reading"
  /\ Answer(IF output = "complete" THEN actual ELSE AllFailed)

\* The run goes on, ends and releases the batch.
ReleaseBatch ==
  /\ parent = "returned"
  /\ parent' = "released"
  /\ UNCHANGED <<input, prompt, waiter, child, code, actual, output, told>>

-----------------------------------------------------------------------------
(* The waiter.                                                             *)

\* The user accepts: the elevated child starts, even if nobody waits for it
\* any more.
Accept ==
  /\ prompt = "open"
  /\ prompt' = "answered"
  /\ child' = "reading"
  /\ UNCHANGED <<parent, input, waiter, code, actual, output, told>>

\* The refusal is not an error of the waiter's.
Refuse_Bug ==
  /\ prompt = "open"
  /\ prompt' = "answered"
  /\ UNCHANGED <<parent, input, waiter, child, code, actual, output, told>>

\* The user refuses, or the prompt gives up: the waiter fails.
Refuse ==
  /\ prompt = "open"
  /\ prompt' = "answered"
  /\ waiter' = IF waiter = "running" THEN "failed" ELSE waiter
  /\ UNCHANGED <<parent, input, child, code, actual, output, told>>

\* Start-Process without -Wait.
WaiterEnds_NoWait_Bug ==
  /\ waiter = "running"
  /\ child # "none"
  /\ waiter' = "succeeded"
  /\ UNCHANGED <<parent, input, prompt, child, code, actual, output, told>>

\* The wrapper script hands on the child's exit code.
WaiterEnds_Code_Bug ==
  /\ waiter = "running"
  /\ child = "exited"
  /\ waiter' = IF code = 0 THEN "succeeded" ELSE "failed"
  /\ UNCHANGED <<parent, input, prompt, child, code, actual, output, told>>

\* The wait is over when the child is.  Start-Process drops its exit code,
\* sudo hands it on.
WaiterEnds ==
  /\ waiter = "running"
  /\ child = "exited"
  /\ waiter' = IF IsWindows \/ code = 0 THEN "succeeded" ELSE "failed"
  /\ UNCHANGED <<parent, input, prompt, child, code, actual, output, told>>

\* runInherit kills the waiter.  The child of a UAC prompt is out of reach
\* and the prompt stays; sudo's goes with it.
KillWaiter ==
  /\ platform \in MayKill
  /\ waiter = "running"
  /\ waiter' = "killed"
  /\ IF IsWindows
     THEN UNCHANGED <<prompt, child, code>>
     ELSE /\ prompt' = "answered"
          /\ child' = IF child = "none" THEN "none" ELSE "exited"
          /\ code' = IF child \in {"none", "exited"} THEN code ELSE 1
  /\ UNCHANGED <<parent, input, actual, output, told>>

-----------------------------------------------------------------------------
(* The elevated child.                                                     *)

Exit(c) ==
  /\ child' = "exited"
  /\ code' = c

\* readBatchInput.
ReadBatchInput ==
  /\ child = "reading"
  /\ IF input = "written" THEN child' = "updating" /\ UNCHANGED code ELSE Exit(2)
  /\ UNCHANGED <<parent, input, prompt, waiter, actual, output, told>>

IsDone(t) == actual[t] # "none"

\* runOneTarget, in the order of the targets.
RunOneTarget(t, result) ==
  /\ child = "updating"
  /\ ~IsDone(t)
  /\ \A u \in 1..(t - 1) : IsDone(u)
  /\ actual' = [actual EXCEPT ![t] = result]
  /\ UNCHANGED <<parent, input, prompt, waiter, child, code, output, told>>

\* writeBatchOutput, into a directory that may be gone; then the exit code.
WriteBatchOutput ==
  /\ child = "updating"
  /\ \A t \in Targets : IsDone(t)
  /\ IF input = "written"
     THEN /\ output' = "complete"
          /\ Exit(IF \E t \in Targets : actual[t] = "failed" THEN 1 ELSE 0)
     ELSE Exit(2) /\ UNCHANGED output
  /\ UNCHANGED <<parent, input, prompt, waiter, actual, told>>

\* A provider rejects, or the child's window is closed: no outcomes at all.
ChildDies ==
  /\ MayCrash
  /\ child \in {"reading", "updating"}
  /\ Exit(1)
  /\ UNCHANGED <<parent, input, prompt, waiter, actual, output, told>>

-----------------------------------------------------------------------------

Parent == Launch \/ SpawnerThrows \/ SpawnerReturns \/ ReadBatchOutput \/ ReleaseBatch

Child ==
  \/ ReadBatchInput
  \/ \E t \in Targets, result \in Outcomes : RunOneTarget(t, result)
  \/ WriteBatchOutput
  \/ ChildDies

Next ==
  /\ Parent \/ Accept \/ Refuse \/ WaiterEnds \/ KillWaiter \/ Child
  /\ UNCHANGED platform

\* Every process runs on; a prompt is answered or gives up; an install in
\* the child ends, as it does in UpdatePipeline.
Fairness ==
  /\ WF_vars(Parent)
  /\ WF_vars(Child)
  /\ WF_vars(WaiterEnds)
  /\ WF_vars(Accept \/ Refuse)

Spec == Init /\ [][Next]_<<platform, vars>> /\ Fairness

-----------------------------------------------------------------------------

\* The type invariant: above all, what is told of a target is an outcome.
TypeOK ==
  /\ platform \in Platforms
  /\ parent \in {"writing", "waiting", "reading", "returned", "released"}
  /\ input \in {"none", "written", "removed"}
  /\ prompt \in {"none", "open", "answered"}
  /\ waiter \in {"none", "running", "succeeded", "failed", "killed"}
  /\ child \in {"none", "reading", "updating", "exited"}
  /\ code \in {0, 1, 2}
  /\ actual \in [Targets -> Outcomes \cup {"none"}]
  /\ output \in {"none", "complete"}
  /\ told \in [Targets -> Outcomes \cup {"none"}]

HasAnswered == parent \in {"returned", "released"}

\* Whatever dies on the way, the answer has an outcome for every target, and
\* claims a success or a skip only of a target that had it
\* (elevation.ts:91-93).  And behind a UAC prompt whose wait nobody killed it is
\* the whole truth: the outcomes a child did write are what the run reports
\* (elevation.ts:13, 91; on POSIX its exit code 1 reads as a refusal, and
\* outcomes are lost).
OutcomesAreTruthful ==
  HasAnswered =>
    /\ \A t \in Targets : told[t] # "none" /\ (told[t] # "failed" => told[t] = actual[t])
    /\ IsWindows /\ waiter # "killed" /\ output = "complete" => told = actual

\* The child never drives package managers once the run has released the
\* batch ("must never drive package managers at once",
\* core/update/batch-lock.ts:13-15), unless the wait behind a UAC prompt was
\* killed, by a Ctrl+C, a signal or its own bound: that child is out of reach
\* (elevation.ts:161-166, 337).
NoInstallOutsideBatch ==
  parent = "released" /\ ~(IsWindows /\ waiter = "killed") => child # "updating"

\* A prompt accepted after the answer elevates a child that installs nothing:
\* the directory with its targets was removed before the answer
\* (elevation.ts:107-109), whoever was killed and however late the user is.
NothingStartsAfterTheAnswer ==
  [][HasAnswered /\ child' = "updating" => child = "updating"]_vars

\* An elevated step ends, the prompt refused or the child dead.
ElevatedStepEnds == parent = "waiting" ~> HasAnswered
=============================================================================
