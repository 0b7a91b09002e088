------------------------- MODULE ElevatedBatchProofs -------------------------
(***************************************************************************)
(* What is proved of ElevatedBatch for any number of targets, on any       *)
(* platform, whoever is killed: its types, that what the batch answers is  *)
(* what became of the targets, and that it gets to its answer in a bounded *)
(* number of steps.                                                        *)
(***************************************************************************)
EXTENDS ElevatedBatch, FiniteSetTheorems, WellFoundedInduction, TLAPS

\* Where the processes stand to one another: nobody is elevated before the
\* prompt is answered, a wait that succeeded is over because the child is, and
\* one that failed had no child, or (sudo) one that is over.
Together ==
  /\ parent = "writing" => prompt = "none" /\ waiter = "none"
  /\ prompt \in {"none", "open"} => child = "none"
  /\ waiter = "succeeded" => child = "exited"
  /\ waiter = "failed" =>
       prompt = "answered" /\ child \in {"none", "exited"} /\ (IsWindows => child = "none")
  /\ waiter = "killed" => platform \in MayKill
  /\ waiter = "killed" /\ ~IsWindows => prompt = "answered" /\ child \in {"none", "exited"}
  /\ parent \in {"reading", "returned", "released"} => waiter \in {"succeeded", "failed", "killed"}
  /\ parent = "reading" => waiter = "succeeded"
  /\ output = "complete" => child = "exited" /\ \A t \in Targets : IsDone(t)

\* Why the properties hold: the rest of each is a consequence of Together.
IInv == TypeOK /\ Together /\ OutcomesAreTruthful

LEMMA ElevatedInit == Init => IInv
BY DEF Init, IInv, TypeOK, Together, OutcomesAreTruthful, HasAnswered, IsWindows, IsDone

\* An answer is one outcome per target, what really came of it or a failure.
LEMMA AnswerKeeps ==
  ASSUME IInv, UNCHANGED platform, NEW f,
         Answer(f), f = AllFailed \/ (f = actual /\ output = "complete"),
         parent \in {"waiting", "reading"},
         parent = "waiting" => f = AllFailed /\ waiter \in {"failed", "killed"},
         parent = "reading" /\ output = "complete" => f = actual
  PROVE  IInv'
<1>1. f \in [Targets -> Outcomes \cup {"none"}]
  BY DEF IInv, TypeOK, AllFailed, Outcomes
<1>2. \A t \in Targets : f[t] # "none" /\ (f[t] # "failed" => f[t] = actual[t])
  BY DEF IInv, Together, AllFailed, IsDone
<1>3. UNCHANGED <<platform, prompt, waiter, child, code, actual, output>>
      /\ told' = f /\ parent' = "returned" /\ input' = "removed"
  BY DEF Answer
<1>4. TypeOK' /\ Together'
  BY <1>1, <1>3 DEF IInv, TypeOK, Together, IsWindows, IsDone
<1>5. IsWindows' /\ waiter' # "killed" /\ output' = "complete" => told' = actual'
  BY <1>3 DEF IInv, Together, IsWindows
<1>6. OutcomesAreTruthful'
  BY <1>2, <1>3, <1>5 DEF OutcomesAreTruthful
<1> QED BY <1>4, <1>6 DEF IInv

\* Each step keeps the invariant.
LEMMA ElevatedStep == IInv /\ [Next]_<<platform, vars>> => IInv'
<1> SUFFICES ASSUME IInv, [Next]_<<platform, vars>> PROVE IInv'
  OBVIOUS
<1>1. CASE UNCHANGED <<platform, vars>>
  BY <1>1 DEF vars, IInv, TypeOK, Together, OutcomesAreTruthful, HasAnswered, IsWindows, IsDone
<1> SUFFICES ASSUME Next, UNCHANGED platform PROVE IInv'
  BY <1>1 DEF Next
<1> USE DEF IInv, TypeOK, Together, OutcomesAreTruthful, HasAnswered, IsWindows, IsDone
<1>2. CASE Launch
  BY <1>2 DEF Launch
<1>3. CASE SpawnerThrows
  BY <1>3, AnswerKeeps DEF SpawnerThrows
<1>4. CASE SpawnerReturns
  BY <1>4 DEF SpawnerReturns
<1>5. CASE ReadBatchOutput
  BY <1>5, AnswerKeeps DEF ReadBatchOutput
<1>6. CASE ReleaseBatch
  BY <1>6 DEF ReleaseBatch
<1>7. CASE Accept
  BY <1>7 DEF Accept
<1>8. CASE Refuse
  BY <1>8 DEF Refuse
<1>9. CASE WaiterEnds
  BY <1>9 DEF WaiterEnds
<1>10. CASE KillWaiter
  BY <1>10, ElevatedAssumption DEF KillWaiter
<1>11. CASE ReadBatchInput
  BY <1>11 DEF ReadBatchInput, Exit
<1>12. ASSUME NEW t \in Targets, NEW result \in Outcomes, RunOneTarget(t, result) PROVE IInv'
  <2>1. actual' \in [Targets -> Outcomes \cup {"none"}] /\ \A u \in Targets : IsDone(u) => actual'[u] = actual[u]
    BY <1>12 DEF RunOneTarget
  <2> QED BY <1>12, <2>1 DEF RunOneTarget
<1>13. CASE WriteBatchOutput
  BY <1>13 DEF WriteBatchOutput, Exit
<1>14. CASE ChildDies
  BY <1>14 DEF ChildDies, Exit
<1> QED BY <1>2, <1>3, <1>4, <1>5, <1>6, <1>7, <1>8, <1>9, <1>10, <1>11, <1>12, <1>13, <1>14
  DEF Next, Parent, Child

LEMMA ElevatedAlways == Spec => []IInv
BY ElevatedInit, ElevatedStep, PTL DEF Spec

\* The batch is well-typed: every target is told an outcome
\* (elevation.ts:95-110).
THEOREM TypeCorrect == Spec => []TypeOK
<1>1. IInv => TypeOK
  BY DEF IInv
<1> QED BY ElevatedAlways, <1>1, PTL

\* Whatever dies on the way, every target has an outcome, only a target that
\* succeeded or was skipped is reported so, and behind a UAC prompt that nobody
\* killed, outcomes that were written are the ones reported (elevation.ts:13,
\* 91-93).
THEOREM TruthfulOutcomes == Spec => []OutcomesAreTruthful
<1>1. IInv => OutcomesAreTruthful
  BY DEF IInv
<1> QED BY ElevatedAlways, <1>1, PTL

\* No elevated child installs once the batch is released, whoever dies and
\* whenever the wait under sudo is cut short, but for the child of a UAC prompt
\* whose wait was killed (batch-lock.ts:13-15, elevation.ts:161-166, 337).
THEOREM NoOutsideInstall == Spec => []NoInstallOutsideBatch
<1>1. IInv => NoInstallOutsideBatch
  BY DEF IInv, Together, NoInstallOutsideBatch, IsWindows
<1> QED BY ElevatedAlways, <1>1, PTL

\* And that child is the only one: once a run has its answer no child begins to
\* install, even if the prompt is accepted long after (elevation.ts:107-109).
THEOREM NoLateStart == Spec => NothingStartsAfterTheAnswer
<1> DEFINE Removed == HasAnswered => input = "removed"
<1>1. Init => Removed
  BY DEF Init, HasAnswered
<1>2. Removed /\ [Next]_<<platform, vars>> => Removed'
  <2> SUFFICES ASSUME Removed, [Next]_<<platform, vars>> PROVE Removed'
    OBVIOUS
  <2>1. CASE UNCHANGED <<platform, vars>>
    BY <2>1 DEF vars, HasAnswered
  <2>2. CASE Parent
    BY <2>2 DEF Parent, Launch, SpawnerThrows, SpawnerReturns, ReadBatchOutput, ReleaseBatch, Answer, HasAnswered
  <2>3. CASE Accept \/ Refuse \/ WaiterEnds \/ KillWaiter
    BY <2>3 DEF Accept, Refuse, WaiterEnds, KillWaiter, HasAnswered
  <2>4. CASE Child
    BY <2>4 DEF Child, ReadBatchInput, RunOneTarget, WriteBatchOutput, ChildDies, Exit, HasAnswered
  <2> QED BY <2>1, <2>2, <2>3, <2>4 DEF Next
<1>3. Removed /\ [Next]_<<platform, vars>> =>
        [HasAnswered /\ child' = "updating" => child = "updating"]_vars
  <2> SUFFICES ASSUME Removed, Next, HasAnswered, child' = "updating" PROVE child = "updating"
    BY DEF vars
  <2>1. CASE Parent \/ Accept \/ Refuse \/ WaiterEnds \/ KillWaiter
    BY <2>1 DEF Parent, Launch, SpawnerThrows, SpawnerReturns, ReadBatchOutput, ReleaseBatch, Answer,
                Accept, Refuse, WaiterEnds, KillWaiter
  <2>2. CASE Child
    BY <2>2 DEF Child, ReadBatchInput, RunOneTarget, WriteBatchOutput, ChildDies, Exit
  <2> QED BY <2>1, <2>2 DEF Next
<1> HIDE DEF Removed
<1> QED BY <1>1, <1>2, <1>3, PTL DEF Spec, NothingStartsAfterTheAnswer
-----------------------------------------------------------------------------
(* The elevated step ends.                                                 *)

\* What is left of each process, and of the targets.
ParentLeft == CASE parent = "writing" -> 4 [] parent = "waiting" -> 3 [] parent = "reading" -> 2
                [] parent = "returned" -> 1 [] parent = "released" -> 0
PromptLeft == CASE prompt = "none" -> 2 [] prompt = "open" -> 1 [] prompt = "answered" -> 0
WaiterLeft == CASE waiter = "none" -> 2 [] waiter = "running" -> 1
                [] waiter \in {"succeeded", "failed", "killed"} -> 0
ChildLeft  == CASE child = "none" -> 3 [] child = "reading" -> 2 [] child = "updating" -> 1
                [] child = "exited" -> 0
TargetsLeft == {t \in Targets : ~IsDone(t)}

StepsLeft == ParentLeft + PromptLeft + WaiterLeft + ChildLeft + Cardinality(TargetsLeft)

\* The parts of StepsLeft are natural numbers.
LEMMA PartsLeft ==
  ASSUME TypeOK
  PROVE  /\ ParentLeft \in 0..4 /\ PromptLeft \in 0..2 /\ WaiterLeft \in 0..2 /\ ChildLeft \in 0..3
         /\ IsFiniteSet(TargetsLeft) /\ Cardinality(TargetsLeft) \in 0..N
<1>1. /\ ParentLeft \in 0..4 /\ PromptLeft \in 0..2 /\ WaiterLeft \in 0..2 /\ ChildLeft \in 0..3
  BY DEF TypeOK, ParentLeft, PromptLeft, WaiterLeft, ChildLeft
<1>2. IsFiniteSet(Targets) /\ Cardinality(Targets) = N
  BY FS_Interval, ElevatedAssumption DEF Targets
<1>3. IsFiniteSet(TargetsLeft) /\ Cardinality(TargetsLeft) <= N /\ Cardinality(TargetsLeft) \in Nat
  BY <1>2, FS_Subset, FS_CardinalityType DEF TargetsLeft
<1> QED BY <1>1, <1>3, ElevatedAssumption

\* A target done is one target less to do.
LEMMA OneTargetLess ==
  ASSUME TypeOK, NEW t \in Targets, NEW result \in Outcomes, RunOneTarget(t, result)
  PROVE  Cardinality(TargetsLeft') = Cardinality(TargetsLeft) - 1
<1>1. t \in TargetsLeft /\ TargetsLeft' = TargetsLeft \ {t}
  BY DEF RunOneTarget, TypeOK, TargetsLeft, IsDone, Outcomes
<1> QED BY <1>1, PartsLeft, FS_RemoveElement

\* Each step leaves fewer to do.
LEMMA LessIsLeft == IInv /\ IInv' /\ [Next]_<<platform, vars>> => [StepsLeft' < StepsLeft]_<<platform, vars>>
<1> SUFFICES ASSUME IInv, IInv', Next PROVE StepsLeft' < StepsLeft
  OBVIOUS
<1>1. /\ ParentLeft \in Int /\ PromptLeft \in Int /\ WaiterLeft \in Int /\ ChildLeft \in Int
      /\ Cardinality(TargetsLeft) \in Int
  BY PartsLeft, ElevatedAssumption DEF IInv
<1>2. /\ ParentLeft' \in Int /\ PromptLeft' \in Int /\ WaiterLeft' \in Int /\ ChildLeft' \in Int
  <2>1. TypeOK'
    BY DEF IInv
  <2> QED BY <2>1 DEF TypeOK, ParentLeft, PromptLeft, WaiterLeft, ChildLeft
<1>3. UNCHANGED actual => UNCHANGED Cardinality(TargetsLeft)
  BY DEF TargetsLeft, IsDone
<1>4. /\ UNCHANGED parent => UNCHANGED ParentLeft
      /\ UNCHANGED prompt => UNCHANGED PromptLeft
      /\ UNCHANGED waiter => UNCHANGED WaiterLeft
      /\ UNCHANGED child => UNCHANGED ChildLeft
  BY DEF ParentLeft, PromptLeft, WaiterLeft, ChildLeft
<1>5. ASSUME NEW t \in Targets, NEW result \in Outcomes, RunOneTarget(t, result) PROVE StepsLeft' < StepsLeft
  <2>1. UNCHANGED <<parent, prompt, waiter, child>>
    BY <1>5 DEF RunOneTarget
  <2> QED BY <1>1, <1>4, <1>5, <2>1, OneTargetLess DEF IInv, StepsLeft
<1>6. ASSUME UNCHANGED actual,
             /\ ParentLeft' <= ParentLeft /\ PromptLeft' <= PromptLeft
             /\ WaiterLeft' <= WaiterLeft /\ ChildLeft' <= ChildLeft,
             \/ ParentLeft' < ParentLeft \/ PromptLeft' < PromptLeft
             \/ WaiterLeft' < WaiterLeft \/ ChildLeft' < ChildLeft
      PROVE  StepsLeft' < StepsLeft
  BY <1>1, <1>2, <1>3, <1>6 DEF StepsLeft
<1>7. CASE Launch
  <2>1. parent = "writing" /\ prompt = "none" /\ waiter = "none" /\ UNCHANGED <<child, actual>>
        /\ parent' = "waiting" /\ prompt' = "open" /\ waiter' = "running"
    BY <1>7 DEF Launch, IInv, Together
  <2>2. ParentLeft' < ParentLeft /\ PromptLeft' < PromptLeft /\ WaiterLeft' < WaiterLeft
    BY <2>1 DEF ParentLeft, PromptLeft, WaiterLeft
  <2> QED BY <1>1, <1>2, <1>4, <1>6, <2>1, <2>2
<1>8. CASE SpawnerThrows \/ SpawnerReturns \/ ReadBatchOutput \/ ReleaseBatch
  <2>1. UNCHANGED <<prompt, waiter, child, actual>>
        /\ \/ parent = "waiting" /\ parent' \in {"returned", "reading"}
           \/ parent = "reading" /\ parent' = "returned"
           \/ parent = "returned" /\ parent' = "released"
    BY <1>8 DEF SpawnerThrows, SpawnerReturns, ReadBatchOutput, ReleaseBatch, Answer
  <2>2. ParentLeft' < ParentLeft
    BY <2>1 DEF ParentLeft
  <2> QED BY <1>1, <1>2, <1>4, <1>6, <2>1, <2>2
<1>9. CASE Accept \/ Refuse
  <2>1. UNCHANGED <<parent, actual>> /\ prompt = "open" /\ prompt' = "answered" /\ child = "none"
        /\ (child' = "reading" \/ UNCHANGED child) /\ (waiter = "running" \/ UNCHANGED waiter)
        /\ (waiter' = "failed" \/ UNCHANGED waiter)
    BY <1>9 DEF Accept, Refuse, IInv, Together
  <2>2. PromptLeft' < PromptLeft
    BY <2>1 DEF PromptLeft
  <2>3. child' = "reading" => ChildLeft' < ChildLeft
    BY <2>1 DEF ChildLeft
  <2>4. waiter = "running" /\ waiter' = "failed" => WaiterLeft' < WaiterLeft
    BY DEF WaiterLeft
  <2> QED BY <1>1, <1>2, <1>4, <1>6, <2>1, <2>2, <2>3, <2>4
<1>10. CASE WaiterEnds
  <2>1. UNCHANGED <<parent, prompt, child, actual>> /\ waiter = "running"
        /\ waiter' \in {"succeeded", "failed"}
    BY <1>10 DEF WaiterEnds
  <2>2. WaiterLeft' < WaiterLeft
    BY <2>1 DEF WaiterLeft
  <2> QED BY <1>1, <1>2, <1>4, <1>6, <2>1, <2>2
<1>11. CASE KillWaiter
  <2>1. UNCHANGED <<parent, actual>> /\ waiter = "running" /\ waiter' = "killed"
        /\ (prompt' = "answered" \/ UNCHANGED prompt) /\ (child' = "exited" \/ UNCHANGED child)
    BY <1>11 DEF KillWaiter
  <2>2. WaiterLeft' < WaiterLeft
    BY <2>1 DEF WaiterLeft
  <2>3. /\ PromptLeft \in 0..2 /\ (prompt' = "answered" => PromptLeft' = 0)
        /\ ChildLeft \in 0..3 /\ (child' = "exited" => ChildLeft' = 0)
    BY PartsLeft DEF IInv, PromptLeft, ChildLeft
  <2> QED BY <1>1, <1>2, <1>4, <1>6, <2>1, <2>2, <2>3
<1>12. CASE ReadBatchInput \/ WriteBatchOutput \/ ChildDies
  <2>1. UNCHANGED <<parent, prompt, waiter, actual>>
        /\ \/ child = "reading" /\ child' \in {"updating", "exited"}
           \/ child = "updating" /\ child' = "exited"
    BY <1>12 DEF ReadBatchInput, WriteBatchOutput, ChildDies, Exit
  <2>2. ChildLeft' < ChildLeft
    BY <2>1 DEF ChildLeft
  <2> QED BY <1>1, <1>2, <1>4, <1>6, <2>1, <2>2
<1> QED BY <1>5, <1>7, <1>8, <1>9, <1>10, <1>11, <1>12 DEF Next, Parent, Child

\* The elevated step cannot go on for ever: whatever the user, the timer and
\* the processes do, it takes N + 11 steps at most (elevation.ts:95-110,
\* admin-batch.ts).
THEOREM FewSteps == Spec => [](StepsLeft \in 0..(N + 11)) /\ [][StepsLeft' < StepsLeft]_<<platform, vars>>
<1>1. ASSUME IInv PROVE StepsLeft \in 0..(N + 11)
  BY <1>1, PartsLeft, ElevatedAssumption DEF IInv, StepsLeft
<1> QED BY ElevatedAlways, LessIsLeft, <1>1, PTL DEF Spec

\* Somebody has something to do: the parent, whose waiter is over; the user,
\* who has not answered; the child, with its input, with its next target or
\* with its output; or the waiter, whose child is over.
SomebodyCanMove ==
  \/ waiter \in {"succeeded", "failed", "killed"}
  \/ prompt = "open"
  \/ child = "reading"
  \/ child = "updating" /\ \E t \in Targets : ~IsDone(t) /\ \A u \in 1..(t - 1) : IsDone(u)
  \/ child = "updating" /\ \A t \in Targets : IsDone(t)
  \/ child = "exited" /\ waiter = "running"

\* Why: a run that waits has started its waiter, and who waits for an answered
\* prompt has a child.
Started ==
  /\ parent = "waiting" => waiter # "none" /\ prompt # "none"
  /\ waiter = "running" /\ prompt = "answered" => child # "none"

LEMMA StartedStep == IInv /\ Started /\ [Next]_<<platform, vars>> => Started'
<1> SUFFICES ASSUME IInv, Started, [Next]_<<platform, vars>> PROVE Started'
  OBVIOUS
<1> USE DEF Started
<1>1. CASE UNCHANGED <<platform, vars>>
  BY <1>1 DEF vars
<1>2. CASE Parent
  BY <1>2 DEF Parent, Launch, SpawnerThrows, SpawnerReturns, ReadBatchOutput, ReleaseBatch, Answer
<1>3. CASE Accept \/ Refuse \/ WaiterEnds \/ KillWaiter
  BY <1>3 DEF Accept, Refuse, WaiterEnds, KillWaiter
<1>4. CASE Child
  BY <1>4 DEF Child, ReadBatchInput, RunOneTarget, WriteBatchOutput, ChildDies, Exit
<1> QED BY <1>1, <1>2, <1>3, <1>4 DEF Next

\* A child that is not through has a next target.
LEMMA NextTarget ==
  \/ \A t \in Targets : IsDone(t)
  \/ \E t \in Targets : ~IsDone(t) /\ \A u \in 1..(t - 1) : IsDone(u)
<1> SUFFICES ASSUME TargetsLeft # {} PROVE \E t \in Targets : ~IsDone(t) /\ \A u \in 1..(t - 1) : IsDone(u)
  BY DEF TargetsLeft
<1>0. N \in Nat /\ Targets \subseteq Nat /\ TargetsLeft \subseteq Nat
  BY ElevatedAssumption DEF Targets, TargetsLeft
<1>1. PICK t \in TargetsLeft : \A u \in TargetsLeft : ~ (<<u, t>> \in OpToRel(<, Nat))
  BY <1>0, NatLessThanWellFounded, WFMin
<1>2. ASSUME NEW u \in 1..(t - 1) PROVE IsDone(u)
  <2>1. u \in Targets /\ u \in Nat /\ t \in Nat /\ u < t
    BY <1>0 DEF TargetsLeft, Targets
  <2>2. <<u, t>> \in OpToRel(<, Nat)
    BY <2>1 DEF OpToRel
  <2>3. u \notin TargetsLeft
    BY <1>1, <2>2
  <2> QED BY <2>1, <2>3 DEF TargetsLeft
<1> QED BY <1>2 DEF TargetsLeft

\* Nor can it get stuck before its answer: the prompt declined, the child dead
\* or the waiter killed, somebody can move (elevation.ts:95-110).  With
\* FewSteps, a run whose processes go on when they can has its answer.
THEOREM NobodyIsStuck == Spec => [](parent = "waiting" => SomebodyCanMove)
<1>1. Init => Started
  BY DEF Init, Started
<1>2. ASSUME IInv, Started, parent = "waiting" PROVE SomebodyCanMove
  <2>1. /\ waiter \in {"running", "succeeded", "failed", "killed"}
        /\ prompt \in {"open", "answered"} /\ child \in {"none", "reading", "updating", "exited"}
    BY <1>2 DEF IInv, TypeOK, Started
  <2>2. waiter = "running" /\ prompt = "answered" => child \in {"reading", "updating", "exited"}
    BY <1>2, <2>1 DEF Started
  <2> QED BY <2>1, <2>2, NextTarget DEF SomebodyCanMove
<1> QED BY ElevatedAlways, StartedStep, <1>1, <1>2, PTL DEF Spec
=============================================================================
