---------------------------- MODULE RunViewProofs ----------------------------
(***************************************************************************)
(* What is proved of RunView, for any packages and requests: the view      *)
(* never leads the run to a step the pipeline does not have, so that what  *)
(* is proved of UpdatePipeline holds under the view; the screen tells the  *)
(* run; and a stopped run goes to its end with nothing in its way.         *)
(***************************************************************************)
EXTENDS RunView, UpdatePipelineProofs, WellFoundedInduction

\* What the levers and the dialogs decide from, against the run: the model is
\* elevating when the run is, the results are shown when it is done, a
\* question is open only while the run asks it, and no dialog outlives it.
PhaseInv ==
  IsView =>
    /\ ~IsOver => (phase = "elevating" <=> pc \in {"preparing", "elevating"})
    /\ pc = "done" => phase = "done"

DialogInv ==
  /\ dialog # "none" => IsView
  /\ dialog = "question" => IsAsking
  /\ pc = "failed" => dialog = "none"

\* The steps of the pipeline that the view hides or shows are the pipeline's.
LEMMA WatchedSteps ==
  /\ ViewProgress => Progress
  /\ ViewAttempt => Attempt
  /\ ViewFails => Fail
  /\ Outside => ChildEnds \/ InstallTimeout \/ OtherRunEnds
  /\ AnswerUnseen \/ AnswerQuestion \/ AnswerElsewhere => Answer
  /\ LeverElsewhere => Lever
BY DEF ViewProgress, Unseen, Seen, Progress, ViewAttempt, Attempt, ViewFails, Outside, AnswerUnseen,
  AnswerQuestion, AnswerElsewhere, No, Answer, LeverElsewhere, Lever

\* stopNow, pressed before the run is over, is a stop of the pipeline's.
LEMMA StopNowStops ==
  ASSUME ControlInv, PhaseInv, IsView, ~IsOver, StopNow
  PROVE  StopInView
<1>1. /\ driver = "runView" /\ stopped' = TRUE /\ Fixed
      /\ UNCHANGED <<pc, batch, outcome, cancelled, loop, timerFired>>
  BY DEF IsView, StopNow, UntouchedByLevers
<1>2. CASE phase = "elevating"
  <2>1. pc \in {"preparing", "elevating"} /\ (child # "none" => pc = "elevating")
    BY <1>2 DEF PhaseInv, ControlInv, SlotInv
  <2>2. UNCHANGED <<installs, child, pending, flags, hit>>
    BY <1>2 DEF StopNow
  <2> QED BY <1>1, <2>1, <2>2 DEF StopInView, IsInterruptible
<1>3. CASE phase # "elevating"
  <2>1. pc # "elevating"
    BY <1>3 DEF PhaseInv
  <2> QED BY <1>1, <1>3, <2>1 DEF StopNow, SkipCurrent, StopInView, IsInterruptible
<1> QED BY <1>2, <1>3

\* Each lever of the view is a lever of the pipeline, or moves a dialog.
LEMMA ViewLevers ==
  ASSUME ControlInv, PhaseInv, DialogInv, PressSkip \/ PressStop \/ PressCtrlCTwice \/ AnswerStop
  PROVE  SkipInView \/ StopInView \/ UNCHANGED vars
<1>1. CASE PressSkip
  <2>1. child # "none" /\ pc \notin {"preparing", "elevating"} /\ driver = "runView"
    BY <1>1 DEF PressSkip, HasLevers, PhaseInv, IsInterruptible, IsView
  <2>2. pc = "installing"
    BY <2>1 DEF ControlInv, SlotInv
  <2> QED BY <1>1, <2>1, <2>2 DEF PressSkip, SkipInView, UntouchedByLevers
<1>2. CASE PressStop
  BY <1>2, StopNowStops DEF PressStop, HasLevers
<1>3. CASE PressCtrlCTwice
  BY <1>3, StopNowStops DEF PressCtrlCTwice, HasLevers
<1>4. CASE AnswerStop
  <2>1. CASE UNCHANGED <<vars, screen, stopping>>
    BY <2>1
  <2>2. CASE phase # "done" /\ StopNow
    <3>1. IsView /\ ~IsOver
      BY <1>4, <2>2 DEF AnswerStop, DialogInv, PhaseInv, IsOver
    <3> QED BY <2>2, <3>1, StopNowStops
  <2> QED BY <1>4, <2>1, <2>2 DEF AnswerStop
<1> QED BY <1>1, <1>2, <1>3, <1>4

\* A step of the view is a step of the pipeline, or none.
LEMMA ViewStepMaps ==
  ControlInv /\ PhaseInv /\ DialogInv /\ [ViewNext]_viewVars => [Next]_vars
<1> SUFFICES ASSUME ControlInv, PhaseInv, DialogInv, [ViewNext]_viewVars PROVE [Next]_vars
  OBVIOUS
<1>1. CASE UNCHANGED viewVars
  BY <1>1 DEF viewVars
<1>2. CASE ViewProgress \/ ViewAttempt \/ ViewFails \/ Outside \/ AnswerUnseen \/ AnswerQuestion
           \/ AnswerElsewhere \/ LeverElsewhere
  BY <1>2, WatchedSteps DEF Next
<1>3. CASE OpenQuestion
  BY <1>3 DEF OpenQuestion
<1>4. CASE PressSkip \/ PressStop \/ PressCtrlCTwice \/ AnswerStop
  BY <1>4, ViewLevers DEF Next, Lever
<1> QED BY <1>1, <1>2, <1>3, <1>4 DEF ViewNext

-----------------------------------------------------------------------------
(* What the screen shows.                                                  *)

\* Once the plan is shown: only the elevated items are shown elevating, the
\* package in flight is shown running and, when no package is asked for
\* twice, what has an outcome shows it.
ShownInv ==
  IsView /\ pc # "start" =>
    /\ \A i \in Items : shown[i] = "elevating" => i \in Elevated
    /\ current # NoItem => shown[current] = "running"
    /\ IsDistinct /\ pc # "done" =>
         \A i \in Items \ {current} : outcome[i] # "none" => shown[i] = StateOf(outcome[i])
    /\ IsDistinct /\ pc = "done" =>
         shown = [i \in Items |-> IF i \in cancelled THEN "cancelled" ELSE StateOf(outcome[i])]

\* The elevated items wait for the elevated step.
ElevatedLater ==
  /\ InDirect => todo \subseteq Direct /\ current \in Direct \cup {NoItem}
  /\ InDirect \/ InElevated \/ pc \in {"start", "enter", "waiting"} =>
       \A i \in Elevated : outcome[i] = "none"
  /\ pc \in {"start", "enter", "waiting"} => \A i \in Items : outcome[i] = "none"
\* A set of items has a last one.
LEMMA LastItem ==
  ASSUME TypeOK, NEW S, S \subseteq Items, S # {}
  PROVE  \E k \in S : \A l \in S : l <= k
<1> DEFINE n == Len(requests)
           T == {m \in Nat : n - m \in S}
<1>1. n \in Nat /\ Items = 1..n
  BY PipelineAssumption DEF TypeOK, Items
<1> HIDE DEF n
<1>2. PICK s \in S : TRUE
  OBVIOUS
<1>3. n - s \in T
  BY <1>1, <1>2
<1>4. PICK m \in T : \A y \in T : ~ (<<y, m>> \in OpToRel(<, Nat))
  <2>1. T \subseteq Nat /\ T # {}
    BY <1>3
  <2> HIDE DEF T
  <2> QED BY <2>1, NatLessThanWellFounded, WFMin
<1>5. ASSUME NEW y \in T PROVE m <= y
  <2>1. y \in Nat /\ m \in Nat
    BY <1>5
  <2>2. y < m => <<y, m>> \in {ss \in Nat \X Nat : ss[1] < ss[2]}
    BY <2>1
  <2>3. ~(<<y, m>> \in {ss \in Nat \X Nat : ss[1] < ss[2]})
    BY <1>4 DEF OpToRel
  <2> QED BY <2>1, <2>2, <2>3
<1>6. n - m \in S
  BY <1>4
<1>7. ASSUME NEW l \in S PROVE l <= n - m
  <2>1. n - l \in T /\ l \in Nat
    BY <1>1, <1>7
  <2>2. m <= n - l /\ m \in Nat
    BY <1>4, <1>5, <2>1
  <2> QED BY <1>1, <2>1, <2>2
<1> QED BY <1>6, <1>7

\* The outcome a provider gave is shown as such.
LEMMA OutcomesAreShown ==
  ASSUME NEW o \in Outcomes
  PROVE  StateOf(o) \in {"succeeded", "skipped", "failed"}
BY DEF StateOf, Outcomes, RawOutcomes

\* What FinishedShown shows: of each item, an outcome of an item of K for the
\* same package, if there is one.
LEMMA FinishedShows ==
  ASSUME TypeOK, NEW K, K \subseteq Items, UNCHANGED requests, FinishedShown(K),
         \A k \in K : outcome'[k] \in Outcomes
  PROVE  /\ shown' = [i \in Items |-> shown'[i]]
         /\ \A i \in Items : K \cap SamePackage(i) = {} => shown'[i] = shown[i]
         /\ \A i \in Items : K \cap SamePackage(i) # {} =>
              \E k \in K \cap SamePackage(i) : shown'[i] = StateOf(outcome'[k])
<1> DEFINE last(i) == CHOOSE k \in K \cap SamePackage(i) : \A l \in K \cap SamePackage(i) : l <= k
<1>1. shown' = [i \in Items |-> IF K \cap SamePackage(i) = {} THEN shown[i] ELSE StateOf(outcome'[last(i)])]
  BY DEF FinishedShown, Replaced
<1>2. ASSUME NEW i \in Items, K \cap SamePackage(i) # {}
      PROVE  last(i) \in K \cap SamePackage(i)
  <2>1. \E k \in K \cap SamePackage(i) : \A l \in K \cap SamePackage(i) : l <= k
    BY <1>2, LastItem
  <2> QED BY <2>1
<1> HIDE DEF last
<1> QED BY <1>1, <1>2

\* When no package is asked for twice, an item is alone.
LEMMA Alone ==
  ASSUME IsDistinct, NEW i \in Items
  PROVE  SamePackage(i) = {i}
BY DEF IsDistinct, SamePackage
\* No step changes what is asked for, or who asks.
LEMMA RequestStays == [Next]_vars => UNCHANGED <<driver, requests>>
<1> SUFFICES ASSUME [Next]_vars PROVE UNCHANGED <<driver, requests>>
  OBVIOUS
<1>1. CASE UNCHANGED vars
  BY <1>1 DEF vars
<1>2. CASE Next
  BY <1>2, NextActions
  DEF Fixed, Plan, TakeBatch, FindBusy, AbandonWait, EnterFails, OtherRunEnds, StartDirect, StartReplay,
      StartInstall, ChildEnds, InstallReturns, Settle, EndDirect, ConsiderElevation, ConfirmElevation,
      DeclineElevation, Elevate, ElevatedReturns, ElevationSetupFails, EndRetries, AskRetry, ChooseTier,
      ChooseNone, EndReplay, Report, CancelPrompt, PressCtrlC, SkipInView, StopInView, CloseGate,
      StopSignal, DeadlinePasses, InstallTimeout
<1> QED BY <1>1, <1>2

\* No elevated item has an outcome before the elevated step.
LEMMA ElevatedLaterStep ==
  ControlInv /\ TierInv /\ ElevatedLater /\ [Next]_vars => ElevatedLater'
<1> SUFFICES ASSUME ControlInv, TierInv, ElevatedLater, [Next]_vars PROVE ElevatedLater'
  OBVIOUS
<1>a. UNCHANGED <<Items, Direct, Elevated>> /\ Items = Direct \cup Elevated /\ Direct \cap Elevated = {}
  BY RequestStays, DirectOrElevated DEF Items, Direct, Elevated
<1>b. TypeOK /\ (current # NoItem <=> pc = "installing") /\ (pc # "installing" => current = NoItem)
  BY DEF ControlInv, SlotInv
<1> USE <1>a, <1>b DEF ElevatedLater, InDirect, InElevated, TierInv
<1>1. CASE UNCHANGED vars
  BY <1>1 DEF vars, loop
<1>2. CASE \/ PressCtrlC \/ SkipInView \/ StopInView \/ CloseGate \/ InstallTimeout
           \/ ChildEnds \/ OtherRunEnds \/ StartInstall \/ InstallReturns
  BY <1>2, Asides DEF loop
<1>3. CASE Plan \/ TakeBatch \/ AbandonWait
  BY <1>3 DEF Plan, TakeBatch, AbandonWait, BeginDirect
<1>4. CASE FindBusy \/ EnterFails
  BY <1>4 DEF FindBusy, EnterFails, loop
<1>5. ASSUME NEW i \in Items, StartDirect(i) PROVE ElevatedLater'
  <2>1. pc = "direct" /\ tier' = tier /\ todo' = todo \ {i} /\ i \in Direct
    BY <1>5 DEF StartDirect, TakeNext
  <2>2. CASE Start(i) /\ UNCHANGED outcome
    BY <2>1, <2>2 DEF Start
  <2>3. CASE outcome' = [outcome EXCEPT ![i] = "skipped"] /\ UNCHANGED <<pc, current>>
    BY <2>1, <2>3 DEF TypeOK
  <2> QED BY <1>5, <2>2, <2>3 DEF StartDirect
<1>6. ASSUME NEW i \in Items, StartReplay(i) PROVE ElevatedLater'
  BY <1>6 DEF StartReplay, Start
<1>7. ASSUME NEW raw \in RawOutcomes, Settle(raw) PROVE ElevatedLater'
  BY <1>7 DEF Settle
<1>8. CASE EndDirect \/ ConsiderElevation \/ ConfirmElevation \/ Elevate \/ ElevationSetupFails
  BY <1>8 DEF EndDirect, ConsiderElevation, ConfirmElevation, Elevate, ElevationSetupFails, loop
<1>9. CASE DeclineElevation \/ ElevatedReturns
  BY <1>9 DEF DeclineElevation, ElevatedReturns, SettleElevated, loop
<1>10. ASSUME NEW t \in Tiers, ChooseTier(t) PROVE ElevatedLater'
  BY <1>10 DEF ChooseTier
<1>11. CASE EndRetries \/ AskRetry \/ ChooseNone \/ EndReplay \/ Report \/ CancelPrompt
  BY <1>11 DEF EndRetries, AskRetry, ChooseNone, EndReplay, Report, CancelPrompt, loop
<1> QED
  BY <1>1, <1>2, <1>3, <1>4, <1>5, <1>6, <1>7, <1>8, <1>9, <1>10, <1>11, NextActions

\* The steps that neither the model nor the screen sees.
LEMMA UnseenStep ==
  ASSUME PhaseInv, ShownInv, ControlInv, UNCHANGED <<driver, requests, screen>>,
         UNCHANGED <<outcome, current, cancelled>>,
         pc' = "done" => pc = "done",
         pc = "done" => pc' = "done",
         IsView /\ pc' \notin {"done", "failed"} =>
           pc \notin {"done", "failed"}
             /\ (pc' \in {"preparing", "elevating"} <=> pc \in {"preparing", "elevating"}),
         pc = "start" => pc' = "start"
  PROVE  PhaseInv' /\ ShownInv'
<1>1. UNCHANGED <<Items, Elevated, IsDistinct, IsView, phase, shown>>
  BY DEF Items, Elevated, IsDistinct, IsView, screen
<1> QED BY <1>1 DEF PhaseInv, ShownInv, IsOver
\* The dialogs follow the run.
LEMMA DialogStep ==
  ControlInv /\ PhaseInv /\ DialogInv /\ [ViewNext]_viewVars => DialogInv'
<1> SUFFICES ASSUME ControlInv, PhaseInv, DialogInv, [ViewNext]_viewVars PROVE DialogInv'
  OBVIOUS
<1>a. IsView' = IsView
  BY ViewStepMaps, RequestStays DEF IsView
<1> USE <1>a DEF DialogInv, IsAsking, Questions
<1>1. CASE UNCHANGED viewVars
  BY <1>1 DEF viewVars, vars
<1>2. CASE ViewProgress
  <2>1. Progress /\ UNCHANGED dialog
    BY <1>2, WatchedSteps DEF ViewProgress, NoTurn
  <2>2. ~IsAsking /\ pc' # "failed"
    BY <2>1 DEF Progress, Plan, TakeBatch, FindBusy, AbandonWait, EndDirect, ConsiderElevation, Elevate,
      ElevatedReturns, SettleElevated, EndRetries, AskRetry, EndReplay, Report, BeginDirect
  <2> QED BY <2>1, <2>2
<1>3. CASE ViewAttempt
  <2>1. Attempt /\ UNCHANGED dialog
    BY <1>3, WatchedSteps DEF ViewAttempt, NoTurn
  <2>2. ~IsAsking /\ (pc' = "failed" => pc = "failed")
    BY <2>1 DEF Attempt, StartDirect, StartReplay, Start, StartInstall, InstallReturns, Settle
  <2> QED BY <2>1, <2>2
<1>4. CASE ViewFails
  BY <1>4 DEF ViewFails
<1>5. CASE Outside
  BY <1>5 DEF Outside, ChildEnds, InstallTimeout, OtherRunEnds
<1>6. CASE OpenQuestion
  BY <1>6 DEF OpenQuestion, vars
<1>7. CASE AnswerUnseen
  <2>1. dialog' = "none"
    BY <1>7 DEF AnswerUnseen, NoTurn
  <2> QED BY <2>1
<1>8. CASE AnswerQuestion
  BY <1>8 DEF AnswerQuestion
<1>9. CASE AnswerElsewhere
  BY <1>9 DEF AnswerElsewhere
<1>10. CASE PressSkip
  BY <1>10 DEF PressSkip, UntouchedByLevers
<1>11. CASE PressStop
  BY <1>11 DEF PressStop, HasLevers, StopNow, UntouchedByLevers, IsOver, vars
<1>12. CASE PressCtrlCTwice
  BY <1>12 DEF PressCtrlCTwice, StopNow, UntouchedByLevers
<1>13. CASE AnswerStop
  BY <1>13 DEF AnswerStop
<1>14. CASE LeverElsewhere
  BY <1>14 DEF LeverElsewhere
<1> QED BY <1>1, <1>2, <1>3, <1>4, <1>5, <1>6, <1>7, <1>8, <1>9, <1>10, <1>11, <1>12, <1>13, <1>14
  DEF ViewNext

\* The package in flight is shown running: the others stay as they were.
LEMMA StartShows ==
  ASSUME TypeOK, PhaseInv, ShownInv, IsView, NEW i \in Items, current = NoItem,
         pc \in {"direct", "replay"}, Start(i), StartedShown(i),
         UNCHANGED <<driver, requests, outcome, cancelled>>
  PROVE  PhaseInv' /\ ShownInv'
<1>1. UNCHANGED <<Items, Elevated, IsDistinct, IsView>> /\ pc' = "installing" /\ current' = i /\ phase' = "running"
  BY DEF Items, Elevated, IsDistinct, IsView, Start, StartedShown
<1>2. shown' = [j \in Items |-> IF {i} \cap SamePackage(j) = {} THEN shown[j] ELSE "running"]
  BY DEF StartedShown, Replaced
<1>3. i \in SamePackage(i)
  BY DEF SamePackage
<1>4. \A j \in Items : shown'[j] = shown[j] \/ shown'[j] = "running"
  BY <1>2
<1>5. shown'[i] = "running"
  BY <1>2, <1>3
<1>6. IsDistinct => \A j \in Items \ {i} : shown'[j] = shown[j]
  BY <1>2, Alone
<1> QED BY ItemsAreNotNoItem, <1>1, <1>4, <1>5, <1>6 DEF PhaseInv, ShownInv, IsOver

\* An attempt's outcome is shown.
LEMMA SettleShows ==
  ASSUME ControlInv, PhaseInv, ShownInv, IsView, NEW raw \in RawOutcomes, Settle(raw), FinishedShown({current})
  PROVE  PhaseInv' /\ ShownInv'
<1>1. TypeOK /\ pc = "installing" /\ current \in Items /\ UNCHANGED <<driver, requests>>
      /\ current' = NoItem /\ pc' \in {"direct", "replay"} /\ NoItem \notin Items
  BY ItemsAreNotNoItem DEF ControlInv, SlotInv, TypeOK, Settle, Fixed
<1>2. UNCHANGED <<Items, Elevated, IsDistinct, IsView>>
  BY <1>1 DEF Items, Elevated, IsDistinct, IsView
<1>3. /\ outcome'[current] \in Outcomes
      /\ \A i \in Items : IsDistinct /\ i # current => outcome'[i] = outcome[i]
  <2>1. outcome'[current] = Finalized(raw)
    BY <1>1 DEF Settle
  <2>2. \A i \in Items : IsDistinct /\ i # current => outcome'[i] = outcome[i]
    BY <1>1, Alone DEF Settle
  <2> QED BY <2>1, <2>2 DEF Finalized, Outcomes
<1>4. /\ shown' = [i \in Items |-> shown'[i]]
      /\ \A i \in Items : current \notin SamePackage(i) => shown'[i] = shown[i]
      /\ \A i \in Items : current \in SamePackage(i) => shown'[i] = StateOf(outcome'[current])
  BY <1>1, <1>3, FinishedShows
<1>5. phase' # "elevating"
  BY <1>1 DEF FinishedShown, PhaseInv, IsOver
<1>6. \A i \in Items : shown'[i] = "elevating" => i \in Elevated
  BY <1>1, <1>3, <1>4, OutcomesAreShown DEF ShownInv
<1>7. IsDistinct => shown'[current] = StateOf(outcome'[current])
                      /\ \A i \in Items \ {current} : shown'[i] = shown[i]
  BY <1>1, <1>4, Alone
<1> QED BY <1>1, <1>2, <1>3, <1>5, <1>6, <1>7 DEF PhaseInv, ShownInv, IsOver

\* A package no provider can update is shown skipped at once.
LEMMA UnknownShows ==
  ASSUME TypeOK, PhaseInv, ShownInv, IsView, NEW i \in Items, pc = "direct", current = NoItem,
         outcome' = [outcome EXCEPT ![i] = "skipped"], FinishedShown({i}),
         UNCHANGED <<driver, requests, pc, current>>
  PROVE  PhaseInv' /\ ShownInv'
<1>1. UNCHANGED <<Items, Elevated, IsDistinct, IsView>> /\ NoItem \notin Items
  BY ItemsAreNotNoItem DEF Items, Elevated, IsDistinct, IsView
<1>2. outcome'[i] \in Outcomes /\ \A j \in Items \ {i} : outcome'[j] = outcome[j]
  BY DEF TypeOK, Outcomes, RawOutcomes
<1>3. /\ \A j \in Items : i \notin SamePackage(j) => shown'[j] = shown[j]
      /\ \A j \in Items : i \in SamePackage(j) => shown'[j] = StateOf(outcome'[i])
  BY <1>2, FinishedShows
<1>4. phase' # "elevating"
  BY DEF FinishedShown, PhaseInv, IsOver
<1>5. \A j \in Items : shown'[j] = "elevating" => j \in Elevated
  BY <1>2, <1>3, OutcomesAreShown DEF ShownInv
<1>6. IsDistinct => shown'[i] = StateOf(outcome'[i]) /\ \A j \in Items \ {i} : shown'[j] = shown[j]
  BY <1>3, Alone
<1> QED BY <1>1, <1>2, <1>4, <1>5, <1>6 DEF PhaseInv, ShownInv, IsOver

\* The outcomes of the elevated step are shown, and it is over.
LEMMA ElevatedShows ==
  ASSUME ControlInv, PhaseInv, ShownInv, IsView, pc \in {"asking", "elevating"}, FinishedShown(Elevated),
         NEW f, SettleElevated(f), \A i \in Elevated : f[i] \in Outcomes,
         UNCHANGED <<driver, requests, current>>
  PROVE  PhaseInv' /\ ShownInv'
<1>1. UNCHANGED <<Items, Elevated, IsDistinct, IsView>> /\ NoItem \notin Items /\ TypeOK /\ current = NoItem
      /\ pc' = "retry"
  BY ItemsAreNotNoItem DEF Items, Elevated, IsDistinct, IsView, ControlInv, SlotInv, SettleElevated
<1>2. /\ \A i \in Elevated : outcome'[i] \in Outcomes
      /\ \A i \in Items \ Elevated : outcome'[i] = outcome[i]
  BY DEF SettleElevated, Elevated
<1>3. \A i \in Items : IF i \in Elevated THEN i \in Elevated \cap SamePackage(i)
                                         ELSE Elevated \cap SamePackage(i) = {}
  BY DEF Elevated, SamePackage
<1>4. /\ \A i \in Items \ Elevated : shown'[i] = shown[i]
      /\ \A i \in Elevated : \E k \in Elevated \cap SamePackage(i) : shown'[i] = StateOf(outcome'[k])
  <2>1. Elevated \subseteq Items
    BY DEF Elevated
  <2> QED BY <1>1, <1>2, <1>3, <2>1, FinishedShows
<1>5. \A i \in Items : shown'[i] # "elevating"
  BY <1>2, <1>4, OutcomesAreShown DEF ShownInv
<1>6. phase' # "elevating"
  BY <1>5 DEF FinishedShown
<1>7. IsDistinct => \A i \in Elevated : shown'[i] = StateOf(outcome'[i])
  BY <1>4, Alone DEF Elevated
<1> QED BY <1>1, <1>2, <1>4, <1>5, <1>6, <1>7 DEF PhaseInv, ShownInv, IsOver
\* The report: what was never attempted is shown cancelled.
LEMMA ReportShows ==
  ASSUME ControlInv, PhaseInv, ShownInv, IsView, Report, DoneShown
  PROVE  PhaseInv' /\ ShownInv'
<1>1. /\ pc = "report" /\ pc' = "done" /\ UNCHANGED <<driver, requests, outcome, current>>
      /\ current = NoItem /\ NoItem \notin Items /\ phase' = "done"
  BY ItemsAreNotNoItem DEF Report, Fixed, loop, ControlInv, SlotInv, DoneShown
<1>2. UNCHANGED <<Items, Elevated, IsDistinct, IsView>>
  BY <1>1 DEF Items, Elevated, IsDistinct, IsView
<1>3. shown' = [i \in Items |-> IF cancelled' \cap SamePackage(i) = {} THEN shown[i] ELSE "cancelled"]
  BY DEF DoneShown, Replaced
<1>4. IsDistinct => shown' = [i \in Items |-> IF i \in cancelled' THEN "cancelled" ELSE shown[i]]
  BY <1>3, Alone
<1>5. IsDistinct => \A i \in Items : i \notin cancelled' => shown[i] = StateOf(outcome[i])
  BY <1>1, Alone DEF Report, ShownInv
<1>6. IsDistinct => shown' = [i \in Items |-> IF i \in cancelled' THEN "cancelled" ELSE StateOf(outcome[i])]
  BY <1>4, <1>5
<1>7. \A i \in Items : shown'[i] = "elevating" => i \in Elevated
  BY <1>1, <1>3 DEF ShownInv
<1> QED BY <1>1, <1>2, <1>6, <1>7 DEF PhaseInv, ShownInv, IsOver

\* The elevated batch leaves: its items, without an outcome so far, are shown
\* elevating.
LEMMA ElevationShows ==
  ASSUME ControlInv, ElevatedLater, PhaseInv, ShownInv, IsView, ConfirmElevation, ElevationShown
  PROVE  PhaseInv' /\ ShownInv'
<1>1. /\ pc = "asking" /\ pc' = "preparing" /\ UNCHANGED <<driver, requests, outcome, current>>
      /\ current = NoItem /\ phase' = "elevating"
  BY DEF ConfirmElevation, Fixed, loop, ControlInv, SlotInv, ElevationShown
<1>2. UNCHANGED <<Items, Elevated, IsDistinct, IsView>>
  BY <1>1 DEF Items, Elevated, IsDistinct, IsView
<1>3. \A i \in Items : IF i \in Elevated THEN i \in Elevated \cap SamePackage(i)
                                         ELSE Elevated \cap SamePackage(i) = {}
  BY DEF Elevated, SamePackage
<1>4. shown' = [i \in Items |-> IF i \in Elevated THEN "elevating" ELSE shown[i]]
  BY <1>3 DEF ElevationShown, Replaced
<1>5. \A i \in Elevated : outcome[i] = "none"
  BY <1>1 DEF ElevatedLater, InElevated
<1> QED BY <1>1, <1>2, <1>4, <1>5 DEF PhaseInv, ShownInv, IsOver

\* The plan is shown, nothing done.
LEMMA PlanShows ==
  ASSUME ControlInv, ElevatedLater, PhaseInv, IsView, Plan, Planned
  PROVE  PhaseInv' /\ ShownInv'
<1>1. /\ pc = "start" /\ pc' \in {"direct", "enter"} /\ UNCHANGED <<driver, requests, outcome, current>>
      /\ current = NoItem /\ phase' = "running" /\ shown' = [i \in Items |-> "pending"]
  BY DEF Plan, Planned, BeginDirect, Fixed, ControlInv, SlotInv
<1>2. UNCHANGED <<Items, Elevated, IsDistinct, IsView>>
  BY <1>1 DEF Items, Elevated, IsDistinct, IsView
<1>3. \A i \in Items : outcome[i] = "none"
  BY <1>1 DEF ElevatedLater
<1> QED BY <1>1, <1>2, <1>3 DEF PhaseInv, ShownInv, IsOver

\* The batch is busy.
LEMMA WaitShows ==
  ASSUME ControlInv, PhaseInv, ShownInv, IsView, FindBusy, WaitShown
  PROVE  PhaseInv' /\ ShownInv'
<1>1. /\ pc = "enter" /\ pc' = "waiting" /\ UNCHANGED <<driver, requests, outcome, cancelled, current, shown>>
      /\ phase' = "waiting"
  BY DEF FindBusy, WaitShown, Fixed, loop
<1>2. UNCHANGED <<Items, Elevated, IsDistinct, IsView>>
  BY <1>1 DEF Items, Elevated, IsDistinct, IsView
<1> QED BY <1>1, <1>2 DEF PhaseInv, ShownInv, IsOver

\* What the screen shows follows the run.
LEMMA ShownStep ==
  ControlInv /\ ElevatedLater /\ PhaseInv /\ DialogInv /\ ShownInv /\ [ViewNext]_viewVars
    => PhaseInv' /\ ShownInv'
<1> SUFFICES ASSUME ControlInv, ElevatedLater, PhaseInv, DialogInv, ShownInv, [ViewNext]_viewVars
             PROVE  PhaseInv' /\ ShownInv'
  OBVIOUS
<1>a. UNCHANGED <<driver, requests>> /\ IsView' = IsView
  BY ViewStepMaps, RequestStays DEF IsView
<1>b. TypeOK /\ (pc # "installing" => current = NoItem)
  BY DEF ControlInv, SlotInv
<1>c. CASE ~IsView
  BY <1>a, <1>c DEF PhaseInv, ShownInv
<1> SUFFICES ASSUME IsView PROVE PhaseInv' /\ ShownInv'
  BY <1>c
<1>d. driver = "runView"
  BY DEF IsView
<1>1. CASE UNCHANGED viewVars
  BY <1>1, <1>a, UnseenStep DEF viewVars, vars, loop
<1>2. CASE Unseen
  <2>1. UNCHANGED <<outcome, current, cancelled, screen>>
    BY <1>2 DEF Unseen, TakeBatch, AbandonWait, EndDirect, Elevate, EndRetries, AskRetry, EndReplay, loop
  <2>2. /\ pc \notin {"start", "done", "failed"} /\ pc' \notin {"start", "done", "failed"}
        /\ (pc' \in {"preparing", "elevating"} <=> pc \in {"preparing", "elevating"})
    BY <1>2 DEF Unseen, TakeBatch, AbandonWait, EndDirect, Elevate, EndRetries, AskRetry, EndReplay, BeginDirect
  <2> QED BY <1>a, <2>1, <2>2, UnseenStep
<1>3. CASE Seen
  <2>1. CASE Plan /\ Planned
    BY <2>1, PlanShows
  <2>2. CASE FindBusy /\ WaitShown
    BY <2>2, WaitShows
  <2>3. CASE ConsiderElevation /\ UNCHANGED screen
    <3>1. pc = "elevate" /\ pc' \in {"retry", "asking"} /\ UNCHANGED <<outcome, current, cancelled>>
      BY <2>3, <1>d DEF ConsiderElevation, loop
    <3> QED BY <1>a, <2>3, <3>1, UnseenStep
  <2>4. CASE ElevatedReturns /\ FinishedShown(Elevated)
    <3>1. PICK f \in [Elevated -> IF child = "lost" THEN {"failed"} ELSE RawOutcomes] :
            SettleElevated(f)
      BY <2>4 DEF ElevatedReturns
    <3>2. \A i \in Elevated : f[i] \in Outcomes
      BY <3>1 DEF Outcomes, RawOutcomes
    <3>3. pc = "elevating" /\ UNCHANGED current
      BY <2>4 DEF ElevatedReturns, loop
    <3> QED BY <1>a, <2>4, <3>1, <3>2, <3>3, ElevatedShows
  <2>5. CASE Report /\ DoneShown
    BY <2>5, ReportShows
  <2> QED BY <1>3, <2>1, <2>2, <2>3, <2>4, <2>5 DEF Seen, Shows
<1>4. CASE ViewAttempt
  <2>1. ASSUME NEW i \in Items, StartDirect(i),
               IF requests[i] \in Unknown THEN FinishedShown({i}) ELSE StartedShown(i)
        PROVE  PhaseInv' /\ ShownInv'
    <3>1. CASE requests[i] \notin Unknown
      <4>1. pc = "direct" /\ Start(i) /\ UNCHANGED <<outcome, cancelled>>
        BY <2>1, <3>1 DEF StartDirect
      <4> QED BY <1>a, <1>b, <2>1, <3>1, <4>1, StartShows
    <3>2. CASE requests[i] \in Unknown
      <4>1. pc = "direct" /\ outcome' = [outcome EXCEPT ![i] = "skipped"] /\ UNCHANGED <<pc, current>>
        BY <2>1, <3>2 DEF StartDirect
      <4> QED BY <1>a, <1>b, <2>1, <3>2, <4>1, UnknownShows
    <3> QED BY <3>1, <3>2
  <2>2. ASSUME NEW i \in Items, StartReplay(i), StartedShown(i)
        PROVE  PhaseInv' /\ ShownInv'
    <3>1. pc = "replay" /\ Start(i) /\ UNCHANGED <<outcome, cancelled>>
      BY <2>2 DEF StartReplay
    <3> QED BY <1>a, <1>b, <2>2, <3>1, StartShows
  <2>3. CASE (StartInstall \/ InstallReturns) /\ UNCHANGED screen
    <3>1. pc = "installing" /\ UNCHANGED <<pc, outcome, current, cancelled>>
      BY <2>3 DEF StartInstall, InstallReturns, loop
    <3> QED BY <1>a, <2>3, <3>1, UnseenStep
  <2>4. ASSUME NEW raw \in RawOutcomes, Settle(raw), FinishedShown({current})
        PROVE  PhaseInv' /\ ShownInv'
    BY <2>4, SettleShows
  <2> QED BY <1>4, <2>1, <2>2, <2>3, <2>4 DEF ViewAttempt, Shows
<1>5. CASE ViewFails
  <2>1. /\ pc \in {"enter", "waiting", "preparing"} /\ pc' = "failed"
        /\ UNCHANGED <<outcome, current, cancelled, screen>>
    BY <1>5 DEF ViewFails, Fail, EnterFails, ElevationSetupFails, loop
  <2> QED BY <1>a, <2>1, UnseenStep
<1>6. CASE Outside \/ OpenQuestion
  <2>1. UNCHANGED <<pc, outcome, current, cancelled, screen>>
    BY <1>6 DEF Outside, ChildEnds, InstallTimeout, OtherRunEnds, OpenQuestion, vars, loop
  <2> QED BY <1>a, <2>1, UnseenStep
<1>7. CASE No
  <2>1. CASE DeclineElevation /\ FinishedShown(Elevated)
    <3>1. /\ SettleElevated([i \in Elevated |-> "skipped"]) /\ pc = "asking" /\ UNCHANGED current
      BY <2>1 DEF DeclineElevation, loop
    <3>2. \A i \in Elevated : [j \in Elevated |-> "skipped"][i] \in Outcomes
      BY DEF Outcomes, RawOutcomes
    <3> QED BY <1>a, <2>1, <3>1, <3>2, ElevatedShows
  <2>2. CASE ChooseNone /\ UNCHANGED screen
    <3>1. pc = "choosing" /\ pc' = "report" /\ UNCHANGED <<outcome, current, cancelled>>
      BY <2>2 DEF ChooseNone, loop
    <3> QED BY <1>a, <2>2, <3>1, UnseenStep
  <2> QED BY <1>7, <2>1, <2>2 DEF No, Shows
<1>8. CASE AnswerQuestion
  <2>1. CASE ConfirmElevation /\ ElevationShown
    BY <2>1, ElevationShows
  <2>2. ASSUME NEW t \in Tiers, ChooseTier(t), UNCHANGED screen
        PROVE  PhaseInv' /\ ShownInv'
    <3>1. pc = "choosing" /\ pc' = "replay" /\ UNCHANGED <<outcome, current, cancelled>>
      BY <2>2 DEF ChooseTier
    <3> QED BY <1>a, <2>2, <3>1, UnseenStep
  <2> QED BY <1>7, <1>8, <2>1, <2>2 DEF AnswerQuestion, Shows
<1>9. CASE PressSkip \/ PressStop \/ PressCtrlCTwice \/ AnswerStop
  <2>1. UNCHANGED <<pc, outcome, current, cancelled, screen>>
    BY <1>9 DEF PressSkip, PressStop, PressCtrlCTwice, AnswerStop, StopNow, UntouchedByLevers, vars, loop
  <2> QED BY <1>a, <2>1, UnseenStep
<1> QED BY <1>1, <1>2, <1>3, <1>4, <1>5, <1>6, <1>7, <1>8, <1>9
  DEF ViewNext, ViewProgress, AnswerUnseen, AnswerElsewhere, LeverElsewhere

-----------------------------------------------------------------------------
(* The theorems.                                                           *)

ViewInv == ControlInv /\ TierInv /\ ElevatedLater /\ PhaseInv /\ DialogInv /\ ShownInv

LEMMA ViewStarts == ViewInit => ViewInv
<1> SUFFICES ASSUME ViewInit PROVE ViewInv
  OBVIOUS
<1>1. ControlInv /\ TierInv
  BY ControlInit, AccountInit DEF ViewInit
<1>2. PhaseInv /\ DialogInv /\ ShownInv
  BY DEF ViewInit, Init, PhaseInv, DialogInv, ShownInv
<1>3. ElevatedLater
  BY DEF ViewInit, Init, ElevatedLater, InDirect, InElevated, Items, Elevated
<1> QED BY <1>1, <1>2, <1>3 DEF ViewInv

LEMMA ViewAlways == ViewSpec => []ViewInv
<1>1. ViewInv /\ [ViewNext]_viewVars => ViewInv'
  BY ViewStepMaps, ControlStep, TierStep, ElevatedLaterStep, DialogStep, ShownStep DEF ViewInv
<1> QED BY <1>1, ViewStarts, PTL DEF ViewSpec

\* A run under the view, its levers and its dialogs, goes through the steps of
\* the pipeline and no others (run-levers.ts:33-83): the safety part of
\* LeversActOnTheRun.
THEOREM ViewRefinesThePipeline == ViewSpec => Init /\ [][Next]_vars
<1>1. ViewInit => Init
  BY DEF ViewInit
<1>2. ViewInv /\ [ViewNext]_viewVars => [Next]_vars
  BY ViewStepMaps DEF ViewInv
<1> QED BY <1>1, <1>2, ViewAlways, PTL DEF ViewSpec

\* The screen tells the run, at every moment and in its results
\* (run-model.ts:152-204).
THEOREM ScreenIsTrue == ViewSpec => []ScreenTellsTheRun
<1>1. ViewInv => ScreenTellsTheRun
  <2> SUFFICES ASSUME ViewInv, IsView
               PROVE  /\ ~IsOver => (phase = "elevating" <=> pc \in {"preparing", "elevating"})
                      /\ current # NoItem => shown[current] = "running"
                      /\ pc = "done" /\ IsDistinct =>
                           shown = [i \in Items |->
                                     IF i \in cancelled THEN "cancelled" ELSE StateOf(outcome[i])]
    BY DEF ScreenTellsTheRun
  <2> QED BY DEF ViewInv, PhaseInv, ShownInv, ControlInv, SlotInv
<1> QED BY <1>1, ViewAlways, PTL

\* The view stops with the gate.
StoppingInv == IsView => (stopped <=> stopping)

\* What a stopped run is about: the screen's and the run's invariants.
StopInv == ViewInv /\ PlanInv /\ AliveInv /\ StoppingInv

LEMMA StoppingStep ==
  ASSUME ViewInv, StoppingInv, [ViewNext]_viewVars
  PROVE  StoppingInv'
<1>a. IsView' = IsView
  BY ViewStepMaps, RequestStays DEF IsView, ViewInv
<1>1. CASE UNCHANGED viewVars
  BY <1>1 DEF viewVars, vars, StoppingInv, IsView
<1>2. CASE ~IsView
  BY <1>2, <1>a DEF StoppingInv
<1>3. CASE IsView /\ (PressSkip \/ PressStop \/ PressCtrlCTwice \/ AnswerStop)
  BY <1>3, <1>a DEF PressSkip, PressStop, PressCtrlCTwice, AnswerStop, StopNow, StoppingInv, vars
<1>4. CASE IsView /\ (ViewProgress \/ ViewAttempt \/ ViewFails \/ Outside \/ OpenQuestion
                     \/ AnswerUnseen \/ AnswerQuestion)
  <2>1. stopping' = stopping
    BY <1>4 DEF ViewProgress, ViewAttempt, ViewFails, Outside, OpenQuestion, AnswerUnseen, AnswerQuestion, NoTurn
  <2>2. stopped' = stopped
    <3>1. CASE ViewProgress
      BY <3>1 DEF ViewProgress, Unseen, Seen, TakeBatch, AbandonWait, EndDirect, Elevate, EndRetries, AskRetry,
         EndReplay, Plan, FindBusy, ConsiderElevation, ElevatedReturns, Report
    <3>2. CASE ViewAttempt
      BY <3>2 DEF ViewAttempt, StartDirect, StartReplay, StartInstall, InstallReturns, Settle
    <3>3. CASE ViewFails \/ Outside
      BY <3>3 DEF ViewFails, Outside, Fail, EnterFails, ElevationSetupFails, ChildEnds, InstallTimeout, OtherRunEnds
    <3>4. CASE OpenQuestion
      BY <3>4 DEF OpenQuestion, vars
    <3>5. CASE AnswerUnseen \/ AnswerQuestion
      BY <3>5 DEF AnswerUnseen, AnswerQuestion, No, DeclineElevation, ChooseNone, ConfirmElevation, ChooseTier
    <3> QED BY <1>4, <3>1, <3>2, <3>3, <3>4, <3>5
  <2> QED BY <1>a, <2>1, <2>2 DEF StoppingInv
<1> QED BY <1>1, <1>2, <1>3, <1>4 DEF ViewNext, AnswerElsewhere, LeverElsewhere

LEMMA StopAlways == ViewSpec => []StopInv
<1>1. ViewInit => StoppingInv /\ PlanInv /\ AliveInv
  BY PlanInit DEF ViewInit, Init, StoppingInv, AliveInv, IsAsking, Questions
<1>2. StopInv /\ ViewInv' /\ [ViewNext]_viewVars => StopInv'
  BY ViewStepMaps, PlanStep, AliveStep, StoppingStep DEF StopInv, ViewInv
<1> QED BY <1>1, <1>2, ViewAlways, PTL DEF ViewSpec, StopInv

\* A stopped run with no dialog open opens none, neither the pipeline's question
\* nor the view's own, and every step that is left to it is one of the
\* pipeline's.
LEMMA StoppedStep ==
  ASSUME StopInv, [ViewNext]_viewVars, viewVars' # viewVars, stopped, dialog = "none"
  PROVE  dialog' = "none" /\ vars' # vars
<1> USE DEF StopInv, StoppingInv
<1>1. CASE PressSkip \/ PressStop \/ PressCtrlCTwice \/ AnswerStop
  <2>1. stopping
    BY <1>1 DEF PressSkip, PressStop, PressCtrlCTwice, AnswerStop, HasLevers
  <2>2. UNCHANGED <<screen, stopping, dialog>>
    BY <1>1, <2>1 DEF PressSkip, PressStop, PressCtrlCTwice, AnswerStop, StopNow, UntouchedByLevers
  <2> QED BY <2>2 DEF viewVars
<1>2. CASE OpenQuestion \/ AnswerQuestion
  BY <1>2 DEF OpenQuestion, AnswerQuestion
<1>3. CASE ViewFails \/ Outside \/ AnswerElsewhere \/ LeverElsewhere
  BY <1>3 DEF ViewFails, Outside, AnswerElsewhere, LeverElsewhere, viewVars
<1>4. CASE AnswerUnseen
  BY <1>4 DEF AnswerUnseen, No, NoTurn, DeclineElevation, SettleElevated, ChooseNone, vars
<1>5. CASE ViewAttempt
  <2>1. dialog' = "none"
    BY <1>5 DEF ViewAttempt, NoTurn
  <2>2. ASSUME NEW i \in Items, StartDirect(i) \/ StartReplay(i) PROVE FALSE
    BY <2>2 DEF StartDirect, StartReplay, TakeNext
  <2>3. ASSUME StartInstall \/ InstallReturns PROVE vars' # vars
    BY <2>3 DEF StartInstall, Spawn, InstallReturns, Ended, vars, runner
  <2>4. ASSUME NEW raw \in RawOutcomes, Settle(raw) PROVE vars' # vars
    BY <2>4 DEF Settle, vars
  <2> QED BY <1>5, <2>1, <2>2, <2>3, <2>4 DEF ViewAttempt
<1>6. CASE ViewProgress
  <2>1. dialog' = "none"
    BY <1>6 DEF ViewProgress, NoTurn
  <2>2. pc' # pc
    BY <1>6 DEF ViewProgress, Unseen, Seen, TakeBatch, AbandonWait, BeginDirect, EndDirect, Elevate, EndRetries,
       AskRetry, EndReplay, Plan, FindBusy, ConsiderElevation, ElevatedReturns, SettleElevated, Report
  <2> QED BY <2>1, <2>2 DEF vars
<1> QED BY <1>1, <1>2, <1>3, <1>4, <1>5, <1>6 DEF ViewNext

\* After a stop the user is left alone and the run goes to its end: with no
\* dialog open at the stop none opens any more, every step of the view is one
\* of the pipeline's and leaves less of it, and until the run is over it has a
\* part whose turn it is, a question being answered unseen
\* (run-dialogs.ts:33-34, run-levers.ts:49-84, update-pipeline.ts:84-87).
THEOREM StoppedRunsGoToTheirEnd ==
  ViewSpec =>
    /\ [][stopped /\ dialog = "none" => stopped' /\ dialog' = "none" /\ LessIsLeft]_viewVars
    /\ [](stopped /\ dialog = "none" /\ TimeoutOn /\ ~IsOver => SomeoneIsNext \/ (IsView /\ IsAsking))
<1> DEFINE Goal == stopped /\ dialog = "none" /\ TimeoutOn /\ ~IsOver => SomeoneIsNext \/ (IsView /\ IsAsking)
           Step == stopped /\ dialog = "none" => stopped' /\ dialog' = "none" /\ LessIsLeft
<1>1. StopInv /\ StopInv' /\ [ViewNext]_viewVars => [Step]_viewVars
  <2> SUFFICES ASSUME StopInv, StopInv', [ViewNext]_viewVars, viewVars' # viewVars, stopped, dialog = "none"
               PROVE  stopped' /\ dialog' = "none" /\ LessIsLeft
    OBVIOUS
  <2>1. [Next]_vars /\ dialog' = "none" /\ vars' # vars
    BY ViewStepMaps, StoppedStep DEF StopInv, ViewInv
  <2>2. LessIsLeft
    BY <2>1, LessStep DEF StopInv, ViewInv
  <2>3. stopped'
    BY <2>1, StopStays DEF StopInv, ViewInv, ControlInv
  <2> QED BY <2>1, <2>2, <2>3
<1>2. StopInv => Goal
  <2> SUFFICES ASSUME StopInv, stopped, dialog = "none", TimeoutOn, ~IsOver, ~(IsView /\ IsAsking)
               PROVE  SomeoneIsNext
    OBVIOUS
  <2>1. IsAsking => driver \in {"auto", "scheduled"}
    BY PipelineAssumption DEF StopInv, ViewInv, ControlInv, TypeOK, AliveInv, IsView, AllDrivers
  <2> QED BY <2>1, SomeoneIsNextUnlessAsking DEF StopInv, ViewInv
<1> HIDE DEF Goal, Step
<1>3. ViewSpec => [][Step]_viewVars /\ []Goal
  BY <1>1, <1>2, StopAlways, PTL DEF ViewSpec
<1> QED BY <1>3 DEF Goal, Step
=============================================================================
