------------------------------- MODULE RunView -------------------------------
(***************************************************************************)
(* An update run inside gup's screen (ui/run/): the pipeline of            *)
(* UpdatePipeline composed with the run view that watches it and acts on   *)
(* it.  The pipeline's events feed the view's model (run-model.ts), the    *)
(* view's levers decide from that model's phase and not from the pipeline  *)
(* (run-levers.ts), and the pipeline's questions share one dialog box with *)
(* the view's own "Stop all?" (run-dialogs.ts).                            *)
(*                                                                         *)
(* Runs the view does not drive keep the levers and answers that           *)
(* UpdatePipeline gives them.  Panes, keys, timing and drawing are left    *)
(* out.                                                                    *)
(***************************************************************************)
EXTENDS UpdatePipeline

VARIABLES
  phase,     \* the model's phase
  shown,     \* the model's items: the state of each one, none before the plan
  stopping,  \* markStopping was called
  dialog     \* the open dialog: "none", "question" or "stop"

screen   == <<phase, shown>>
viewVars == <<vars, screen, stopping, dialog>>

IsView == driver = "runView"

ViewInit ==
  /\ Init
  /\ phase = "starting"
  /\ shown = <<>>
  /\ stopping = FALSE
  /\ dialog = "none"

-----------------------------------------------------------------------------
(* The model, fed by the pipeline as its observer.                         *)

StateOf(o) ==
  CASE o = "success"                      -> "succeeded"
    [] o \in {"skipped", "interrupted"}   -> "skipped"
    [] o \in {"failed", "retryable"}      -> "failed"

\* replace: every item with the key of an item of K takes its state.
Replaced(K, StateFor(_)) ==
  [i \in Items |->
    IF K \cap SamePackage(i) = {} THEN shown[i]
    ELSE StateFor(CHOOSE k \in K \cap SamePackage(i) : \A l \in K \cap SamePackage(i) : l <= k)]

Planned ==
  /\ phase' = "running"
  /\ shown' = [i \in Items |-> "pending"]

WaitShown ==
  /\ phase' = "waiting"
  /\ UNCHANGED shown

StartedShown(i) ==
  /\ phase' = "running"
  /\ shown' = Replaced({i}, LAMBDA k : "running")

\* The phase is left as it is.
ElevationShown_Bug ==
  /\ shown' = Replaced(Elevated, LAMBDA k : "elevating")
  /\ UNCHANGED phase

ElevationShown ==
  /\ phase' = "elevating"
  /\ shown' = Replaced(Elevated, LAMBDA k : "elevating")

\* The outcomes of the items of K; the elevated step is over with its last one.
FinishedShown(K) ==
  /\ shown' = Replaced(K, LAMBDA k : StateOf(outcome'[k]))
  /\ phase' = IF phase = "elevating" /\ \A i \in Items : shown'[i] # "elevating"
              THEN "running" ELSE phase

\* cancelled is forgotten.
DoneShown_Bug == phase' = "done" /\ UNCHANGED shown

\* The cancelled items, then finish: the results are shown.
DoneShown ==
  /\ shown' = Replaced(cancelled', LAMBDA k : "cancelled")
  /\ phase' = "done"

\* What a step shows, when the view is there.
Shows(change) == IF IsView THEN change ELSE UNCHANGED screen

-----------------------------------------------------------------------------
(* The pipeline's steps, as the view sees them.                            *)

NoTurn == UNCHANGED <<stopping, dialog>>

Unseen ==
  /\ \/ TakeBatch \/ AbandonWait \/ EndDirect \/ Elevate
     \/ EndRetries \/ AskRetry \/ EndReplay
  /\ UNCHANGED screen

Seen ==
  \/ Plan /\ Shows(Planned)
  \/ FindBusy /\ Shows(WaitShown)
  \/ ConsiderElevation /\ UNCHANGED screen
  \/ ElevatedReturns /\ Shows(FinishedShown(Elevated))
  \/ Report /\ Shows(DoneShown)

ViewProgress == (Unseen \/ Seen) /\ NoTurn

ViewAttempt ==
  /\ \/ \E i \in Items :
          \/ /\ StartDirect(i)
             /\ Shows(IF requests[i] \in Unknown THEN FinishedShown({i}) ELSE StartedShown(i))
          \/ StartReplay(i) /\ Shows(StartedShown(i))
     \/ (StartInstall \/ InstallReturns) /\ UNCHANGED screen
     \/ \E raw \in RawOutcomes : Settle(raw) /\ Shows(FinishedShown({current}))
  /\ NoTurn

\* The run rejects: the view is taken down, its dialogs with it.
ViewFails ==
  /\ Fail
  /\ dialog' = "none"
  /\ UNCHANGED <<screen, stopping>>

Outside ==
  /\ ChildEnds \/ InstallTimeout \/ OtherRunEnds
  /\ UNCHANGED <<screen, stopping, dialog>>

-----------------------------------------------------------------------------
(* The dialogs.                                                            *)

\* A question opens whatever the gate says.
OpenQuestion_Bug ==
  /\ IsView /\ IsAsking
  /\ dialog = "none"
  /\ dialog' = "question"
  /\ UNCHANGED <<vars, screen, stopping>>

\* The pipeline's question, once the dialog before it is closed.
OpenQuestion ==
  /\ IsView /\ IsAsking
  /\ dialog = "none"
  /\ ~stopped
  /\ dialog' = "question"
  /\ UNCHANGED <<vars, screen, stopping>>

No ==
  \/ DeclineElevation /\ Shows(FinishedShown(Elevated))
  \/ ChooseNone /\ UNCHANGED screen

\* A question whose turn comes after the stop is answered unseen.
AnswerUnseen ==
  /\ IsView
  /\ dialog = "none"
  /\ stopped
  /\ No
  /\ NoTurn

\* The user answers.
AnswerQuestion ==
  /\ IsView
  /\ dialog = "question"
  /\ \/ No
     \/ ConfirmElevation /\ Shows(ElevationShown)
     \/ \E t \in Tiers : ChooseTier(t) /\ UNCHANGED screen
  /\ dialog' = "none"
  /\ UNCHANGED stopping

\* The answers of a run without a view.
AnswerElsewhere ==
  /\ ~IsView
  /\ Answer
  /\ UNCHANGED <<screen, stopping, dialog>>

-----------------------------------------------------------------------------
(* The levers.                                                             *)

\* The view's keys are there until the results are.
HasLevers == IsView /\ ~IsOver /\ phase # "done"

UntouchedByLevers == UNCHANGED <<pc, batch, outcome, cancelled, loop, timerFired, screen>>

\* skipCurrent, when a child is there.
SkipCurrent ==
  IF IsInterruptible THEN Interrupt("aborted")
  ELSE UNCHANGED <<installs, child, pending, flags, hit>>

\* `s`, or a first Ctrl+C: not during the elevated step.
PressSkip ==
  /\ HasLevers
  /\ phase # "elevating"
  /\ IsInterruptible
  /\ Interrupt("aborted")
  /\ Fixed
  /\ UntouchedByLevers
  /\ UNCHANGED <<stopped, stopping, dialog>>

\* stopNow: the elevated step is left to end, anything else is skipped.
StopNow ==
  /\ stopped' = TRUE
  /\ stopping' = TRUE
  /\ IF phase = "elevating" THEN UNCHANGED <<installs, child, pending, flags, hit>>
     ELSE SkipCurrent
  /\ Fixed
  /\ UntouchedByLevers

\* `x`, which no key reaches under a dialog: at once in the elevated step.
PressStop ==
  /\ HasLevers
  /\ ~stopping
  /\ dialog = "none"
  /\ \/ phase = "elevating" /\ StopNow /\ UNCHANGED dialog
     \/ phase # "elevating" /\ dialog' = "stop" /\ UNCHANGED <<vars, screen, stopping>>

\* Ctrl+C twice in a row, a dialog open or not.
PressCtrlCTwice ==
  /\ HasLevers
  /\ StopNow
  /\ UNCHANGED dialog

\* The answer to "Stop all?": too late once the results are shown.
AnswerStop ==
  /\ dialog = "stop"
  /\ dialog' = "none"
  /\ \/ phase # "done" /\ StopNow
     \/ UNCHANGED <<vars, screen, stopping>>

\* The levers of a run without a view.
LeverElsewhere ==
  /\ ~IsView
  /\ PressCtrlC \/ CloseGate
  /\ UNCHANGED <<screen, stopping, dialog>>

-----------------------------------------------------------------------------

ViewNext ==
  \/ ViewProgress \/ ViewAttempt \/ ViewFails \/ Outside
  \/ OpenQuestion \/ AnswerUnseen \/ AnswerQuestion \/ AnswerElsewhere
  \/ PressSkip \/ PressStop \/ PressCtrlCTwice \/ AnswerStop \/ LeverElsewhere

\* As in UpdatePipeline: the user owes no answer, and an install no end.
ViewFairness ==
  /\ WF_viewVars(ViewProgress)
  /\ WF_viewVars(ViewAttempt)
  /\ WF_viewVars(OpenQuestion)
  /\ WF_viewVars(AnswerUnseen)
  /\ WF_viewVars(InstallTimeout /\ UNCHANGED <<screen, stopping, dialog>>)
  /\ WF_viewVars(child = "killed" /\ ChildEnds /\ UNCHANGED <<screen, stopping, dialog>>)
  /\ WF_viewVars(driver = "scheduled" /\ AnswerElsewhere)
  /\ WF_viewVars(OtherRunEnds /\ UNCHANGED <<screen, stopping, dialog>>)

ViewSpec == ViewInit /\ [][ViewNext]_viewVars /\ ViewFairness

-----------------------------------------------------------------------------

\* The phase the levers act on and the dialogs never lead the view to do to
\* the pipeline what UpdatePipeline does not allow: a skip never reaches the
\* elevated wait, a stop interrupts whatever else is in flight and nothing
\* behind the prompt, and no question is answered before it is asked
\* (run-levers.ts:33-83).
LeversActOnTheRun == Spec

\* The screen tells the run: it says "elevating" just while the elevated
\* batch is on its way; the package in flight is shown running; and the
\* results are the report's, an outcome or "cancelled" for every package and
\* nothing left pending or running (run-model.ts:152-204).
ScreenTellsTheRun ==
  IsView =>
    /\ ~IsOver => (phase = "elevating" <=> pc \in {"preparing", "elevating"})
    /\ current # NoItem => shown[current] = "running"
    /\ pc = "done" /\ IsDistinct =>
         shown = [i \in Items |->
                   IF i \in cancelled THEN "cancelled" ELSE StateOf(outcome[i])]

\* A stopped run ends with no further key, unless a dialog the user has in
\* front of them was open at the stop: no question opens behind it
\* (run-dialogs.ts:33-34, update-pipeline.ts:85).
StopEndsTheRun == (stopped /\ dialog = "none") ~> IsOver
=============================================================================
