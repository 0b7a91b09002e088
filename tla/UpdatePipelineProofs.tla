------------------------ MODULE UpdatePipelineProofs ------------------------
(***************************************************************************)
(* What is proved of UpdatePipeline, for any packages, requests, drivers   *)
(* and number of installs: its types; the safety properties the runs       *)
(* check, each from an inductive invariant; the order of the installs,     *)
(* from what grouping makes of an ordered set; and that runs are finite    *)
(* and, with nobody attending, never stand still, which is what of their   *)
(* liveness needs no fairness.                                             *)
(***************************************************************************)
EXTENDS UpdatePipeline, FiniteSetTheorems, WellFoundedInduction, TLAPS

\* Every action but the levers, the failures and OtherRunEnds, by name: what
\* a proof about Next splits into.
LEMMA NextActions ==
  ASSUME Next
  PROVE  \/ Plan \/ TakeBatch \/ FindBusy \/ AbandonWait \/ EnterFails \/ OtherRunEnds
         \/ \E i \in Items : StartDirect(i) \/ StartReplay(i)
         \/ StartInstall \/ ChildEnds \/ InstallReturns
         \/ \E raw \in RawOutcomes : Settle(raw)
         \/ EndDirect \/ ConsiderElevation \/ ConfirmElevation \/ DeclineElevation
         \/ Elevate \/ ElevatedReturns \/ ElevationSetupFails
         \/ EndRetries \/ AskRetry \/ (\E t \in Tiers : ChooseTier(t)) \/ ChooseNone
         \/ EndReplay \/ Report \/ CancelPrompt
         \/ PressCtrlC \/ SkipInView \/ StopInView \/ CloseGate \/ InstallTimeout
BY DEF Next, Progress, Attempt, Answer, Lever, Fail

-----------------------------------------------------------------------------
(* Types.                                                                  *)

\* An attempt starts with no install.
LEMMA NoInstallYet == 0 \in 0..MaxInstalls
BY PipelineAssumption

\* Every run starts well-typed.
LEMMA TypeInit == Init => TypeOK
<1> SUFFICES ASSUME Init PROVE TypeOK
  OBVIOUS
<1> QED BY NoInstallYet DEF Init, TypeOK, Items, Steps

\* What an interrupt leaves of the runner's types.
LEMMA InterruptTypes ==
  ASSUME TypeOK, NEW why \in Interrupts, Interrupt(why)
  PROVE  /\ installs' \in 0..MaxInstalls
         /\ child' \in {"none", "running", "killed", "gone", "lost"}
         /\ flags' \subseteq Interrupts
         /\ pending' \subseteq Interrupts
         /\ hit' \subseteq Interrupts
BY DEF TypeOK, Interrupt

\* Each action keeps the types.
LEMMA TypeStep == TypeOK /\ [Next]_vars => TypeOK'
<1> SUFFICES ASSUME TypeOK, [Next]_vars PROVE TypeOK'
  OBVIOUS
<1> USE DEF TypeOK, Items, Fixed, runner, loop, Steps
<1>1. CASE UNCHANGED vars
  BY <1>1 DEF vars
<1>2. CASE Plan
  BY <1>2 DEF Plan, BeginDirect, Direct, Items
<1>3. CASE TakeBatch
  BY <1>3 DEF TakeBatch, BeginDirect, Direct, Items
<1>4. CASE FindBusy
  BY <1>4 DEF FindBusy
<1>5. CASE AbandonWait
  BY <1>5 DEF AbandonWait, BeginDirect, Direct, Items
<1>6. CASE EnterFails
  BY <1>6 DEF EnterFails
<1>7. CASE OtherRunEnds
  BY <1>7 DEF OtherRunEnds
<1>8. ASSUME NEW i \in Items, StartDirect(i) PROVE TypeOK'
  BY <1>8, NoInstallYet DEF StartDirect, TakeNext, Start, Outcomes, RawOutcomes
<1>9. ASSUME NEW i \in Items, StartReplay(i) PROVE TypeOK'
  BY <1>9, NoInstallYet DEF StartReplay, TakeNext, Start
<1>10. CASE StartInstall
  <2>1. installs' \in 0..MaxInstalls
    BY <1>10, PipelineAssumption DEF StartInstall
  <2> QED BY <1>10, <2>1 DEF StartInstall, Spawn
<1>11. CASE ChildEnds
  BY <1>11 DEF ChildEnds
<1>12. CASE InstallReturns
  BY <1>12 DEF InstallReturns
<1>13. ASSUME NEW raw \in RawOutcomes, Settle(raw) PROVE TypeOK'
  BY <1>13 DEF Settle, Finalized, Outcomes
<1>14. CASE EndDirect
  BY <1>14 DEF EndDirect
<1>15. CASE ConsiderElevation
  BY <1>15 DEF ConsiderElevation
<1>16. CASE ConfirmElevation
  BY <1>16 DEF ConfirmElevation
<1>17. CASE DeclineElevation
  BY <1>17 DEF DeclineElevation, SettleElevated, Outcomes, RawOutcomes, Elevated
<1>18. CASE Elevate
  BY <1>18 DEF Elevate, Spawn
<1>19. CASE ElevatedReturns
  BY <1>19 DEF ElevatedReturns, SettleElevated, Outcomes, RawOutcomes, Elevated
<1>20. CASE ElevationSetupFails
  BY <1>20 DEF ElevationSetupFails, Released
<1>21. CASE EndRetries
  BY <1>21 DEF EndRetries
<1>22. CASE AskRetry
  BY <1>22 DEF AskRetry
<1>23. ASSUME NEW t \in Tiers, ChooseTier(t) PROVE TypeOK'
  BY <1>23 DEF ChooseTier, Retryable
<1>24. CASE ChooseNone
  BY <1>24 DEF ChooseNone
<1>25. CASE EndReplay
  BY <1>25 DEF EndReplay
<1>26. CASE Report
  BY <1>26 DEF Report, Released
<1>27. CASE CancelPrompt
  BY <1>27 DEF CancelPrompt, Released
<1>28. CASE PressCtrlC
  <2>1. stopped' \in BOOLEAN
    BY <1>28 DEF PressCtrlC
  <2>2. CASE Interrupt("aborted")
    BY <1>28, <2>1, <2>2, InterruptTypes DEF PressCtrlC, Interrupts
  <2>3. CASE UNCHANGED <<installs, child, pending, flags, hit>>
    BY <1>28, <2>1, <2>3 DEF PressCtrlC
  <2> QED BY <1>28, <2>2, <2>3 DEF PressCtrlC
<1>29. CASE SkipInView
  BY <1>29, InterruptTypes DEF SkipInView, Interrupts
<1>30. CASE StopInView
  <2>1. CASE Interrupt("aborted")
    BY <1>30, <2>1, InterruptTypes DEF StopInView, Interrupts
  <2>2. CASE UNCHANGED <<installs, child, pending, flags, hit>>
    BY <1>30, <2>2 DEF StopInView
  <2> QED BY <1>30, <2>1, <2>2 DEF StopInView
<1>31. CASE CloseGate
  <2>1. CASE Interrupt("aborted")
    BY <1>31, <2>1, InterruptTypes DEF CloseGate, StopSignal, DeadlinePasses, Interrupts
  <2>2. CASE UNCHANGED <<installs, child, pending, flags, hit>>
    BY <1>31, <2>2 DEF CloseGate, StopSignal, DeadlinePasses
  <2> QED BY <1>31, <2>1, <2>2 DEF CloseGate, StopSignal, DeadlinePasses
<1>32. CASE InstallTimeout
  BY <1>32, InterruptTypes DEF InstallTimeout, Interrupts
<1> QED
  BY <1>1, <1>2, <1>3, <1>4, <1>5, <1>6, <1>7, <1>8, <1>9, <1>10, <1>11, <1>12, <1>13, <1>14,
     <1>15, <1>16, <1>17, <1>18, <1>19, <1>20, <1>21, <1>22, <1>23, <1>24, <1>25, <1>26, <1>27,
     <1>28, <1>29, <1>30, <1>31, <1>32, NextActions

\* The type invariant (update-pipeline.ts:52-89, runner.ts:360-389).
THEOREM TypeCorrect == Spec => []TypeOK
BY TypeInit, TypeStep, PTL DEF Spec

-----------------------------------------------------------------------------
(* The batch and the runner's one-slot channel.                            *)

\* Outside the run proper, an interactive run does not hold the batch;
\* inside it does, or it abandoned the wait and its closed gate lets it
\* through the loops only.
BatchInv ==
  /\ driver = "scheduled" => batch = "ours"
  /\ pc \in {"start", "enter", "waiting", "done", "failed"} /\ driver # "scheduled"
       => batch # "ours"
  /\ pc \notin {"start", "enter", "waiting", "done", "failed"} =>
       \/ batch = "ours"
       \/ stopped /\ pc \in {"direct", "elevate", "retry", "report"}

\* The slot belongs to the attempt or the elevated wait in flight: every
\* interrupt that reached it is in the flags of the call that runs or in
\* pendingInterrupt, and nothing of it is left outside.
SlotInv ==
  /\ current # NoItem <=> pc = "installing"
  /\ child # "none" => pc \in {"installing", "elevating"}
  /\ child = "none" => flags = {}
  /\ pc # "installing" => pending = {}
  /\ pc = "installing" => hit = pending \cup flags

ControlInv == TypeOK /\ BatchInv /\ SlotInv

\* Positions in a request start at 1.
LEMMA ItemsAreNotNoItem == TypeOK => NoItem \notin Items
<1> SUFFICES ASSUME TypeOK PROVE NoItem \notin Items
  OBVIOUS
<1>1. requests \in Seq(Packages)
  BY PipelineAssumption DEF TypeOK
<1> QED BY <1>1 DEF Items, NoItem

\* A run starts with an empty slot, in its batch only when scheduled.
LEMMA ControlInit == Init => ControlInv
BY TypeInit DEF Init, ControlInv, BatchInv, SlotInv

\* What an interrupt of the child in flight does to the slot.
LEMMA InterruptKeepsSlot ==
  ASSUME SlotInv, NEW why, child # "none", Interrupt(why), UNCHANGED <<pc, current>>
  PROVE  SlotInv'
BY DEF SlotInv, Interrupt

\* Each action keeps the batch and the interrupt slot consistent with pc.
LEMMA ControlStep == ControlInv /\ [Next]_vars => ControlInv'
<1> SUFFICES ASSUME ControlInv, [Next]_vars PROVE BatchInv' /\ SlotInv'
  BY TypeStep DEF ControlInv
<1> USE DEF ControlInv, BatchInv, SlotInv, Fixed, runner, loop
<1>1. CASE UNCHANGED vars
  BY <1>1 DEF vars
<1>2. CASE Plan
  BY <1>2 DEF Plan, BeginDirect
<1>3. CASE TakeBatch
  BY <1>3 DEF TakeBatch, BeginDirect
<1>4. CASE FindBusy
  BY <1>4 DEF FindBusy
<1>5. CASE AbandonWait
  BY <1>5 DEF AbandonWait, BeginDirect
<1>6. CASE EnterFails
  BY <1>6 DEF EnterFails
<1>7. CASE OtherRunEnds
  BY <1>7 DEF OtherRunEnds
<1>8. ASSUME NEW i \in Items, StartDirect(i) PROVE BatchInv' /\ SlotInv'
  BY <1>8, ItemsAreNotNoItem DEF StartDirect, TakeNext, Start
<1>9. ASSUME NEW i \in Items, StartReplay(i) PROVE BatchInv' /\ SlotInv'
  BY <1>9, ItemsAreNotNoItem DEF StartReplay, TakeNext, Start
<1>10. CASE StartInstall
  BY <1>10 DEF StartInstall, Spawn
<1>11. CASE ChildEnds
  BY <1>11 DEF ChildEnds
<1>12. CASE InstallReturns
  BY <1>12 DEF InstallReturns
<1>13. ASSUME NEW raw \in RawOutcomes, Settle(raw) PROVE BatchInv' /\ SlotInv'
  BY <1>13 DEF Settle
<1>14. CASE EndDirect
  BY <1>14 DEF EndDirect
<1>15. CASE ConsiderElevation
  BY <1>15 DEF ConsiderElevation
<1>16. CASE ConfirmElevation
  BY <1>16 DEF ConfirmElevation
<1>17. CASE DeclineElevation
  BY <1>17 DEF DeclineElevation, SettleElevated
<1>18. CASE Elevate
  BY <1>18 DEF Elevate, Spawn
<1>19. CASE ElevatedReturns
  BY <1>19 DEF ElevatedReturns, SettleElevated
<1>20. CASE ElevationSetupFails
  BY <1>20 DEF ElevationSetupFails, Released
<1>21. CASE EndRetries
  BY <1>21 DEF EndRetries
<1>22. CASE AskRetry
  BY <1>22 DEF AskRetry
<1>23. ASSUME NEW t \in Tiers, ChooseTier(t) PROVE BatchInv' /\ SlotInv'
  BY <1>23 DEF ChooseTier
<1>24. CASE ChooseNone
  BY <1>24 DEF ChooseNone
<1>25. CASE EndReplay
  BY <1>25 DEF EndReplay
<1>26. CASE Report
  BY <1>26 DEF Report, Released
<1>27. CASE CancelPrompt
  BY <1>27 DEF CancelPrompt, Released
<1>28. CASE PressCtrlC
  <2>a. UNCHANGED <<driver, pc, batch>> /\ (stopped => stopped')
    BY <1>28 DEF PressCtrlC
  <2>1. BatchInv'
    BY <2>a
  <2>2. CASE Interrupt("aborted") /\ child # "none"
    BY <1>28, <2>1, <2>2, InterruptKeepsSlot DEF PressCtrlC
  <2>3. CASE UNCHANGED <<installs, child, pending, flags, hit>>
    BY <1>28, <2>1, <2>3 DEF PressCtrlC
  <2> QED BY <1>28, <2>2, <2>3 DEF PressCtrlC, IsInterruptible
<1>29. CASE SkipInView
  BY <1>29, InterruptKeepsSlot DEF SkipInView, IsInterruptible
<1>30. CASE StopInView
  <2>1. BatchInv'
    BY <1>30 DEF StopInView
  <2>2. CASE Interrupt("aborted") /\ child # "none"
    BY <1>30, <2>1, <2>2, InterruptKeepsSlot DEF StopInView
  <2>3. CASE UNCHANGED <<installs, child, pending, flags, hit>>
    BY <1>30, <2>1, <2>3 DEF StopInView
  <2> QED BY <1>30, <2>2, <2>3 DEF StopInView, IsInterruptible
<1>31. CASE CloseGate
  <2>1. BatchInv'
    BY <1>31 DEF CloseGate, StopSignal, DeadlinePasses
  <2>2. CASE Interrupt("aborted") /\ child # "none"
    BY <1>31, <2>1, <2>2, InterruptKeepsSlot DEF CloseGate, StopSignal, DeadlinePasses
  <2>3. CASE UNCHANGED <<installs, child, pending, flags, hit>>
    BY <1>31, <2>1, <2>3 DEF CloseGate, StopSignal, DeadlinePasses
  <2> QED BY <1>31, <2>2, <2>3 DEF CloseGate, StopSignal, DeadlinePasses, IsInterruptible
<1>32. CASE InstallTimeout
  BY <1>32, InterruptKeepsSlot DEF InstallTimeout, IsInterruptible
<1> QED
  BY <1>1, <1>2, <1>3, <1>4, <1>5, <1>6, <1>7, <1>8, <1>9, <1>10, <1>11, <1>12, <1>13, <1>14,
     <1>15, <1>16, <1>17, <1>18, <1>19, <1>20, <1>21, <1>22, <1>23, <1>24, <1>25, <1>26, <1>27,
     <1>28, <1>29, <1>30, <1>31, <1>32, NextActions

\* The batch, the interrupt slot and the step of the run always agree
\* (update-pipeline.ts:52-109, runner.ts:208-225, 360-389).
THEOREM ControlCorrect == Spec => []ControlInv
BY ControlInit, ControlStep, PTL DEF Spec

\* Package managers are only driven inside the batch (batch-lock.ts:12-15).
THEOREM BatchHeld == Spec => []BatchHeldWhileInstalling
<1>1. ControlInv => BatchHeldWhileInstalling
  BY DEF ControlInv, BatchInv, SlotInv, BatchHeldWhileInstalling
<1> QED BY <1>1, ControlCorrect, PTL

\* However it ends, an interactive run leaves the batch
\* (update-pipeline.ts:59-64).
THEOREM BatchReleased == Spec => []ReleasedAtEnd
<1>1. ControlInv => ReleasedAtEnd
  BY DEF ControlInv, BatchInv, ReleasedAtEnd
<1> QED BY <1>1, ControlCorrect, PTL

\* No interrupt is lost and none bleeds into another outcome
\* (runner.ts:213-225, finalize-outcome.ts:31-35).
THEOREM InterruptsReachTheirOutcome == Spec => SkipMeansInterrupted
<1> DEFINE Settles ==
      current # NoItem /\ current' = NoItem
        => ((outcome'[current] = "interrupted") <=> (hit # {}))
<1>1. ControlInv /\ [Next]_vars => [Settles]_vars
  <2> SUFFICES ASSUME ControlInv, Next, current # NoItem, current' = NoItem PROVE Settles
    BY DEF Settles
  <2>1. pc = "installing"
    BY DEF ControlInv, SlotInv
  <2>2. PICK raw \in RawOutcomes : Settle(raw)
    BY <2>1, NextActions, ItemsAreNotNoItem
    DEF ControlInv, Plan, TakeBatch, FindBusy, AbandonWait, EnterFails, OtherRunEnds, StartDirect,
        StartReplay, StartInstall, ChildEnds, InstallReturns, EndDirect, ConsiderElevation,
        ConfirmElevation, DeclineElevation, Elevate, ElevatedReturns, ElevationSetupFails,
        EndRetries, AskRetry, ChooseTier, ChooseNone, EndReplay, Report, CancelPrompt, PressCtrlC,
        SkipInView, StopInView, CloseGate, StopSignal, DeadlinePasses, InstallTimeout, loop
  <2>3. hit = pending
    BY <2>1, <2>2 DEF ControlInv, SlotInv, Settle
  <2>4. current \in Items
    BY DEF ControlInv, TypeOK
  <2>5. outcome'[current] = Finalized(raw)
    BY <2>2, <2>4 DEF Settle
  <2> QED BY <2>3, <2>5 DEF Finalized, RawOutcomes
<1> QED BY <1>1, ControlCorrect, PTL DEF Spec, SkipMeansInterrupted

-----------------------------------------------------------------------------
(* What becomes of every package.                                          *)

InDirect  == pc = "direct" \/ (pc = "installing" /\ tier = "none")
InElevated == pc \in {"elevate", "asking", "preparing", "elevating"}
InRetries ==
  pc \in {"retry", "choosing", "replay", "report"} \/ (pc = "installing" /\ tier # "none")

\* The retry tier is set while a replay runs, and only then.
TierInv ==
  /\ tier # "none" => pc \in {"replay", "installing"}
  /\ pc = "replay" => tier # "none"

\* A package without outcome is still to come, or the run was stopped.
AccountInv ==
  /\ InDirect => \A i \in Direct : outcome[i] = "none" => i \in todo \cup {current}
  /\ ~stopped /\ (InElevated \/ InRetries) => \A i \in Direct : outcome[i] # "none"
  /\ ~stopped /\ InRetries => \A i \in Elevated : outcome[i] # "none"
  /\ AccountedFor

\* What a lever, the child and the other run leave alone.
LEMMA Asides ==
  ASSUME \/ PressCtrlC \/ SkipInView \/ StopInView \/ CloseGate \/ InstallTimeout
         \/ ChildEnds \/ OtherRunEnds \/ StartInstall \/ InstallReturns
  PROVE  /\ UNCHANGED <<requests, pc, outcome, cancelled, loop>>
         /\ stopped => stopped'
BY DEF PressCtrlC, SkipInView, StopInView, CloseGate, StopSignal, DeadlinePasses, InstallTimeout,
       ChildEnds, OtherRunEnds,
       StartInstall, InstallReturns, Fixed

\* A run starts with every tier on offer and nothing accounted for.
LEMMA AccountInit == Init => TierInv /\ AccountInv
BY DEF Init, TierInv, AccountInv, AccountedFor, InDirect, InElevated, InRetries

\* Every item is direct or elevated.
LEMMA DirectOrElevated == Items = Direct \cup Elevated /\ Direct \cap Elevated = {}
BY DEF Direct, Elevated

\* Each action keeps the tier in hand off the ones on offer.
LEMMA TierStep == TierInv /\ [Next]_vars => TierInv'
<1> SUFFICES ASSUME TierInv, [Next]_vars PROVE TierInv'
  OBVIOUS
<1> USE DEF TierInv, Tiers
<1>1. CASE UNCHANGED vars
  BY <1>1 DEF vars, loop
<1>2. CASE \/ PressCtrlC \/ SkipInView \/ StopInView \/ CloseGate \/ InstallTimeout
           \/ ChildEnds \/ OtherRunEnds \/ StartInstall \/ InstallReturns
  BY <1>2, Asides DEF loop
<1>3. CASE Plan \/ TakeBatch \/ FindBusy \/ AbandonWait \/ EnterFails
  BY <1>3 DEF Plan, TakeBatch, FindBusy, AbandonWait, EnterFails, BeginDirect, loop
<1>4. ASSUME NEW i \in Items, StartDirect(i) \/ StartReplay(i) PROVE TierInv'
  BY <1>4 DEF StartDirect, StartReplay, Start
<1>5. ASSUME NEW raw \in RawOutcomes, Settle(raw) PROVE TierInv'
  BY <1>5 DEF Settle
<1>6. CASE EndDirect \/ ConsiderElevation \/ ConfirmElevation \/ Elevate \/ ElevationSetupFails
  BY <1>6 DEF EndDirect, ConsiderElevation, ConfirmElevation, Elevate, ElevationSetupFails, loop
<1>7. CASE DeclineElevation \/ ElevatedReturns
  BY <1>7 DEF DeclineElevation, ElevatedReturns, SettleElevated, loop
<1>8. ASSUME NEW t \in Tiers, ChooseTier(t) PROVE TierInv'
  BY <1>8 DEF ChooseTier, RetryTiers
<1>9. CASE EndRetries \/ AskRetry \/ ChooseNone \/ EndReplay \/ Report \/ CancelPrompt
  BY <1>9 DEF EndRetries, AskRetry, ChooseNone, EndReplay, Report, CancelPrompt, loop
<1> QED
  BY <1>1, <1>2, <1>3, <1>4, <1>5, <1>6, <1>7, <1>8, <1>9, NextActions

\* Each action keeps the account of the items that have an outcome.
LEMMA AccountStep ==
  ASSUME ControlInv, TierInv, AccountInv, [Next]_vars
  PROVE  AccountInv'
<1> USE DEF AccountInv, InDirect, InElevated, InRetries
<1> DEFINE Kept == UNCHANGED <<Items, Direct, Elevated>>
<1>a. requests' = requests => Kept
  BY DEF Items, Direct, Elevated
<1>b. TypeOK /\ SlotInv /\ BatchInv
  BY DEF ControlInv
<1>1. CASE UNCHANGED vars
  BY <1>1, <1>a DEF vars, loop, AccountedFor, IsDistinct
<1>2. CASE \/ PressCtrlC \/ SkipInView \/ StopInView \/ CloseGate \/ InstallTimeout
           \/ ChildEnds \/ OtherRunEnds \/ StartInstall \/ InstallReturns
  BY <1>2, <1>a, Asides DEF loop, AccountedFor, IsDistinct
<1>3. CASE Plan \/ TakeBatch \/ AbandonWait
  BY <1>3, <1>a
  DEF Plan, TakeBatch, AbandonWait, BeginDirect, loop, Fixed, AccountedFor, TierInv
<1>4. CASE FindBusy \/ EnterFails
  BY <1>4, <1>a DEF FindBusy, EnterFails, loop, Fixed, AccountedFor, TierInv
<1>5. ASSUME NEW i \in Items, StartDirect(i) PROVE AccountInv'
  <2>1. pc = "direct" /\ tier = "none" /\ UNCHANGED <<requests, tier>> /\ todo' = todo \ {i}
    BY <1>5 DEF StartDirect, TakeNext, Fixed, TierInv
  <2>2. CASE Start(i) /\ UNCHANGED outcome
    BY <1>a, <1>b, <2>1, <2>2, ItemsAreNotNoItem, DirectOrElevated
    DEF Start, AccountedFor, SlotInv
  <2>3. CASE outcome' = [outcome EXCEPT ![i] = "skipped"] /\ UNCHANGED <<pc, current>>
    BY <1>a, <1>b, <2>1, <2>3 DEF AccountedFor, TypeOK
  <2> QED BY <1>5, <2>2, <2>3 DEF StartDirect
<1>6. ASSUME NEW i \in Items, StartReplay(i) PROVE AccountInv'
  BY <1>6, <1>a DEF StartReplay, TakeNext, Start, Fixed, AccountedFor, TierInv
<1>7. ASSUME NEW raw \in RawOutcomes, Settle(raw) PROVE AccountInv'
  BY <1>7, <1>a, <1>b, DirectOrElevated
  DEF Settle, Finalized, RawOutcomes, Fixed, AccountedFor, TierInv, TypeOK
<1>8. CASE EndDirect
  BY <1>8, <1>a, <1>b, ItemsAreNotNoItem, DirectOrElevated
  DEF EndDirect, Fixed, AccountedFor, TierInv, SlotInv
<1>9. CASE ConsiderElevation
  BY <1>9, <1>a DEF ConsiderElevation, loop, Fixed, AccountedFor, TierInv
<1>10. CASE ConfirmElevation \/ Elevate \/ ElevationSetupFails
  BY <1>10, <1>a DEF ConfirmElevation, Elevate, ElevationSetupFails, loop, Fixed, AccountedFor, TierInv
<1>11. CASE DeclineElevation
  BY <1>11, <1>a, DirectOrElevated
  DEF DeclineElevation, SettleElevated, loop, Fixed, AccountedFor, TierInv
<1>12. CASE ElevatedReturns
  BY <1>12, <1>a, DirectOrElevated
  DEF ElevatedReturns, SettleElevated, RawOutcomes, loop, Fixed, AccountedFor, TierInv
<1>13. CASE EndRetries \/ AskRetry \/ ChooseNone
  BY <1>13, <1>a DEF EndRetries, AskRetry, ChooseNone, loop, Fixed, AccountedFor, TierInv
<1>14. ASSUME NEW t \in Tiers, ChooseTier(t) PROVE AccountInv'
  BY <1>14, <1>a DEF ChooseTier, Fixed, AccountedFor, TierInv
<1>15. CASE EndReplay
  BY <1>15, <1>a DEF EndReplay, Fixed, AccountedFor, TierInv
<1>16. CASE Report
  BY <1>16, <1>a, <1>b, DirectOrElevated
  DEF Report, Fixed, AccountedFor, IsDistinct, SamePackage, Items, loop
<1>17. CASE CancelPrompt
  BY <1>17, <1>a DEF CancelPrompt, loop, Fixed, AccountedFor, TierInv
<1> QED
  BY <1>1, <1>2, <1>3, <1>4, <1>5, <1>6, <1>7, <1>8, <1>9, <1>10, <1>11, <1>12, <1>13, <1>14,
     <1>15, <1>16, <1>17, NextActions

\* Every package asked for ends with an outcome or cancelled, never both,
\* and nothing is cancelled unless the run was stopped
\* (update-pipeline.ts:67-77, update-report.ts:6-8).
THEOREM EveryPackageIsAccountedFor == Spec => []AccountedFor
<1> DEFINE Inv == ControlInv /\ TierInv /\ AccountInv
<1>1. Init => Inv
  BY ControlInit, AccountInit
<1>2. Inv /\ [Next]_vars => Inv'
  BY ControlStep, TierStep, AccountStep
<1>3. Inv => AccountedFor
  BY DEF AccountInv
<1> QED BY <1>1, <1>2, <1>3, PTL DEF Spec

-----------------------------------------------------------------------------
(* Retries.                                                                *)

\* What is still to come has no outcome yet, or, in a replay, the retryable
\* one it is replayed for; and the tier at hand is new to it.
RetryInv ==
  /\ pc \in {"start", "enter", "waiting"} =>
       \A i \in Items : outcome[i] = "none" /\ started[i] = {}
  /\ InDirect =>
       /\ todo \cup {current} \subseteq Direct \cup {NoItem}
       /\ \A i \in todo : outcome[i] = "none" /\ started[i] = {}
       /\ current # NoItem => outcome[current] = "none"
  /\ InDirect \/ InElevated => \A i \in Elevated : outcome[i] = "none"
  /\ tier # "none" =>
       /\ tier \notin tiers
       /\ \A i \in todo : tier \notin started[i]
       /\ IsDistinct => \A i \in todo : outcome[i] = "retryable"
       /\ IsDistinct /\ current # NoItem => outcome[current] = "retryable"
  /\ current \notin todo
  /\ \A i \in Items : started[i] \cap tiers = {}

\* A run starts with nothing attempted.
LEMMA RetryInit == Init => RetryInv
<1> SUFFICES ASSUME Init PROVE RetryInv
  OBVIOUS
<1> QED BY DEF Init, RetryInv, Items, InDirect, InElevated

\* Each action keeps what a loop has left apart from what it has done.
LEMMA RetryStep ==
  ASSUME ControlInv, TierInv, RetryInv, [Next]_vars
  PROVE  RetryInv'
<1> USE DEF RetryInv, InDirect, InElevated
<1>a. requests' = requests => UNCHANGED <<Items, Direct, Elevated, IsDistinct>>
  BY DEF Items, Direct, Elevated, IsDistinct
<1>b. TypeOK /\ SlotInv /\ NoItem \notin Items
  BY ItemsAreNotNoItem DEF ControlInv
<1>1. CASE UNCHANGED vars
  BY <1>1, <1>a DEF vars, loop
<1>2. CASE \/ PressCtrlC \/ SkipInView \/ StopInView \/ CloseGate \/ InstallTimeout
           \/ ChildEnds \/ OtherRunEnds \/ StartInstall \/ InstallReturns
  BY <1>2, <1>a, Asides DEF loop
<1>3. CASE Plan \/ TakeBatch \/ AbandonWait
  BY <1>3, <1>a, <1>b, DirectOrElevated
  DEF Plan, TakeBatch, AbandonWait, BeginDirect, loop, Fixed, TierInv, SlotInv
<1>4. CASE FindBusy \/ EnterFails
  BY <1>4, <1>a DEF FindBusy, EnterFails, loop, Fixed, TierInv
<1>5. ASSUME NEW i \in Items, StartDirect(i) PROVE RetryInv'
  <2>1. pc = "direct" /\ tier = "none" /\ UNCHANGED <<requests, tier, tiers>>
        /\ i \in todo /\ todo' = todo \ {i}
    BY <1>5 DEF StartDirect, TakeNext, Fixed, TierInv
  <2>2. CASE Start(i) /\ UNCHANGED outcome
    BY <1>a, <1>b, <2>1, <2>2 DEF Start, TypeOK, Tiers, RetryTiers
  <2>3. CASE outcome' = [outcome EXCEPT ![i] = "skipped"] /\ UNCHANGED <<pc, current, started>>
    BY <1>a, <1>b, <2>1, <2>3, DirectOrElevated DEF TypeOK, SlotInv
  <2> QED BY <1>5, <2>2, <2>3 DEF StartDirect, runner
<1>6. ASSUME NEW i \in Items, StartReplay(i) PROVE RetryInv'
  BY <1>6, <1>a, <1>b DEF StartReplay, TakeNext, Start, Fixed, TierInv, TypeOK
<1>7. ASSUME NEW raw \in RawOutcomes, Settle(raw) PROVE RetryInv'
  <2>1. UNCHANGED <<requests, tier, tiers, todo, started>> /\ current' = NoItem
        /\ pc = "installing" /\ pc' = IF tier = "none" THEN "direct" ELSE "replay"
    BY <1>7 DEF Settle, Fixed
  <2>2. CASE tier = "none"
    <3>1. \A i \in Items \ {current} : outcome'[i] = outcome[i]
      BY <1>7, <2>2 DEF Settle
    <3> QED BY <1>a, <1>b, <2>1, <2>2, <3>1, DirectOrElevated DEF TypeOK, SlotInv
  <2>3. CASE tier # "none"
    <3>1. IsDistinct => \A i \in Items \ {current} : outcome'[i] = outcome[i]
      BY <1>7, <1>b DEF Settle, IsDistinct, SamePackage, SlotInv, TypeOK
    <3> QED BY <1>a, <1>b, <2>1, <2>3, <3>1 DEF TypeOK, SlotInv
  <2> QED BY <2>2, <2>3
<1>8. CASE EndDirect \/ ConsiderElevation \/ ConfirmElevation \/ Elevate \/ ElevationSetupFails
  BY <1>8, <1>a, <1>b
  DEF EndDirect, ConsiderElevation, ConfirmElevation, Elevate, ElevationSetupFails, loop, Fixed,
      TierInv, SlotInv
<1>9. CASE DeclineElevation \/ ElevatedReturns
  BY <1>9, <1>a, <1>b
  DEF DeclineElevation, ElevatedReturns, SettleElevated, loop, Fixed, TierInv, SlotInv
<1>10. ASSUME NEW t \in Tiers, ChooseTier(t) PROVE RetryInv'
  BY <1>10, <1>a, <1>b DEF ChooseTier, Retryable, Fixed, TierInv, SlotInv, TypeOK
<1>11. CASE EndRetries \/ AskRetry \/ ChooseNone \/ Report \/ CancelPrompt
  BY <1>11, <1>a DEF EndRetries, AskRetry, ChooseNone, Report, CancelPrompt, loop, Fixed, TierInv
<1>12. CASE EndReplay
  BY <1>12, <1>a, <1>b DEF EndReplay, Fixed, TierInv, SlotInv
<1> QED
  BY <1>1, <1>2, <1>3, <1>4, <1>5, <1>6, <1>7, <1>8, <1>9, <1>10, <1>11, <1>12, NextActions

\* The invariant of the retries holds in every run.
LEMMA RetryInvariance == Spec => [](ControlInv /\ TierInv /\ RetryInv)
<1> DEFINE Inv == ControlInv /\ TierInv /\ RetryInv
<1>1. Init => Inv
  BY ControlInit, AccountInit, RetryInit
<1>2. Inv /\ [Next]_vars => Inv'
  BY ControlStep, TierStep, RetryStep
<1> QED BY <1>1, <1>2, PTL DEF Spec

\* Only an outcome flagged retryable is ever replaced
\* (retry-pass.ts:70-92, finalize-outcome.ts:23-26).
THEOREM FinalOutcomes == Spec => FinalOutcomesStay
<1> DEFINE Stays == \A i \in Items :
      IsDistinct /\ outcome[i] \notin {"none", "retryable"} => outcome'[i] = outcome[i]
<1>1. ControlInv /\ TierInv /\ RetryInv /\ [Next]_vars => [Stays]_vars
  <2> SUFFICES ASSUME ControlInv, RetryInv, Next,
                      NEW i \in Items, IsDistinct, outcome[i] \notin {"none", "retryable"}
               PROVE  outcome'[i] = outcome[i]
    BY DEF Stays
  <2> USE DEF ControlInv, RetryInv, InDirect, InElevated
  <2>1. ASSUME NEW j \in Items, StartDirect(j) PROVE outcome'[i] = outcome[i]
    BY <2>1 DEF StartDirect, TakeNext, TypeOK
  <2>2. ASSUME NEW raw \in RawOutcomes, Settle(raw) PROVE outcome'[i] = outcome[i]
    <3>1. i # current
      BY <2>2, ItemsAreNotNoItem DEF Settle
    <3>2. current \in Items
      BY <2>2 DEF Settle, SlotInv, TypeOK
    <3>3. i \notin SamePackage(current)
      BY <3>1, <3>2 DEF SamePackage, IsDistinct
    <3> QED BY <2>2, <3>1, <3>3 DEF Settle
  <2>3. CASE DeclineElevation \/ ElevatedReturns
    <3>1. i \notin Elevated
      BY <2>3 DEF DeclineElevation, ElevatedReturns
    <3> QED BY <2>3, <3>1 DEF DeclineElevation, ElevatedReturns, SettleElevated
  <2>4. CASE UNCHANGED outcome
    BY <2>4
  <2>5. \/ UNCHANGED outcome \/ DeclineElevation \/ ElevatedReturns
        \/ \E j \in Items : StartDirect(j)
        \/ \E raw \in RawOutcomes : Settle(raw)
    BY NextActions, Asides
    DEF Plan, TakeBatch, FindBusy, AbandonWait, EnterFails, StartReplay, EndDirect,
        ConsiderElevation, ConfirmElevation, Elevate, ElevationSetupFails, EndRetries, AskRetry,
        ChooseTier, ChooseNone, EndReplay, Report, CancelPrompt
  <2> QED BY <2>1, <2>2, <2>3, <2>4, <2>5
<1> QED BY <1>1, RetryInvariance, PTL DEF Spec, FinalOutcomesStay

\* What starts an attempt.
LEMMA AttemptsStart ==
  ASSUME ControlInv, [Next]_vars, NEW i \in Items, current # i, current' = i
  PROVE  StartDirect(i) \/ StartReplay(i)
<1>1. current' # current /\ current' # NoItem
  BY ItemsAreNotNoItem DEF ControlInv
<1>2. PICK j \in Items : StartDirect(j) \/ StartReplay(j)
  BY <1>1, NextActions, Asides
  DEF vars, loop, Plan, TakeBatch, FindBusy, AbandonWait, EnterFails, Settle, EndDirect,
      ConsiderElevation, ConfirmElevation, DeclineElevation, Elevate, ElevatedReturns,
      ElevationSetupFails, EndRetries, AskRetry, ChooseTier, ChooseNone, EndReplay, Report,
      CancelPrompt
<1>3. current' \in {j, current}
  BY <1>2 DEF StartDirect, StartReplay, Start
<1> QED BY <1>1, <1>2, <1>3

\* No package is attempted twice with the same tier (retry-pass.ts:41-68).
THEOREM TiersAreOfferedOnce == Spec => TierOncePerItem
<1> DEFINE Once == \A i \in Items : current # i /\ current' = i => tier \notin started[i]
<1>1. ControlInv /\ TierInv /\ RetryInv /\ [Next]_vars => [Once]_vars
  <2> SUFFICES ASSUME ControlInv, TierInv, RetryInv, [Next]_vars,
                      NEW i \in Items, current # i, current' = i
               PROVE  tier \notin started[i]
    BY DEF Once
  <2>1. CASE StartDirect(i)
    BY <2>1 DEF RetryInv, InDirect, StartDirect, TakeNext
  <2>2. CASE StartReplay(i)
    BY <2>2 DEF RetryInv, TierInv, StartReplay, TakeNext
  <2> QED BY <2>1, <2>2, AttemptsStart
<1> QED BY <1>1, RetryInvariance, PTL DEF Spec, TierOncePerItem

\* Once the gate is closed nothing starts, no question opens and no outcome
\* is made (update-pipeline.ts:69-72, 84-85, retry-pass.ts:55, 87).
THEOREM StopStartsNothing == Spec => NoPackageStartsAfterStop
<1> DEFINE Quiet ==
      stopped /\ pc \notin StepsInFlight \cup Questions
        => pc' \notin StepsInFlight \cup Questions /\ outcome' = outcome
<1>1. [Next]_vars => [Quiet]_vars
  <2> SUFFICES ASSUME Next, stopped, pc \notin StepsInFlight \cup Questions
               PROVE  pc' \notin StepsInFlight \cup Questions /\ outcome' = outcome
    BY DEF Quiet
  <2> USE DEF StepsInFlight, Questions
  <2>1. CASE UNCHANGED <<pc, outcome>>
    BY <2>1
  <2>2. CASE Plan \/ TakeBatch \/ FindBusy \/ AbandonWait \/ EnterFails \/ EndDirect
    BY <2>2 DEF Plan, TakeBatch, FindBusy, AbandonWait, EnterFails, EndDirect, BeginDirect
  <2>3. CASE ConsiderElevation \/ EndRetries \/ EndReplay \/ Report
    BY <2>3 DEF ConsiderElevation, EndRetries, EndReplay, Report
  <2>4. \A i \in Items : ~StartDirect(i) /\ ~StartReplay(i)
    BY DEF StartDirect, StartReplay, TakeNext
  <2>5. ~AskRetry /\ \A raw \in RawOutcomes : ~Settle(raw)
    BY DEF AskRetry, Settle
  <2>6. /\ ~ConfirmElevation /\ ~DeclineElevation /\ ~Elevate /\ ~ElevatedReturns
        /\ ~ElevationSetupFails
    BY DEF ConfirmElevation, DeclineElevation, Elevate, ElevatedReturns, ElevationSetupFails
  <2>7. ~ChooseNone /\ ~CancelPrompt /\ \A t \in Tiers : ~ChooseTier(t)
    BY DEF ChooseNone, CancelPrompt, ChooseTier
  <2> QED BY <2>1, <2>2, <2>3, <2>4, <2>5, <2>6, <2>7, NextActions, Asides
<1> QED BY <1>1, PTL DEF Spec, NoPackageStartsAfterStop
-----------------------------------------------------------------------------
(* The order of the installs.                                              *)

\* A set of numbers has a least one.
LEMMA LeastNumber ==
  ASSUME NEW S \in SUBSET Nat, S # {}
  PROVE  \E m \in S : \A n \in S : m <= n
<1>1. PICK m \in S : \A n \in S : ~ (<<n, m>> \in OpToRel(<, Nat))
  BY NatLessThanWellFounded, WFMin
<1>2. ASSUME NEW n \in S, n < m PROVE FALSE
  <2>1. n \in Nat /\ m \in Nat /\ <<n, m>> \in Nat \X Nat
    OBVIOUS
  <2>2. <<n, m>> \in OpToRel(<, Nat)
    BY <1>2, <2>1 DEF OpToRel
  <2> QED BY <1>1, <2>2
<1> QED BY <1>2

\* The relation R orders S.
Orders(R, S) ==
  /\ \A i \in S : <<i, i>> \notin R
  /\ \A i, j, k \in S : <<i, j>> \in R /\ <<j, k>> \in R => <<i, k>> \in R
  /\ \A i, j \in S : i # j => <<i, j>> \in R \/ <<j, i>> \in R

\* A finite ordered set has a first element.
LEMMA FirstElement ==
  ASSUME NEW S, IsFiniteSet(S), S # {}, NEW R, Orders(R, S)
  PROVE  \E m \in S : \A j \in S \ {m} : <<m, j>> \in R
<1> DEFINE Ahead(i) == {j \in S : <<j, i>> \in R}
           Keys     == {Cardinality(Ahead(i)) : i \in S}
<1>1. \A i \in S : IsFiniteSet(Ahead(i)) /\ Cardinality(Ahead(i)) \in Nat
  BY FS_Subset, FS_CardinalityType
<1>2. Keys \in SUBSET Nat /\ Keys # {}
  BY <1>1
<1>3. PICK k \in Keys : \A n \in Keys : k <= n
  <2> HIDE DEF Keys
  <2> QED BY <1>2, LeastNumber
<1>4. PICK m \in S : k = Cardinality(Ahead(m))
  OBVIOUS
<1>5. ASSUME NEW j \in S, <<j, m>> \in R PROVE FALSE
  <2>1. Ahead(j) \subseteq Ahead(m)
    BY <1>5 DEF Orders
  <2>2. j \in Ahead(m) /\ j \notin Ahead(j)
    BY <1>5 DEF Orders
  <2>3. Cardinality(Ahead(j)) \in Keys
    OBVIOUS
  <2>4. Cardinality(Ahead(m)) <= Cardinality(Ahead(j))
    BY <1>3, <1>4, <2>3
  <2> DEFINE A == Ahead(j)
             B == Ahead(m)
  <2>5. IsFiniteSet(B) /\ A \in SUBSET B /\ A # B /\ Cardinality(B) <= Cardinality(A)
        /\ Cardinality(A) \in Nat /\ Cardinality(B) \in Nat
    BY <1>1, <2>1, <2>2, <2>4
  <2> HIDE DEF A, B
  <2>6. Cardinality(A) <= Cardinality(B) /\ (Cardinality(B) = Cardinality(A) => B = A)
    BY <2>5, FS_Subset
  <2> QED BY <2>5, <2>6
<1>6. \A j \in S \ {m} : <<m, j>> \in R
  BY <1>5 DEF Orders
<1> QED BY <1>6

\* G is R, grouped by P.
Groups(G, R, P, S) ==
  \A i, j \in S : <<i, j>> \in G <=>
    IF P[i] = P[j] THEN <<i, j>> \in R
    ELSE \E a \in S : P[a] = P[i] /\ \A b \in S : P[b] = P[j] => <<a, b>> \in R

\* The members of a group follow one another.
InOnePiece(G, P, S) ==
  \A i, j, k \in S : <<i, j>> \in G /\ <<j, k>> \in G /\ P[i] = P[k] => P[j] = P[i]

\* What groupByProvider makes of an ordered set, P being the provider of each
\* item: an order, in which the items of one provider follow one another.
LEMMA GroupsInOrder ==
  ASSUME NEW S, IsFiniteSet(S), NEW R, Orders(R, S), NEW P, NEW G, Groups(G, R, P, S)
  PROVE  Orders(G, S) /\ InOnePiece(G, P, S)
<1> USE DEF Groups
<1>1. ASSUME NEW i \in S, NEW j \in S, NEW k \in S, <<i, j>> \in G, <<j, k>> \in G, P[i] # P[j], P[j] # P[k]
      PROVE  P[i] # P[k] /\ <<i, k>> \in G
  <2>1. PICK a \in S : P[a] = P[i] /\ \A b \in S : P[b] = P[j] => <<a, b>> \in R
    BY <1>1
  <2>2. PICK b \in S : P[b] = P[j] /\ \A c \in S : P[c] = P[k] => <<b, c>> \in R
    BY <1>1
  <2>3. \A c \in S : P[c] = P[k] => <<a, c>> \in R
    BY <2>1, <2>2 DEF Orders
  <2>4. P[i] # P[k]
    BY <2>1, <2>3 DEF Orders
  <2> QED BY <2>1, <2>3, <2>4
<1>2. \A i \in S : <<i, i>> \notin G
  BY DEF Orders
<1>3. ASSUME NEW i \in S, NEW j \in S, NEW k \in S, <<i, j>> \in G, <<j, k>> \in G PROVE <<i, k>> \in G
  <2>1. CASE P[i] = P[j] /\ P[j] = P[k]
    BY <1>3, <2>1 DEF Orders
  <2>2. CASE P[i] = P[j] /\ P[j] # P[k]
    <3>1. PICK a \in S : P[a] = P[j] /\ \A b \in S : P[b] = P[k] => <<a, b>> \in R
      BY <1>3, <2>2
    <3> QED BY <2>2, <3>1
  <2>3. CASE P[i] # P[j] /\ P[j] = P[k]
    <3>1. PICK a \in S : P[a] = P[i] /\ \A b \in S : P[b] = P[j] => <<a, b>> \in R
      BY <1>3, <2>3
    <3> QED BY <2>3, <3>1
  <2>4. CASE P[i] # P[j] /\ P[j] # P[k]
    BY <1>1, <1>3, <2>4
  <2> QED BY <2>1, <2>2, <2>3, <2>4
<1>4. ASSUME NEW i \in S, NEW j \in S, i # j PROVE <<i, j>> \in G \/ <<j, i>> \in G
  <2>1. CASE P[i] = P[j]
    BY <1>4, <2>1 DEF Orders
  <2>2. CASE P[i] # P[j]
    <3> DEFINE T == {a \in S : P[a] = P[i] \/ P[a] = P[j]}
    <3>1. T \subseteq S /\ IsFiniteSet(T) /\ T # {}
      BY FS_Subset
    <3>2. Orders(R, T)
      BY <3>1 DEF Orders
    <3>3. PICK m \in T : \A b \in T \ {m} : <<m, b>> \in R
      <4> HIDE DEF T
      <4> QED BY <3>1, <3>2, FirstElement
    <3>4. CASE P[m] = P[i]
      BY <2>2, <3>3, <3>4
    <3>5. CASE P[m] = P[j]
      BY <2>2, <3>3, <3>5
    <3> QED BY <3>4, <3>5
  <2> QED BY <2>1, <2>2
<1>5. ASSUME NEW i \in S, NEW j \in S, NEW k \in S, <<i, j>> \in G, <<j, k>> \in G, P[i] = P[k]
      PROVE  P[j] = P[i]
  BY <1>1, <1>5
<1> QED BY <1>2, <1>3, <1>4, <1>5 DEF Orders, InOnePiece

\* The items are finitely many numbers.
LEMMA ItemsFinite == TypeOK => IsFiniteSet(Items) /\ Items \subseteq Nat
<1> SUFFICES ASSUME TypeOK PROVE IsFiniteSet(Items) /\ Items \subseteq Nat
  OBVIOUS
<1>1. requests \in Seq(Packages)
  BY PipelineAssumption DEF TypeOK
<1>2. Items = 1..Len(requests) /\ Len(requests) \in Nat
  BY <1>1 DEF Items
<1> QED BY <1>2, FS_Interval

\* planUpdates orders the direct items, each provider's together
\* (update-plan.ts:22-51).
DirectPairs == {p \in Direct \X Direct : DirectOrder(p[1], p[2])}

LEMMA DirectOrdered ==
  ASSUME TypeOK
  PROVE  /\ Orders(DirectPairs, Direct)
         /\ \A i, j, k \in Direct :
              DirectOrder(i, j) /\ DirectOrder(j, k) /\ Provider(i) = Provider(k) => Provider(j) = Provider(i)
<1> DEFINE R == {p \in Direct \X Direct : p[1] < p[2]}
           P == [i \in Direct |-> Provider(i)]
<1>1. IsFiniteSet(Direct) /\ Direct \subseteq Nat
  BY ItemsFinite, FS_Subset DEF Direct
<1>2. Orders(R, Direct)
  BY <1>1 DEF Orders
<1>3. \A i, j \in Direct : <<i, j>> \in DirectPairs <=> DirectOrder(i, j)
  BY DEF DirectPairs
<1>a. \A i, j \in Direct : <<i, j>> \in R <=> i < j
  OBVIOUS
<1>b. \A i \in Direct : P[i] = Provider(i)
  OBVIOUS
<1> HIDE DEF R, P
<1>c. \A i, j \in Direct : DirectOrder(i, j) <=>
        IF Provider(i) = Provider(j) THEN i < j
        ELSE \E a \in Direct : Provider(a) = Provider(i)
                             /\ \A b \in Direct : Provider(b) = Provider(j) => a < b
  BY DEF DirectOrder, Grouped, InRequestOrder
<1>4. Groups(DirectPairs, R, P, Direct)
  <2> SUFFICES ASSUME NEW i \in Direct, NEW j \in Direct
               PROVE  <<i, j>> \in DirectPairs <=>
                        IF P[i] = P[j] THEN <<i, j>> \in R
                        ELSE \E a \in Direct : P[a] = P[i] /\ \A b \in Direct : P[b] = P[j] => <<a, b>> \in R
    BY DEF Groups
  <2>1. (\E a \in Direct : P[a] = P[i] /\ \A b \in Direct : P[b] = P[j] => <<a, b>> \in R)
        <=> (\E a \in Direct : Provider(a) = Provider(i)
                               /\ \A b \in Direct : Provider(b) = Provider(j) => a < b)
    BY <1>a, <1>b
  <2> QED BY <1>3, <1>a, <1>b, <1>c, <2>1
<1>5. Orders(DirectPairs, Direct) /\ InOnePiece(DirectPairs, P, Direct)
  BY <1>1, <1>2, <1>4, GroupsInOrder
<1>6. ASSUME NEW i \in Direct, NEW j \in Direct, NEW k \in Direct,
             DirectOrder(i, j), DirectOrder(j, k), Provider(i) = Provider(k)
      PROVE  Provider(j) = Provider(i)
  <2>1. <<i, j>> \in DirectPairs /\ <<j, k>> \in DirectPairs /\ P[i] = P[k]
    BY <1>3, <1>b, <1>6
  <2>2. P[j] = P[i]
    BY <1>5, <2>1 DEF InOnePiece
  <2> QED BY <1>b, <2>2
<1> QED BY <1>5, <1>6

\* The plan orders all items: the direct ones before the elevated ones, which
\* stay as requested (update-plan.ts:22-51).
PlanPairs == {p \in Items \X Items : PlanOrder(p[1], p[2])}

LEMMA PlanOrdered ==
  ASSUME TypeOK
  PROVE  Orders(PlanPairs, Items)
<1>1. /\ Items = Direct \cup Elevated /\ Direct \cap Elevated = {} /\ Items \subseteq Nat
      /\ \A i, j \in Items : <<i, j>> \in PlanPairs <=> PlanOrder(i, j)
  BY ItemsFinite DEF Direct, Elevated, PlanPairs
<1>2. \A i, j \in Direct : PlanOrder(i, j) <=> <<i, j>> \in DirectPairs
  BY DEF PlanOrder, Direct, DirectPairs
<1>3. \A i \in Direct, j \in Elevated : PlanOrder(i, j) /\ ~PlanOrder(j, i)
  BY DEF PlanOrder, Direct
<1>4. \A i, j \in Elevated : PlanOrder(i, j) <=> i < j
  BY DEF PlanOrder, Direct
<1>5. Orders(DirectPairs, Direct)
  BY DirectOrdered
<1>6. ASSUME NEW i \in Items PROVE ~PlanOrder(i, i)
  <2>1. CASE i \in Direct
    BY <1>2, <1>5, <2>1 DEF Orders
  <2>2. CASE i \in Elevated
    <3>1. i \in Nat
      BY <1>1
    <3> QED BY <1>4, <2>2, <3>1
  <2> QED BY <1>1, <2>1, <2>2
<1>7. ASSUME NEW i \in Items, NEW j \in Items, NEW k \in Items, PlanOrder(i, j), PlanOrder(j, k)
      PROVE  PlanOrder(i, k)
  <2>1. CASE i \in Direct /\ k \in Direct
    <3>1. j \in Direct
      BY <1>1, <1>3, <1>7, <2>1
    <3> QED BY <1>2, <1>5, <1>7, <2>1, <3>1 DEF Orders
  <2>2. CASE i \in Elevated
    <3>1. j \in Elevated /\ k \in Elevated
      BY <1>1, <1>3, <1>7, <2>2
    <3> QED BY <1>1, <1>4, <1>7, <2>2, <3>1
  <2>3. CASE i \in Direct /\ k \in Elevated
    BY <1>3, <2>3
  <2> QED BY <1>1, <2>1, <2>2, <2>3
<1>8. ASSUME NEW i \in Items, NEW j \in Items, i # j PROVE PlanOrder(i, j) \/ PlanOrder(j, i)
  <2>1. CASE i \in Direct /\ j \in Direct
    BY <1>2, <1>5, <1>8, <2>1 DEF Orders
  <2>2. CASE i \in Elevated /\ j \in Elevated
    BY <1>1, <1>4, <1>8, <2>2
  <2> QED BY <1>1, <1>3, <2>1, <2>2
<1> QED BY <1>1, <1>6, <1>7, <1>8 DEF Orders

\* What groupByProvider makes of the failures S of a replay is an order too
\* (retry-pass.ts:86).
ReplayPairs(S) == {p \in S \X S : ReplayOrder(S, p[1], p[2])}

LEMMA ReplayOrdered ==
  ASSUME TypeOK, NEW S \in SUBSET Items
  PROVE  IsFiniteSet(S) /\ Orders(ReplayPairs(S), S)
<1> DEFINE P == [i \in S |-> Provider(i)]
           G == ReplayPairs(S)
<1>1. IsFiniteSet(S)
  BY ItemsFinite, FS_Subset
<1>2. Orders(PlanPairs, S)
  BY PlanOrdered DEF Orders
<1>3. /\ \A i, j \in S : <<i, j>> \in G <=> ReplayOrder(S, i, j)
      /\ \A i, j \in S : <<i, j>> \in PlanPairs <=> PlanOrder(i, j)
      /\ \A i \in S : P[i] = Provider(i)
  BY DEF ReplayPairs, PlanPairs
<1>4. \A i, j \in S : ReplayOrder(S, i, j) <=>
        IF Provider(i) = Provider(j) THEN PlanOrder(i, j)
        ELSE \E a \in S : Provider(a) = Provider(i)
                         /\ \A b \in S : Provider(b) = Provider(j) => PlanOrder(a, b)
  BY DEF ReplayOrder, Grouped
<1> HIDE DEF P, G
<1>5. Groups(G, PlanPairs, P, S)
  <2> SUFFICES ASSUME NEW i \in S, NEW j \in S
               PROVE  <<i, j>> \in G <=>
                        IF P[i] = P[j] THEN <<i, j>> \in PlanPairs
                        ELSE \E a \in S : P[a] = P[i] /\ \A b \in S : P[b] = P[j] => <<a, b>> \in PlanPairs
    BY DEF Groups
  <2>1. (\E a \in S : P[a] = P[i] /\ \A b \in S : P[b] = P[j] => <<a, b>> \in PlanPairs)
        <=> (\E a \in S : Provider(a) = Provider(i)
                          /\ \A b \in S : Provider(b) = Provider(j) => PlanOrder(a, b))
    BY <1>3
  <2> QED BY <1>3, <1>4, <2>1
<1>6. Orders(G, S)
  BY <1>1, <1>2, <1>5, GroupsInOrder
<1> QED BY <1>1, <1>6 DEF G

\* A replay keeps the order of the plan among direct items: grouping the
\* failures again does not change it, even when elevated ones are among them.
\* And an elevated item comes after the direct ones of its provider
\* (retry-pass.ts:83-92).
LEMMA ReplayKeepsTheOrder ==
  ASSUME NEW S \in SUBSET Items, NEW i \in S, NEW j \in S \cap Direct
  PROVE  /\ i \in Direct => (ReplayOrder(S, i, j) <=> DirectOrder(i, j))
         /\ i \notin Direct /\ Provider(i) = Provider(j) => ReplayOrder(S, j, i)
<1>1. /\ \A a, b \in Direct : PlanOrder(a, b) <=> DirectOrder(a, b)
      /\ \A a \in Items, b \in Direct : PlanOrder(a, b) => a \in Direct
      /\ \A a \in Direct, b \in Items \ Direct : PlanOrder(a, b)
  BY DEF PlanOrder, Direct
<1>2. CASE Provider(i) = Provider(j)
  BY <1>1, <1>2 DEF ReplayOrder, Grouped
<1>3. CASE Provider(i) # Provider(j) /\ i \in Direct
  <2>1. \A a, b \in Direct : Provider(a) = Provider(i) /\ Provider(b) = Provider(j) =>
          (DirectOrder(a, b) <=> DirectOrder(i, j))
    BY <1>3 DEF DirectOrder, Grouped
  <2>2. ReplayOrder(S, i, j) <=>
          \E a \in S : Provider(a) = Provider(i) /\ \A b \in S : Provider(b) = Provider(j) => PlanOrder(a, b)
    BY <1>3 DEF ReplayOrder, Grouped
  <2>3. ASSUME ReplayOrder(S, i, j) PROVE DirectOrder(i, j)
    <3>1. PICK a \in S : Provider(a) = Provider(i) /\ PlanOrder(a, j)
      BY <2>2, <2>3
    <3> QED BY <1>1, <2>1, <3>1
  <2>4. ASSUME DirectOrder(i, j) PROVE ReplayOrder(S, i, j)
    <3>1. \A b \in S : Provider(b) = Provider(j) => PlanOrder(i, b)
      BY <1>1, <1>3, <2>1, <2>4
    <3> QED BY <2>2, <3>1
  <2> QED BY <1>3, <2>3, <2>4
<1> QED BY <1>2, <1>3

\* An ordered loop has a next item.
LEMMA NextItem ==
  ASSUME NEW S, S # {}, IsFiniteSet(S), NEW R, Orders(R, S)
  PROVE  \E i \in S : \A j \in S \ {i} : <<j, i>> \notin R
<1>1. PICK m \in S : \A j \in S \ {m} : <<m, j>> \in R
  BY FirstElement
<1>2. \A j \in S \ {m} : <<j, m>> \notin R
  BY <1>1 DEF Orders
<1> QED BY <1>2

\* The direct installs have direct items only.  (A replay may have elevated
\* ones, in-process this time.)
ReplayInv == InDirect => todo \subseteq Direct

\* What the direct installs have left comes after what they have done.
OrderInv == InDirect => \A i \in todo, j \in Direct \ todo : DirectOrder(j, i)

PlanInv == ReplayInv /\ OrderInv

LEMMA PlanInit == Init => PlanInv
<1> SUFFICES ASSUME Init PROVE PlanInv
  OBVIOUS
<1> QED BY DEF Init, PlanInv, ReplayInv, OrderInv, InDirect

\* What comes after i in a loop: a direct item starts before the direct ones
\* that follow it in the plan, an elevated one after those of its provider.
Follows(i, j) == IF i \in Direct THEN DirectOrder(i, j) ELSE Provider(j) # Provider(i)

\* The item a loop starts comes before all that it has left.
LEMMA StartedIsFirst ==
  ASSUME TypeOK, ReplayInv, NEW i \in Items, StartDirect(i) \/ StartReplay(i)
  PROVE  /\ i \in todo /\ todo' = todo \ {i} /\ (pc = "direct" => i \in Direct)
         /\ \A j \in todo' \cap Direct : Follows(i, j)
<1>1. /\ i \in todo /\ todo' = todo \ {i} /\ todo \in SUBSET Items
      /\ pc = "direct" => todo \subseteq Direct
  BY DEF StartDirect, StartReplay, TakeNext, ReplayInv, InDirect, TypeOK
<1>2. CASE i \in Direct
  <2>1. \A j \in (todo \ {i}) \cap Direct : ~DirectOrder(j, i)
    <3>1. CASE StartDirect(i)
      BY <3>1 DEF StartDirect, TakeNext
    <3>2. CASE StartReplay(i)
      BY <1>1, <1>2, <3>2, ReplayKeepsTheOrder DEF StartReplay, TakeNext
    <3> QED BY <3>1, <3>2
  <2>2. ASSUME NEW j \in (todo \ {i}) \cap Direct PROVE DirectOrder(i, j)
    <3>1. <<i, j>> \in DirectPairs \/ <<j, i>> \in DirectPairs
      BY <1>2, DirectOrdered DEF Orders
    <3> QED BY <2>1, <3>1 DEF DirectPairs
  <2> QED BY <1>1, <1>2, <2>2 DEF Follows
<1>3. CASE i \notin Direct
  <2>1. StartReplay(i) /\ pc = "replay"
    BY <1>1, <1>3 DEF StartDirect, StartReplay
  <2>2. ASSUME NEW j \in (todo \ {i}) \cap Direct, Provider(j) = Provider(i) PROVE FALSE
    <3>1. ReplayOrder(todo, j, i)
      BY <1>1, <1>3, <2>2, ReplayKeepsTheOrder
    <3> QED BY <2>1, <2>2, <3>1 DEF StartReplay, TakeNext
  <2> QED BY <1>1, <1>3, <2>1, <2>2 DEF Follows
<1> QED BY <1>2, <1>3

\* Each action keeps the loops to the order of the plan.
LEMMA PlanStep ==
  ASSUME ControlInv, TierInv, PlanInv, [Next]_vars
  PROVE  PlanInv'
<1> USE DEF PlanInv, ReplayInv, OrderInv, InDirect
<1>a. requests' = requests =>
        /\ UNCHANGED <<Items, Direct, Elevated>>
        /\ \A i, j \in Direct : DirectOrder(i, j)' <=> DirectOrder(i, j)
  <2> SUFFICES ASSUME requests' = requests
               PROVE  /\ UNCHANGED <<Items, Direct, Elevated>>
                      /\ \A i, j \in Direct : DirectOrder(i, j)' <=> DirectOrder(i, j)
    OBVIOUS
  <2>1. UNCHANGED <<Items, Direct, Elevated>>
    BY DEF Items, Direct, Elevated
  <2> QED BY <2>1 DEF DirectOrder, Grouped, Provider, InRequestOrder
<1>b. TypeOK /\ SlotInv /\ NoItem \notin Items
  BY ItemsAreNotNoItem DEF ControlInv
<1>1. CASE UNCHANGED vars
  BY <1>1, <1>a DEF vars, loop
<1>2. CASE \/ PressCtrlC \/ SkipInView \/ StopInView \/ CloseGate \/ InstallTimeout
           \/ ChildEnds \/ OtherRunEnds \/ StartInstall \/ InstallReturns
  BY <1>2, <1>a, Asides DEF loop
<1>3. CASE Plan \/ TakeBatch \/ AbandonWait
  BY <1>3, <1>a DEF Plan, TakeBatch, AbandonWait, BeginDirect, loop, Fixed, TierInv
<1>4. CASE FindBusy \/ EnterFails
  BY <1>4, <1>a DEF FindBusy, EnterFails, loop, Fixed
<1>5. ASSUME NEW i \in Items, StartDirect(i) \/ StartReplay(i) PROVE PlanInv'
  <2>1. /\ UNCHANGED <<requests, tier>> /\ i \in todo /\ todo' = todo \ {i} /\ (pc = "direct" => i \in Direct)
        /\ \A j \in todo' \cap Direct : Follows(i, j)
    BY <1>5, <1>b, StartedIsFirst DEF StartDirect, StartReplay, Fixed, Start
  <2>2. InDirect' => InDirect /\ pc = "direct"
    BY <1>5 DEF StartDirect, StartReplay, Start, TierInv, TakeNext
  <2>4. Direct' = Direct
    BY <1>a, <2>1
  <2>5. InDirect' => todo' \subseteq Direct /\ \A k \in todo', j \in Direct \ todo' : DirectOrder(j, k)
    BY <2>1, <2>2 DEF Follows
  <2>6. InDirect' => \A k \in todo', j \in Direct \ todo' : DirectOrder(j, k)' <=> DirectOrder(j, k)
    BY <1>a, <2>1, <2>5
  <2>7. OrderInv'
    BY <2>4, <2>5, <2>6
  <2> QED BY <2>4, <2>5, <2>7
<1>6. ASSUME NEW raw \in RawOutcomes, Settle(raw) PROVE PlanInv'
  <2>1. UNCHANGED <<requests, tier, todo>> /\ current' = NoItem /\ (InDirect' => InDirect)
    BY <1>6 DEF Settle, Fixed
  <2> QED BY <1>a, <2>1
<1>7. CASE EndDirect \/ ConsiderElevation \/ ConfirmElevation \/ Elevate \/ ElevationSetupFails
  BY <1>7, <1>a
  DEF EndDirect, ConsiderElevation, ConfirmElevation, Elevate, ElevationSetupFails, loop, Fixed
<1>8. CASE DeclineElevation \/ ElevatedReturns
  BY <1>8, <1>a DEF DeclineElevation, ElevatedReturns, SettleElevated, loop, Fixed
<1>9. ASSUME NEW t \in Tiers, ChooseTier(t) PROVE PlanInv'
  BY <1>9, <1>a DEF ChooseTier, Fixed
<1>10. CASE EndRetries \/ AskRetry \/ ChooseNone \/ Report \/ CancelPrompt \/ EndReplay
  BY <1>10, <1>a
  DEF EndRetries, AskRetry, ChooseNone, Report, CancelPrompt, EndReplay, loop, Fixed
<1> QED
  BY <1>1, <1>2, <1>3, <1>4, <1>5, <1>6, <1>7, <1>8, <1>9, <1>10, NextActions

LEMMA PlanInvariance == Spec => [](ControlInv /\ TierInv /\ PlanInv)
<1> DEFINE Inv == ControlInv /\ TierInv /\ PlanInv
<1>1. Init => Inv
  BY ControlInit, AccountInit, PlanInit
<1>2. Inv /\ [Next]_vars => Inv'
  BY ControlStep, TierStep, PlanStep
<1> QED BY <1>1, <1>2, PTL DEF Spec

\* The direct package that starts, the first time or with a tier, is the first
\* of the direct ones left in the order of the plan: grouping the failures
\* again does not change it; and an elevated failure that is replayed comes
\* after the direct ones of its provider (update-plan.ts:22-51,
\* retry-pass.ts:83-92).
THEOREM InstallsFollowThePlan ==
  Spec => [][\A i \in Items : current # i /\ current' = i => \A j \in todo' \cap Direct : Follows(i, j)]_vars
<1> DEFINE InOrder == \A i \in Items : current # i /\ current' = i => \A j \in todo' \cap Direct : Follows(i, j)
<1>1. ControlInv /\ TierInv /\ PlanInv /\ [Next]_vars => [InOrder]_vars
  <2> SUFFICES ASSUME ControlInv, PlanInv, [Next]_vars, NEW i \in Items, current # i, current' = i
               PROVE  \A j \in todo' \cap Direct : Follows(i, j)
    BY DEF InOrder
  <2> QED BY AttemptsStart, StartedIsFirst DEF ControlInv, PlanInv
<1> QED BY <1>1, PlanInvariance, PTL DEF Spec

\* One package manager at a time is half done: the direct installs go
\* through with a provider before they go on to the next one, wherever its
\* packages stand in the request (update-plan.ts:22-27).
OneProviderUnderWay ==
  InDirect => \A i, k \in todo, j, l \in Direct \ todo :
    Provider(i) = Provider(j) /\ Provider(k) = Provider(l) => Provider(i) = Provider(k)

\* At any moment of the direct installs there is at most one provider with
\* packages done and packages to do (update-plan.ts:44-51).
THEOREM OneProviderAtATime == Spec => []OneProviderUnderWay
<1>1. ASSUME ControlInv, TierInv, PlanInv PROVE OneProviderUnderWay
  <2> SUFFICES ASSUME InDirect, NEW i \in todo, NEW k \in todo, NEW j \in Direct \ todo, NEW l \in Direct \ todo,
                      Provider(i) = Provider(j), Provider(k) = Provider(l), Provider(i) # Provider(k)
               PROVE  FALSE
    BY DEF OneProviderUnderWay
  <2>1. i \in Direct /\ k \in Direct /\ DirectOrder(j, k) /\ DirectOrder(l, i)
    BY <1>1 DEF PlanInv, ReplayInv, OrderInv
  <2>2. DirectOrder(i, l)
    BY <2>1 DEF DirectOrder, Grouped
  <2>3. <<i, l>> \in DirectPairs /\ <<l, i>> \in DirectPairs
    BY <2>1, <2>2 DEF DirectPairs
  <2> QED BY <1>1, <2>1, <2>3, DirectOrdered DEF ControlInv, Orders
<1> QED BY <1>1, PlanInvariance, PTL
-----------------------------------------------------------------------------
(* A run ends.                                                             *)

InReplay == pc = "replay" \/ (pc = "installing" /\ tier # "none")

\* Where the run stands.
StageLeft ==
  CASE pc = "start" -> 10 [] pc = "enter" -> 9 [] pc = "waiting" -> 8
    [] InDirect -> 7
    [] pc = "elevate" -> 6 [] pc = "asking" -> 5 [] pc = "preparing" -> 4 [] pc = "elevating" -> 3
    [] InReplay \/ pc \in {"retry", "choosing"} -> 2
    [] pc = "report" -> 1
    [] pc \in {"done", "failed"} -> 0

\* Where the retry loop stands.
TurnLeft == CASE InReplay -> 2 [] pc = "retry" -> 1 [] ~InReplay /\ pc # "retry" -> 0

GateLeft  == IF stopped THEN 0 ELSE 1
OtherLeft == IF batch = "other" THEN 1 ELSE 0

\* What is left of the run but its loops; of the loop; of the attempt.
PhasesLeft == GateLeft + OtherLeft + 3 * StageLeft + 3 * Cardinality(tiers) + TurnLeft

ItemsLeft == 2 * Cardinality(todo) + (IF pc = "installing" THEN 1 ELSE 0)

ChildLeft ==
  CASE child = "none" -> 0 [] child \in {"gone", "lost"} -> 3 [] child = "killed" -> 4
    [] child = "running" -> 5
FlagsLeft == (IF "aborted" \in flags THEN 0 ELSE 1) + (IF "timedOut" \in flags THEN 0 ELSE 1)
TimerLeft == IF timerFired THEN 0 ELSE 1

InstallsLeft == 8 * (MaxInstalls - installs)

WorkLeft == InstallsLeft + ChildLeft + TimerLeft + FlagsLeft

\* Less is left: of the run, or of its loop, or of its attempt.
LessIsLeft ==
  \/ PhasesLeft' < PhasesLeft
  \/ PhasesLeft' = PhasesLeft /\ ItemsLeft' < ItemsLeft
  \/ PhasesLeft' = PhasesLeft /\ ItemsLeft' = ItemsLeft /\ WorkLeft' < WorkLeft

\* The tiers are three at most, and one that was chosen is one less.
LEMMA TiersLeft ==
  /\ \A S \in SUBSET Tiers : IsFiniteSet(S) /\ Cardinality(S) \in 0..3
  /\ \A S \in SUBSET Tiers : \A t \in S : Cardinality(S \ {t}) = Cardinality(S) - 1
<1>1. Tiers = (({} \cup {"force"}) \cup {"force-uninstall"}) \cup {"reinstall"}
  <2>1. 1..3 = {1, 2, 3}
    OBVIOUS
  <2> QED BY <2>1 DEF Tiers, RetryTiers
<1>2. IsFiniteSet({} \cup {"force"}) /\ Cardinality({} \cup {"force"}) = 1
  BY FS_EmptySet, FS_AddElement
<1> DEFINE T1 == {} \cup {"force"}
           T2 == T1 \cup {"force-uninstall"}
<1>3. IsFiniteSet(T2) /\ Cardinality(T2) \in 0..2
  <2> HIDE DEF T1
  <2>1. IsFiniteSet(T1) /\ Cardinality(T1) = 1
    BY <1>2 DEF T1
  <2> QED BY <2>1, FS_AddElement
<1>4. IsFiniteSet(Tiers) /\ Cardinality(Tiers) \in 0..3
  <2>1. Tiers = T2 \cup {"reinstall"}
    BY <1>1
  <2> HIDE DEF T2
  <2> QED BY <1>3, <2>1, FS_AddElement
<1>5. \A S \in SUBSET Tiers : IsFiniteSet(S) /\ Cardinality(S) \in 0..3
  BY <1>4, FS_Subset, FS_CardinalityType
<1> QED BY <1>5, FS_RemoveElement

\* What is left is a triple of natural numbers, bounded by the request and by
\* the number of installs.
LEMMA LeftTypes ==
  ASSUME TypeOK
  PROVE  /\ StageLeft \in 0..10 /\ TurnLeft \in 0..2 /\ GateLeft \in 0..1 /\ OtherLeft \in 0..1
         /\ Cardinality(tiers) \in 0..3
         /\ IsFiniteSet(Items) /\ Cardinality(Items) \in Nat
         /\ IsFiniteSet(todo) /\ Cardinality(todo) \in 0..Cardinality(Items)
         /\ ChildLeft \in 0..5 /\ FlagsLeft \in 0..2 /\ TimerLeft \in 0..1
         /\ MaxInstalls \in Nat /\ installs \in 0..MaxInstalls
         /\ PhasesLeft \in 0..43
         /\ ItemsLeft \in 0..(2 * Cardinality(Items) + 1)
         /\ WorkLeft \in 0..(8 * MaxInstalls + 8)
<1>1. StageLeft \in 0..10 /\ TurnLeft \in 0..2
  BY DEF TypeOK, Steps, StageLeft, TurnLeft, InDirect, InReplay
<1>2. GateLeft \in 0..1 /\ OtherLeft \in 0..1 /\ FlagsLeft \in 0..2 /\ TimerLeft \in 0..1
  BY DEF GateLeft, OtherLeft, FlagsLeft, TimerLeft
<1>3. ChildLeft \in 0..5
  BY DEF TypeOK, ChildLeft
<1>4. Cardinality(tiers) \in 0..3
  BY TiersLeft DEF TypeOK
<1>5. IsFiniteSet(Items) /\ Cardinality(Items) \in Nat
      /\ IsFiniteSet(todo) /\ Cardinality(todo) \in Nat /\ Cardinality(todo) <= Cardinality(Items)
  BY ItemsFinite, FS_Subset, FS_CardinalityType DEF TypeOK
<1>6. MaxInstalls \in Nat /\ installs \in 0..MaxInstalls
  BY PipelineAssumption DEF TypeOK
<1>7. PhasesLeft \in 0..43
  BY <1>1, <1>2, <1>4 DEF PhasesLeft
<1>8. ItemsLeft \in 0..(2 * Cardinality(Items) + 1)
  BY <1>5 DEF ItemsLeft
<1>9. WorkLeft \in 0..(8 * MaxInstalls + 8)
  BY <1>2, <1>3, <1>6 DEF WorkLeft, InstallsLeft
<1> QED BY <1>1, <1>2, <1>3, <1>4, <1>5, <1>6, <1>7, <1>8, <1>9

\* A gate that is closed stays closed, a batch that another run left is not
\* that run's again, and a tier that was used is not on offer again.
LEMMA StopStays ==
  ASSUME TypeOK, [Next]_vars
  PROVE  (stopped => stopped') /\ (batch' = "other" => batch = "other") /\ tiers' \subseteq tiers
<1>1. CASE UNCHANGED vars
  BY <1>1 DEF vars, loop
<1>2. CASE \/ PressCtrlC \/ SkipInView \/ StopInView \/ CloseGate \/ InstallTimeout
           \/ ChildEnds \/ OtherRunEnds \/ StartInstall \/ InstallReturns
  <2>1. (stopped => stopped') /\ tiers' = tiers
    BY <1>2, Asides DEF loop
  <2>2. batch' = "other" => batch = "other"
    BY <1>2 DEF PressCtrlC, SkipInView, StopInView, CloseGate, StopSignal, DeadlinePasses,
       InstallTimeout, ChildEnds, OtherRunEnds, StartInstall, InstallReturns
  <2> QED BY <2>1, <2>2
<1>3. CASE Plan \/ TakeBatch \/ FindBusy \/ AbandonWait \/ EnterFails \/ EndDirect
  BY <1>3 DEF Plan, TakeBatch, FindBusy, AbandonWait, EnterFails, EndDirect, loop
<1>4. ASSUME NEW i \in Items, StartDirect(i) \/ StartReplay(i)
      PROVE  UNCHANGED <<stopped, batch, tiers>>
  BY <1>4 DEF StartDirect, StartReplay
<1>5. ASSUME NEW raw \in RawOutcomes, Settle(raw) PROVE UNCHANGED <<stopped, batch, tiers>>
  BY <1>5 DEF Settle
<1>6. CASE ConsiderElevation \/ ConfirmElevation \/ DeclineElevation \/ Elevate \/ ElevatedReturns
           \/ EndRetries \/ AskRetry \/ ChooseNone \/ EndReplay
  BY <1>6 DEF ConsiderElevation, ConfirmElevation, DeclineElevation, Elevate, ElevatedReturns,
     EndRetries, AskRetry, ChooseNone, EndReplay, loop
<1>7. ASSUME NEW t \in Tiers, ChooseTier(t) PROVE UNCHANGED <<stopped, batch>> /\ tiers' \subseteq tiers
  BY <1>7 DEF ChooseTier
<1>8. CASE ElevationSetupFails \/ Report \/ CancelPrompt
  BY <1>8 DEF ElevationSetupFails, Report, CancelPrompt, Released, loop
<1> QED BY <1>1, <1>2, <1>3, <1>4, <1>5, <1>6, <1>7, <1>8, NextActions

\* So none of the parts of PhasesLeft they count for grows.
LEMMA NothingComesBack ==
  ASSUME TypeOK, TypeOK', [Next]_vars
  PROVE  GateLeft' <= GateLeft /\ OtherLeft' <= OtherLeft /\ Cardinality(tiers') <= Cardinality(tiers)
<1>1. (stopped => stopped') /\ (batch' = "other" => batch = "other") /\ tiers' \subseteq tiers
  BY StopStays
<1>2. Cardinality(tiers') <= Cardinality(tiers)
  BY <1>1, TiersLeft, FS_Subset DEF TypeOK
<1>3. GateLeft' <= GateLeft
  BY <1>1 DEF GateLeft
<1>4. OtherLeft' <= OtherLeft
  BY <1>1 DEF OtherLeft
<1> QED BY <1>2, <1>3, <1>4

\* A step that takes the run on to a later stage leaves less of it.
LEMMA StageStep ==
  ASSUME TypeOK, TypeOK', [Next]_vars, StageLeft' < StageLeft
  PROVE  PhasesLeft' < PhasesLeft
<1>1. /\ StageLeft \in Int /\ TurnLeft \in 0..2 /\ GateLeft \in Int /\ OtherLeft \in Int
      /\ Cardinality(tiers) \in Int
  BY LeftTypes
<1>2. /\ StageLeft' \in Int /\ TurnLeft' \in 0..2 /\ GateLeft' \in Int /\ OtherLeft' \in Int
      /\ Cardinality(tiers)' \in Int
  <2>1. StageLeft' \in 0..10 /\ TurnLeft' \in 0..2
    BY DEF TypeOK, Steps, StageLeft, TurnLeft, InDirect, InReplay
  <2>2. GateLeft' \in 0..1 /\ OtherLeft' \in 0..1
    BY DEF GateLeft, OtherLeft
  <2>3. Cardinality(tiers)' \in 0..3
    BY TiersLeft DEF TypeOK
  <2> QED BY <2>1, <2>2, <2>3
<1> QED BY <1>1, <1>2, NothingComesBack DEF PhasesLeft

\* A step that stays where the run stands.
LEMMA SamePhase ==
  ASSUME TypeOK, UNCHANGED <<stopped, batch, tiers>>, UNCHANGED <<StageLeft, TurnLeft>>
  PROVE  PhasesLeft' = PhasesLeft
BY DEF PhasesLeft, GateLeft, OtherLeft

\* A loop that starts an item, or passes over one, has one item less.
LEMMA ItemStep ==
  ASSUME TypeOK, TierInv, PlanInv, NEW i \in Items, StartDirect(i) \/ StartReplay(i)
  PROVE  LessIsLeft
<1>1. i \in todo /\ todo' = todo \ {i}
  BY StartedIsFirst DEF PlanInv
<1>2. Cardinality(todo)' = Cardinality(todo) - 1 /\ Cardinality(todo) \in Int
  <2>1. IsFiniteSet(todo) /\ Cardinality(todo) \in Int
    BY LeftTypes
  <2>2. Cardinality(todo \ {i}) = Cardinality(todo) - 1
    BY <1>1, <2>1, FS_RemoveElement
  <2> QED BY <1>1, <2>1, <2>2
<1>3. UNCHANGED <<stopped, batch, tiers, tier>> /\ pc \in {"direct", "replay"}
      /\ pc' \in {pc, "installing"} /\ (pc = "replay" <=> tier # "none")
  BY DEF StartDirect, StartReplay, Start, TierInv
<1>4. UNCHANGED <<StageLeft, TurnLeft>>
  BY <1>3 DEF StageLeft, TurnLeft, InDirect, InReplay
<1>5. ItemsLeft' < ItemsLeft
  BY <1>2, <1>3 DEF ItemsLeft
<1> QED BY <1>3, <1>4, <1>5, SamePhase DEF LessIsLeft

\* An attempt that settles is out of its loop's way.
LEMMA SettleStep ==
  ASSUME TypeOK, NEW raw \in RawOutcomes, Settle(raw)
  PROVE  LessIsLeft
<1>1. UNCHANGED <<stopped, batch, tiers, tier, todo>> /\ pc = "installing"
      /\ pc' = IF tier = "none" THEN "direct" ELSE "replay"
  BY DEF Settle
<1>2. UNCHANGED <<StageLeft, TurnLeft>>
  BY <1>1 DEF StageLeft, TurnLeft, InDirect, InReplay
<1>3. Cardinality(todo) \in Int /\ Cardinality(todo)' = Cardinality(todo)
  BY <1>1, LeftTypes
<1>4. ItemsLeft' < ItemsLeft
  BY <1>1, <1>3 DEF ItemsLeft
<1> QED BY <1>1, <1>2, <1>4, SamePhase DEF LessIsLeft

\* Less of the attempt is left when a part of it is less and none is more, when
\* an install is spent on a child, or a child on an empty slot.
LEMMA LessWork ==
  ASSUME InstallsLeft \in Int, ChildLeft \in Int, TimerLeft \in Int, FlagsLeft \in Int,
         InstallsLeft' \in Int, ChildLeft' \in Int, TimerLeft' \in Int, FlagsLeft' \in Int,
         \/ /\ InstallsLeft' = InstallsLeft
            /\ ChildLeft' <= ChildLeft /\ TimerLeft' <= TimerLeft /\ FlagsLeft' <= FlagsLeft
            /\ ChildLeft' < ChildLeft \/ TimerLeft' < TimerLeft \/ FlagsLeft' < FlagsLeft
         \/ /\ InstallsLeft' = InstallsLeft - 8
            /\ ChildLeft >= 0 /\ TimerLeft >= 0 /\ FlagsLeft = 2
            /\ ChildLeft' <= 5 /\ TimerLeft' <= 1 /\ FlagsLeft' <= 2
         \/ /\ InstallsLeft' = InstallsLeft /\ TimerLeft' = TimerLeft
            /\ ChildLeft' = 0 /\ ChildLeft = 3 /\ FlagsLeft >= 0 /\ FlagsLeft' <= 2
  PROVE  WorkLeft' < WorkLeft
<1>1. PICK i \in Int, c \in Int, t \in Int, f \in Int :
        InstallsLeft' = i /\ ChildLeft' = c /\ TimerLeft' = t /\ FlagsLeft' = f
  OBVIOUS
<1>2. WorkLeft' = i + c + t + f
  BY <1>1 DEF WorkLeft
<1>3. \/ i = InstallsLeft /\ c <= ChildLeft /\ t <= TimerLeft /\ f <= FlagsLeft
         /\ (c < ChildLeft \/ t < TimerLeft \/ f < FlagsLeft)
      \/ i = InstallsLeft - 8 /\ ChildLeft >= 0 /\ TimerLeft >= 0 /\ FlagsLeft = 2 /\ c <= 5 /\ t <= 1 /\ f <= 2
      \/ i = InstallsLeft /\ t = TimerLeft /\ c = 0 /\ ChildLeft = 3 /\ FlagsLeft >= 0 /\ f <= 2
  BY <1>1
<1>4. i + c + t + f < InstallsLeft + ChildLeft + TimerLeft + FlagsLeft
  BY <1>3
<1> QED BY <1>2, <1>4 DEF WorkLeft

\* What does not move the run, nor its gate, nor the other run, is progress if
\* it leaves less of the attempt.
LEMMA AttemptStep ==
  ASSUME TypeOK, UNCHANGED <<stopped, batch, pc, loop>>, WorkLeft' < WorkLeft
  PROVE  LessIsLeft
<1>1. UNCHANGED <<StageLeft, TurnLeft, ItemsLeft>>
  BY DEF loop, StageLeft, TurnLeft, ItemsLeft, InDirect, InReplay
<1> QED BY <1>1, SamePhase DEF LessIsLeft, loop

\* An interrupt changes something only if it leaves less of the attempt: the
\* flag that it sets again reached the attempt before.
LEMMA InterruptStep ==
  ASSUME ControlInv, NEW why \in Interrupts, child # "none", Interrupt(why), TimerLeft' <= TimerLeft
  PROVE  \/ WorkLeft' < WorkLeft
         \/ UNCHANGED <<installs, child, pending, flags, hit>>
<1>1. /\ ChildLeft \in Int /\ FlagsLeft \in 0..2 /\ TimerLeft \in 0..1
      /\ InstallsLeft \in Int /\ InstallsLeft' = InstallsLeft
  BY LeftTypes DEF ControlInv, Interrupt, InstallsLeft
<1>2. TimerLeft' \in Int /\ TimerLeft \in Int /\ FlagsLeft \in Int /\ InstallsLeft' \in Int
  BY <1>1 DEF TimerLeft
<1>3. CASE child = "running"
  <2>1. child' = "killed" /\ flags \subseteq flags'
    BY <1>3 DEF Interrupt
  <2>2. ChildLeft' \in Int /\ ChildLeft' < ChildLeft
    BY <1>3, <2>1 DEF ChildLeft
  <2>3. FlagsLeft' \in Int /\ FlagsLeft' <= FlagsLeft
    BY <2>1 DEF FlagsLeft
  <2> QED BY <1>1, <1>2, <2>2, <2>3, LessWork
<1>4. CASE child # "running" /\ why \notin flags
  <2>1. child' = child /\ flags' = flags \cup {why}
    BY <1>4 DEF Interrupt
  <2>2. ChildLeft' \in Int /\ ChildLeft' = ChildLeft
    BY <1>1, <2>1 DEF ChildLeft
  <2>3. FlagsLeft' \in Int /\ FlagsLeft' < FlagsLeft
    BY <1>4, <2>1 DEF FlagsLeft, Interrupts
  <2> QED BY <1>1, <1>2, <2>2, <2>3, LessWork
<1>5. CASE child # "running" /\ why \in flags
  <2>1. UNCHANGED <<installs, child, pending, flags>>
    BY <1>5 DEF Interrupt
  <2>2. hit' = hit
    BY <1>5 DEF Interrupt, ControlInv, SlotInv
  <2> QED BY <2>1, <2>2
<1> QED BY <1>3, <1>4, <1>5

\* A lever closes the gate, interrupts, or does nothing.
LEMMA LeverStep ==
  ASSUME ControlInv, ControlInv', [Next]_vars, vars' # vars, Lever
  PROVE  LessIsLeft
<1>t. TypeOK /\ TypeOK'
  BY DEF ControlInv
<1>1. /\ UNCHANGED <<driver, requests, pc, batch, outcome, cancelled, loop, timerFired>>
      /\ \/ child # "none" /\ Interrupt("aborted")
         \/ UNCHANGED <<installs, child, pending, flags, hit>>
      /\ stopped => stopped'
  <2>1. CASE PressCtrlC
    BY <2>1 DEF PressCtrlC, IsInterruptible, Fixed
  <2>2. CASE SkipInView
    BY <2>2 DEF SkipInView, IsInterruptible, Fixed
  <2>3. CASE StopInView
    BY <2>3 DEF StopInView, IsInterruptible, Fixed
  <2>4. CASE CloseGate
    BY <2>4 DEF CloseGate, StopSignal, DeadlinePasses, IsInterruptible, Fixed, runner
  <2> QED BY <2>1, <2>2, <2>3, <2>4 DEF Lever
<1>2. CASE ~stopped /\ stopped'
  <2>1. GateLeft' < GateLeft
    BY <1>2 DEF GateLeft
  <2>2. UNCHANGED <<StageLeft, TurnLeft, OtherLeft, Cardinality(tiers)>>
    BY <1>1 DEF loop, StageLeft, TurnLeft, OtherLeft, InDirect, InReplay
  <2>3. /\ StageLeft \in Int /\ TurnLeft \in Int /\ GateLeft \in Int /\ OtherLeft \in Int
        /\ Cardinality(tiers) \in Int /\ GateLeft' \in Int
    BY <1>t, LeftTypes DEF GateLeft
  <2>4. PhasesLeft' < PhasesLeft
    BY <2>1, <2>2, <2>3 DEF PhasesLeft
  <2> QED BY <2>4 DEF LessIsLeft
<1>3. CASE ~(~stopped /\ stopped')
  <2>1. stopped' = stopped
    <3>1. stopped \in BOOLEAN /\ stopped' \in BOOLEAN
      BY <1>t DEF TypeOK
    <3> QED BY <1>1, <1>3, <3>1
  <2>2. ~UNCHANGED <<installs, child, pending, flags, hit>>
    BY <1>1, <2>1 DEF vars, runner
  <2>3. TimerLeft' <= TimerLeft
    BY <1>1 DEF TimerLeft
  <2>4. WorkLeft' < WorkLeft
    BY <1>1, <2>2, <2>3, InterruptStep DEF Interrupts
  <2> QED BY <1>1, <1>t, <2>1, <2>4, AttemptStep
<1> QED BY <1>2, <1>3

\* The runner's own steps leave less of the attempt.
LEMMA RunnerStep ==
  ASSUME ControlInv, ControlInv', StartInstall \/ ChildEnds \/ InstallReturns \/ InstallTimeout
  PROVE  LessIsLeft
<1>t. TypeOK /\ SlotInv
  BY DEF ControlInv
<1>n. /\ ChildLeft \in Int /\ FlagsLeft \in 0..2 /\ TimerLeft \in 0..1
      /\ InstallsLeft \in Int /\ installs \in Int /\ MaxInstalls \in Int
  BY <1>t, LeftTypes DEF InstallsLeft
<1>i. ASSUME installs' = installs PROVE InstallsLeft' = InstallsLeft
  BY <1>i DEF InstallsLeft
<1>m. FlagsLeft' \in 0..2 /\ TimerLeft' \in 0..1 /\ ChildLeft' \in Int /\ InstallsLeft' \in Int
  <2>1. FlagsLeft' \in 0..2 /\ TimerLeft' \in 0..1
    BY DEF FlagsLeft, TimerLeft
  <2>2. child' \in {"none", "gone", "lost", "killed", "running"} /\ installs' \in Int /\ MaxInstalls \in Int
    BY PipelineAssumption DEF ControlInv, TypeOK
  <2>3. ChildLeft' \in Int
    BY <2>2 DEF ChildLeft
  <2>4. InstallsLeft' \in Int
    BY <2>2 DEF InstallsLeft
  <2> QED BY <2>1, <2>3, <2>4
<1>1. CASE StartInstall
  <2>1. child = "none" /\ child' = "running" /\ flags' = {} /\ installs' = installs + 1
        /\ UNCHANGED <<stopped, batch, pc, loop>>
    BY <1>1 DEF StartInstall, Spawn
  <2>2. ChildLeft = 0 /\ ChildLeft' = 5 /\ FlagsLeft = 2
    BY <1>t, <2>1 DEF ChildLeft, FlagsLeft, SlotInv
  <2>i. InstallsLeft' = InstallsLeft - 8
    BY <1>n, <2>1 DEF InstallsLeft
  <2>3. WorkLeft' < WorkLeft
    BY <1>n, <1>m, <2>i, <2>2, LessWork
  <2> QED BY <1>t, <2>1, <2>3, AttemptStep
<1>2. CASE ChildEnds
  <2>1. /\ \/ child = "running" /\ child' = "gone"
           \/ child = "killed" /\ child' = "lost"
        /\ UNCHANGED <<installs, flags, timerFired, stopped, batch, pc, loop>>
    BY <1>2 DEF ChildEnds
  <2>2. ChildLeft' < ChildLeft /\ ChildLeft' \in Int
    BY <2>1 DEF ChildLeft
  <2>3. FlagsLeft' = FlagsLeft /\ TimerLeft' = TimerLeft
    BY <2>1 DEF FlagsLeft, TimerLeft
  <2>4. WorkLeft' < WorkLeft
    BY <1>n, <1>m, <1>i, <2>1, <2>2, <2>3, LessWork
  <2> QED BY <1>t, <2>1, <2>4, AttemptStep
<1>3. CASE InstallReturns
  <2>1. child \in {"gone", "lost"} /\ child' = "none"
        /\ UNCHANGED <<installs, timerFired, stopped, batch, pc, loop>>
    BY <1>3 DEF InstallReturns, Ended
  <2>2. ChildLeft' = 0 /\ ChildLeft = 3 /\ TimerLeft' = TimerLeft
    BY <2>1 DEF ChildLeft, TimerLeft
  <2>i. InstallsLeft' = InstallsLeft
    BY <1>i, <2>1
  <2>3. WorkLeft' < WorkLeft
    BY <1>n, <1>m, <2>i, <2>2, LessWork
  <2> QED BY <1>t, <2>1, <2>3, AttemptStep
<1>4. CASE InstallTimeout
  <2>1. ~timerFired /\ timerFired' /\ child # "none" /\ Interrupt("timedOut")
        /\ UNCHANGED <<stopped, batch, pc, loop>>
    BY <1>4 DEF InstallTimeout, IsInterruptible
  <2>2. TimerLeft' < TimerLeft
    BY <2>1 DEF TimerLeft
  <2>3. WorkLeft' < WorkLeft
    <3>1. CASE UNCHANGED <<installs, child, pending, flags, hit>>
      <4>1. UNCHANGED <<InstallsLeft, ChildLeft, FlagsLeft>>
        BY <1>i, <3>1 DEF ChildLeft, FlagsLeft
      <4> QED BY <1>n, <1>m, <2>2, <4>1, LessWork
    <3>2. CASE ~UNCHANGED <<installs, child, pending, flags, hit>>
      <4>1. TimerLeft' <= TimerLeft
        BY <1>n, <1>m, <2>2
      <4> QED BY <2>1, <3>2, <4>1, InterruptStep DEF Interrupts
    <3> QED BY <3>1, <3>2
  <2> QED BY <1>t, <2>1, <2>3, AttemptStep
<1> QED BY <1>1, <1>2, <1>3, <1>4

\* The other steps take the run on.
LEMMA PhaseStep ==
  ASSUME ControlInv, ControlInv', TierInv, [Next]_vars,
         \/ Plan \/ TakeBatch \/ FindBusy \/ AbandonWait \/ EnterFails \/ OtherRunEnds
         \/ EndDirect \/ ConsiderElevation \/ ConfirmElevation \/ DeclineElevation
         \/ Elevate \/ ElevatedReturns \/ ElevationSetupFails
         \/ EndRetries \/ AskRetry \/ (\E t \in Tiers : ChooseTier(t)) \/ ChooseNone
         \/ EndReplay \/ Report \/ CancelPrompt
  PROVE  LessIsLeft
<1>t. TypeOK /\ TypeOK'
  BY DEF ControlInv
<1>n. /\ StageLeft \in Int /\ TurnLeft \in Int /\ GateLeft \in Int /\ OtherLeft \in Int
      /\ Cardinality(tiers) \in Int
  BY <1>t, LeftTypes
<1>s. ASSUME StageLeft' < StageLeft PROVE LessIsLeft
  BY <1>s, <1>t, StageStep DEF LessIsLeft
<1> USE DEF StageLeft, InDirect, InReplay
<1>1. CASE Plan \/ TakeBatch \/ FindBusy \/ AbandonWait \/ EnterFails
  <2>1. \/ pc = "start" /\ pc' \in {"direct", "enter"}
        \/ pc = "enter" /\ pc' \in {"direct", "waiting", "failed"}
        \/ pc = "waiting" /\ pc' \in {"direct", "failed"}
    BY <1>1 DEF Plan, TakeBatch, FindBusy, AbandonWait, EnterFails, BeginDirect
  <2> QED BY <1>s, <2>1
<1>2. CASE OtherRunEnds
  <2>1. batch = "other" /\ batch' = "free" /\ UNCHANGED <<stopped, pc, tier, tiers>>
    BY <1>2 DEF OtherRunEnds, loop
  <2>2. OtherLeft' < OtherLeft /\ UNCHANGED <<StageLeft, TurnLeft, GateLeft, Cardinality(tiers)>>
        /\ OtherLeft' \in Int
    BY <2>1 DEF OtherLeft, GateLeft, TurnLeft
  <2>3. PhasesLeft' < PhasesLeft
    <3> HIDE DEF StageLeft
    <3> QED BY <1>n, <2>2 DEF PhasesLeft
  <2> QED BY <2>3 DEF LessIsLeft
<1>3. CASE EndDirect \/ ConsiderElevation \/ ConfirmElevation \/ Elevate \/ ElevationSetupFails
  <2>1. \/ pc = "direct" /\ pc' = "elevate"
        \/ pc = "elevate" /\ pc' \in {"retry", "preparing", "asking"}
        \/ pc = "asking" /\ pc' = "preparing"
        \/ pc = "preparing" /\ pc' \in {"elevating", "failed"}
    BY <1>3 DEF EndDirect, ConsiderElevation, ConfirmElevation, Elevate, ElevationSetupFails
  <2> QED BY <1>s, <2>1
<1>4. CASE DeclineElevation \/ ElevatedReturns
  <2>1. pc \in {"asking", "elevating"} /\ pc' = "retry"
    BY <1>4 DEF DeclineElevation, ElevatedReturns, SettleElevated
  <2> QED BY <1>s, <2>1
<1>5. CASE EndRetries \/ ChooseNone \/ Report \/ CancelPrompt
  <2>1. \/ pc \in {"retry", "choosing"} /\ pc' \in {"report", "failed"}
        \/ pc = "asking" /\ pc' = "failed"
        \/ pc = "report" /\ pc' = "done"
    BY <1>5 DEF EndRetries, ChooseNone, Report, CancelPrompt
  <2> QED BY <1>s, <2>1
<1>6. CASE AskRetry \/ EndReplay
  <2>1. UNCHANGED <<stopped, batch, tiers>>
        /\ \/ pc = "retry" /\ pc' = "choosing"
           \/ pc = "replay" /\ pc' = "retry"
    BY <1>6 DEF AskRetry, EndReplay, loop
  <2>2. TurnLeft' < TurnLeft /\ TurnLeft' \in Int
    BY <2>1 DEF TurnLeft
  <2>3. UNCHANGED <<StageLeft, GateLeft, OtherLeft, Cardinality(tiers)>>
    BY <2>1 DEF GateLeft, OtherLeft
  <2>4. PhasesLeft' < PhasesLeft
    <3> HIDE DEF StageLeft
    <3> QED BY <1>n, <2>2, <2>3 DEF PhasesLeft
  <2> QED BY <2>4 DEF LessIsLeft
<1>7. ASSUME NEW t \in Tiers, ChooseTier(t) PROVE LessIsLeft
  <2>1. UNCHANGED <<stopped, batch>> /\ t \in tiers /\ tiers' = tiers \ {t}
        /\ pc = "choosing" /\ pc' = "replay"
    BY <1>7 DEF ChooseTier
  <2>2. Cardinality(tiers)' = Cardinality(tiers) - 1
    BY <1>t, <2>1, TiersLeft DEF TypeOK
  <2>3. TurnLeft' = TurnLeft + 2
    BY <2>1 DEF TurnLeft
  <2>4. UNCHANGED <<StageLeft, GateLeft, OtherLeft>>
    BY <2>1 DEF GateLeft, OtherLeft
  <2>5. PhasesLeft' < PhasesLeft
    <3> HIDE DEF StageLeft
    <3> QED BY <1>n, <2>2, <2>3, <2>4 DEF PhasesLeft
  <2> QED BY <2>5 DEF LessIsLeft
<1> QED BY <1>1, <1>2, <1>3, <1>4, <1>5, <1>6, <1>7

\* Every step leaves less.
LEMMA LessStep ==
  ASSUME ControlInv, TierInv, PlanInv, ControlInv', [Next]_vars
  PROVE  [LessIsLeft]_vars
<1> SUFFICES ASSUME Next, vars' # vars PROVE LessIsLeft
  OBVIOUS
<1>1. ASSUME NEW i \in Items, StartDirect(i) \/ StartReplay(i) PROVE LessIsLeft
  BY <1>1, ItemStep DEF ControlInv
<1>2. ASSUME NEW raw \in RawOutcomes, Settle(raw) PROVE LessIsLeft
  BY <1>2, SettleStep DEF ControlInv
<1>3. CASE Lever
  BY <1>3, LeverStep
<1>4. CASE StartInstall \/ ChildEnds \/ InstallReturns \/ InstallTimeout
  BY <1>4, RunnerStep
<1> QED BY <1>1, <1>2, <1>3, <1>4, PhaseStep, NextActions DEF Lever

\* A run cannot go on for ever, whoever drives it and whatever levers are
\* pulled, as long as each provider starts finitely many installs: each step
\* leaves less of a triple of bounded natural numbers
\* (update-pipeline.ts:52-109, retry-pass.ts:41-68).
THEOREM RunsAreFinite ==
  Spec => /\ [](/\ PhasesLeft \in 0..43
                /\ ItemsLeft \in 0..(2 * Cardinality(Items) + 1)
                /\ WorkLeft \in 0..(8 * MaxInstalls + 8))
          /\ [][LessIsLeft]_vars
<1>1. ASSUME ControlInv, TierInv, PlanInv
      PROVE  /\ PhasesLeft \in 0..43
             /\ ItemsLeft \in 0..(2 * Cardinality(Items) + 1)
             /\ WorkLeft \in 0..(8 * MaxInstalls + 8)
  BY <1>1, LeftTypes DEF ControlInv
<1>2. ASSUME ControlInv, TierInv, PlanInv, ControlInv', [Next]_vars PROVE [LessIsLeft]_vars
  BY <1>2, LessStep
<1> QED BY <1>1, <1>2, PlanInvariance, PTL DEF Spec

\* Why a run has something to go on with: an armed child has its timer before
\* it, an elevated wait has its child, nothing is asked that nobody answers,
\* and no prompt opens on a console after the stop.
AliveInv ==
  /\ child = "running" => ~timerFired
  /\ pc = "elevating" => child # "none"
  /\ pc = "asking" => driver # "auto"
  /\ pc = "choosing" => driver \notin {"auto", "scheduled"}
  /\ pc \in {"enter", "waiting"} => driver # "scheduled"
  /\ stopped /\ IsAsking => driver # "console"

LEMMA AliveStep == ControlInv /\ AliveInv /\ [Next]_vars => AliveInv'
<1> SUFFICES ASSUME ControlInv, AliveInv, [Next]_vars PROVE AliveInv'
  OBVIOUS
<1> USE DEF AliveInv, IsAsking, Questions
<1>1. CASE UNCHANGED vars
  BY <1>1 DEF vars, loop, runner
<1>2. CASE Plan \/ TakeBatch \/ FindBusy \/ AbandonWait \/ EnterFails \/ OtherRunEnds
  BY <1>2 DEF Plan, TakeBatch, FindBusy, AbandonWait, EnterFails, OtherRunEnds, BeginDirect, Fixed, runner
<1>3. ASSUME NEW i \in Items, StartDirect(i) \/ StartReplay(i) PROVE AliveInv'
  BY <1>3 DEF StartDirect, StartReplay, Start, Fixed, runner
<1>4. CASE StartInstall \/ ChildEnds \/ InstallReturns
  BY <1>4 DEF StartInstall, Spawn, ChildEnds, InstallReturns, Ended, Fixed
<1>5. ASSUME NEW raw \in RawOutcomes, Settle(raw) PROVE AliveInv'
  BY <1>5 DEF Settle, Fixed
<1>6. CASE EndDirect \/ ConsiderElevation \/ ConfirmElevation \/ DeclineElevation
  BY <1>6
  DEF EndDirect, ConsiderElevation, ConfirmElevation, DeclineElevation, SettleElevated, Fixed, runner
<1>7. CASE Elevate \/ ElevatedReturns \/ ElevationSetupFails
  BY <1>7 DEF Elevate, Spawn, ElevatedReturns, SettleElevated, ElevationSetupFails, Fixed, runner
<1>8. CASE EndRetries \/ AskRetry \/ ChooseNone \/ EndReplay \/ Report \/ CancelPrompt
  BY <1>8 DEF EndRetries, AskRetry, ChooseNone, EndReplay, Report, CancelPrompt, Fixed, runner
<1>9. ASSUME NEW t \in Tiers, ChooseTier(t) PROVE AliveInv'
  BY <1>9 DEF ChooseTier, Fixed, runner
<1>10. CASE PressCtrlC \/ SkipInView \/ StopInView
  BY <1>10 DEF PressCtrlC, SkipInView, StopInView, Interrupt, Fixed
<1>11. CASE CloseGate
  BY <1>11 DEF CloseGate, StopSignal, DeadlinePasses, Interrupt, Fixed, runner
<1>12. CASE InstallTimeout
  BY <1>12 DEF InstallTimeout, Interrupt, Fixed
<1> QED
  BY <1>1, <1>2, <1>3, <1>4, <1>5, <1>6, <1>7, <1>8, <1>9, <1>10, <1>11, <1>12, NextActions

\* A loop over S goes on, or has its next item before it.
LoopGoesOn(Before(_, _)) ==
  stopped \/ todo = {} \/ \E i \in todo : {j \in todo \ {i} : Before(j, i)} = {}

\* Whose turn it is in a run that nobody attends: gup's own, another run's, a
\* dying child's or an armed timer's.
SomeoneIsNext ==
  \/ pc \in {"start", "elevate", "preparing", "retry", "report"}
  \/ pc \in {"enter", "waiting"} /\ batch \in {"free", "other"}
  \/ pc = "direct" /\ LoopGoesOn(DirectOrder)
  \/ pc = "replay" /\ LoopGoesOn(LAMBDA j, i : ReplayOrder(todo, j, i))
  \/ pc = "asking" /\ driver = "scheduled"
  \/ pc = "installing" /\ child = "none"
  \/ pc \in {"installing", "elevating"} /\ child \in {"killed", "gone", "lost"}
  \/ pc \in {"installing", "elevating"} /\ child = "running" /\ TimeoutOn /\ ~timerFired

\* What can hold a run up but a question.
LEMMA SomeoneIsNextUnlessAsking ==
  ASSUME ControlInv, PlanInv, AliveInv, TimeoutOn, ~IsOver, IsAsking => driver \in {"auto", "scheduled"}
  PROVE  SomeoneIsNext
<1>1. TypeOK /\ BatchInv /\ SlotInv
  BY DEF ControlInv
<1>2. pc \in Steps \ {"done", "failed"}
  BY <1>1 DEF TypeOK, IsOver
<1>3. CASE pc \in {"enter", "waiting"}
  BY <1>1, <1>3 DEF TypeOK, BatchInv, AliveInv, SomeoneIsNext
<1>4. CASE pc = "direct"
  <2>1. todo \subseteq Direct /\ IsFiniteSet(todo) /\ Orders(DirectPairs, todo)
    BY <1>1, <1>4, ItemsFinite, FS_Subset, DirectOrdered DEF PlanInv, ReplayInv, InDirect, TypeOK, Orders
  <2>2. ASSUME todo # {} PROVE \E i \in todo : {j \in todo \ {i} : DirectOrder(j, i)} = {}
    <3>1. PICK i \in todo : \A j \in todo \ {i} : <<j, i>> \notin DirectPairs
      BY <2>1, <2>2, NextItem
    <3>2. \A j \in todo \ {i} : ~DirectOrder(j, i)
      BY <2>1, <3>1 DEF DirectPairs
    <3> QED BY <3>2
  <2> QED BY <1>4, <2>2 DEF SomeoneIsNext, LoopGoesOn
<1>8. CASE pc = "replay"
  <2>1. IsFiniteSet(todo) /\ Orders(ReplayPairs(todo), todo)
    BY <1>1, ReplayOrdered DEF TypeOK
  <2>2. ASSUME todo # {} PROVE \E i \in todo : {j \in todo \ {i} : ReplayOrder(todo, j, i)} = {}
    <3>1. PICK i \in todo : \A j \in todo \ {i} : <<j, i>> \notin ReplayPairs(todo)
      BY <2>1, <2>2, NextItem
    <3>2. \A j \in todo \ {i} : ~ReplayOrder(todo, j, i)
      BY <3>1 DEF ReplayPairs
    <3> QED BY <3>2
  <2> QED BY <1>8, <2>2 DEF SomeoneIsNext, LoopGoesOn
<1>5. CASE pc \in {"installing", "elevating"}
  BY <1>1, <1>5 DEF TypeOK, AliveInv, SomeoneIsNext
<1>6. CASE pc \in {"asking", "choosing"}
  BY <1>6 DEF AliveInv, SomeoneIsNext, IsAsking, Questions
<1>7. CASE pc \in {"start", "elevate", "preparing", "retry", "report"}
  BY <1>7 DEF SomeoneIsNext
<1> QED BY <1>2, <1>3, <1>4, <1>5, <1>6, <1>7, <1>8 DEF Steps

\* A run that nobody attends (gup update -y, or a scheduled one) never comes to
\* stand still with the install timeout on: it holds the batch or can have it,
\* its loops have a next item whatever the grouping, no question waits for an
\* answer that does not come, and a child that does not end by itself has a
\* timer that has not fired (update-pipeline.ts:52-109, runner.ts:486-509,
\* retry-pass.ts:48-92).  With RunsAreFinite, a run whose parts move when it is
\* their turn ends.
THEOREM UnattendedRunsGoOn ==
  Spec => [](driver \in {"auto", "scheduled"} /\ TimeoutOn /\ ~IsOver => SomeoneIsNext)
<1>1. Init => AliveInv
  BY DEF Init, AliveInv
<1> DEFINE Goal == driver \in {"auto", "scheduled"} /\ TimeoutOn /\ ~IsOver => SomeoneIsNext
<1>2. ControlInv /\ PlanInv /\ AliveInv => Goal
  BY SomeoneIsNextUnlessAsking
<1> HIDE DEF Goal
<1>3. Spec => []Goal
  BY <1>1, <1>2, AliveStep, PlanInvariance, PTL DEF Spec
<1> QED BY <1>3 DEF Goal
=============================================================================
