-------------------------- MODULE TriggerSyncProofs --------------------------
(***************************************************************************)
(* What is proved of TriggerSync, for any schedules, terminals and         *)
(* installations, on any of the three mechanisms: its types, and that a    *)
(* command nothing else disturbs, and that took no removal for done that   *)
(* had not happened, leaves the trigger, its record and the schedules in   *)
(* agreement, whatever failed, died, overlapped or was missed before it.   *)
(***************************************************************************)
EXTENDS TriggerSync, FiniteSetTheorems, TLAPS

Verbs == {"none", "reconcile", "heal", "reinstall", "uninstall"}
CommandSteps == {"idle", "sync", "check", "look", "register", "record", "unregister", "forget", "disable"}
Results == {"none", "failed", "dead", "foreign", "unchanged", "installed", "removed"}

Commands ==
  [verb : Verbs, step : CommandSteps, gup : Gups \cup {None}, count : Nat, result : Results, missed : BOOLEAN]

\* The types, and that a command under way is one of an installation.
SyncTypes ==
  /\ schedules \in [Schedules -> {"absent", "on", "off"}]
  /\ trigger \in Gups \cup {None} /\ record \in Gups \cup {None}
  /\ gone \subseteq Gups
  /\ commands \in 0..MaxCommands
  /\ faults \in 0..MaxFaults
  /\ alone \subseteq Terminals
  /\ command \in [Terminals -> Commands]
  /\ \A t \in Busy : command[t].gup \in Gups /\ command[t].verb # "none"

\* Where a command is tells what it found: one that registers has schedules
\* on, one that removes has none or was asked to.
StepsInv ==
  \A t \in Terminals :
    /\ command[t].verb = "uninstall" => command[t].step \notin {"sync", "check", "look", "register", "record"}
    /\ command[t].step = "disable" => command[t].verb = "uninstall"
    /\ command[t].step \in {"register", "record"} => command[t].gup \notin Unregistrable
    /\ command[t].verb = "reinstall" /\ command[t].step # "idle" => command[t].count > 0
    /\ command[t].step \in {"check", "register", "record"} => command[t].count > 0
    /\ command[t].step \in {"look", "unregister", "forget"} =>
         command[t].count = 0 \/ command[t].verb = "uninstall"
    /\ command[t].verb = "heal" => command[t].step # "look"

\* What t's registration may replace unasked.
MayTake(t) ==
  \/ record = None /\ command[t].verb # "heal"
  \/ record \in gone
  \/ PackageOf[record] = PackageOf[command[t].gup]

\* A command that nothing disturbed is the only one, knows how many schedules
\* are on, may take the registration it is about to take, and has left the
\* trigger as its step tells: past its removal there is none, unless it was
\* missed.
AloneInv ==
  \A t \in alone \cap Busy :
    /\ Busy = {t}
    /\ command[t].count > 0 <=> \E s \in Schedules : schedules[s] = "on"
    /\ command[t].step \in {"check", "register"} /\ command[t].verb \in {"reconcile", "heal"} =>
         MayTake(t) \/ (command[t].step = "check" /\ command[t].gup \in Unregistrable)
    /\ command[t].step = "check" => record # None
    /\ command[t].step = "record" => trigger = command[t].gup
    /\ command[t].step \in {"forget", "disable"} => trigger = None \/ command[t].missed
    /\ command[t].step = "disable" => record = None

SyncInv == SyncTypes /\ StepsInv /\ AloneInv

\* The terminal of a command moves on: the others stay.
LEMMA StepTypes ==
  ASSUME SyncTypes, NEW t \in Terminals, NEW step \in CommandSteps, Step(t, step)
  PROVE  /\ command' \in [Terminals -> Commands]
         /\ command'[t].step = step
         /\ command'[t].verb = command[t].verb /\ command'[t].gup = command[t].gup
         /\ command'[t].count = command[t].count
         /\ command'[t].missed = command[t].missed
         /\ \A u \in Terminals \ {t} : command'[u] = command[u]
BY DEF SyncTypes, Step, Commands

\* The same when it goes on from a removal it missed.
LEMMA MissedTypes ==
  ASSUME SyncTypes, NEW t \in Terminals, Misses(t)
  PROVE  /\ command' \in [Terminals -> Commands]
         /\ command'[t].step = "forget"
         /\ command'[t].verb = command[t].verb /\ command'[t].gup = command[t].gup
         /\ command'[t].count = command[t].count
         /\ command'[t].missed
         /\ \A u \in Terminals \ {t} : command'[u] = command[u]
BY DEF SyncTypes, Misses, Commands, CommandSteps

\* The command is over: how, and whether it missed its removal, is all that is
\* left of it.
Closes(t, result, missed) ==
  command' = [command EXCEPT ![t] = [NoCommand EXCEPT !.result = result, !.missed = missed]]

LEMMA EndTypes ==
  ASSUME SyncTypes, NEW t \in Terminals, NEW result \in Results, NEW missed \in BOOLEAN,
         Closes(t, result, missed)
  PROVE  /\ command' \in [Terminals -> Commands]
         /\ command'[t].step = "idle" /\ command'[t].verb = "none"
         /\ command'[t].result = result /\ command'[t].missed = missed
         /\ \A u \in Terminals \ {t} : command'[u] = command[u]
BY DEF SyncTypes, Closes, NoCommand, Commands, Verbs, CommandSteps

\* As many schedules on as are counted.
LEMMA CountedAreOn ==
  ASSUME NEW on, on \subseteq Schedules
  PROVE  Cardinality(on) \in Nat /\ (Cardinality(on) > 0 <=> on # {})
<1>1. IsFiniteSet(on)
  BY TriggerAssumption, FS_Subset
<1> QED BY <1>1, FS_CardinalityType, FS_EmptySet
-----------------------------------------------------------------------------
(* The steps.                                                              *)

LEMMA SyncStarts == Init => SyncInv
<1> SUFFICES ASSUME Init PROVE SyncInv
  OBVIOUS
<1>1. SyncTypes
  BY TriggerAssumption DEF Init, SyncTypes, Busy, NoCommand, Commands, Verbs, CommandSteps, Results
<1>2. StepsInv /\ AloneInv
  BY DEF Init, StepsInv, AloneInv, NoCommand
<1> QED BY <1>1, <1>2 DEF SyncInv

\* A command begins: it is alone if nothing else is under way.
LEMMA BeginStep ==
  ASSUME SyncInv, NEW t \in Terminals, NEW verb \in Verbs \ {"none"}, NEW step \in {"sync", "unregister"},
         verb = "uninstall" <=> step = "unregister",
         NEW count \in Nat, verb = "reinstall" => count > 0,
         count > 0 <=> \E s \in Schedules : schedules'[s] = "on",
         schedules' \in [Schedules -> {"absent", "on", "off"}],
         Begin(t, verb, step, count), UNCHANGED <<system, faults>>
  PROVE  SyncInv'
<1>1. PICK g \in Gups \ gone :
        command' = [command EXCEPT ![t] = [verb |-> verb, step |-> step, gup |-> g, count |-> count, result |-> "none",
                                           missed |-> FALSE]]
  BY DEF Begin
<1>2. command' \in [Terminals -> Commands]
  BY <1>1 DEF SyncInv, SyncTypes, Commands, CommandSteps, Results
<1>3. /\ command'[t].verb = verb /\ command'[t].step = step /\ command'[t].gup = g /\ command'[t].count = count
      /\ \A u \in Terminals \ {t} : command'[u] = command[u]
  BY <1>1 DEF SyncInv, SyncTypes
<1>4. t \notin Busy /\ commands' \in 0..MaxCommands /\ alone' = IF Busy = {} THEN {t} ELSE {}
  BY TriggerAssumption DEF Begin, SyncInv, SyncTypes
<1>5. Busy' = Busy \cup {t}
  BY <1>3 DEF Busy
<1>6. SyncTypes'
  <2>1. \A u \in Busy' : command'[u].gup \in Gups /\ command'[u].verb # "none"
    <3> TAKE u \in Busy'
    <3>1. CASE u = t
      BY <3>1, <1>1, <1>3
    <3>2. CASE u # t
      BY <3>2, <1>3, <1>5 DEF SyncInv, SyncTypes, Busy
    <3> QED BY <3>1, <3>2
  <2>2. alone' \subseteq Terminals
    BY <1>4
  <2> QED BY <1>2, <1>4, <2>1, <2>2 DEF SyncInv, SyncTypes, system
<1>7. StepsInv'
  BY <1>3 DEF SyncInv, StepsInv
<1>8. AloneInv'
  BY <1>3, <1>4, <1>5 DEF AloneInv
<1> QED BY <1>6, <1>7, <1>8 DEF SyncInv

\* Of the commands, only the one that moves is still alone.
LEMMA OnlyTheMoverIsAlone ==
  ASSUME SyncInv, NEW t \in Busy, UNCHANGED alone, \A u \in Terminals \ {t} : command'[u] = command[u]
  PROVE  /\ Busy' \subseteq Busy
         /\ \A u \in alone' \cap Busy' : u = t /\ Busy' = {t} /\ u \in alone \cap Busy /\ Busy = {t}
<1>1. Busy' \subseteq Busy /\ t \in Terminals
  BY DEF Busy
<1> QED BY <1>1 DEF SyncInv, AloneInv

\* A command that ends leaves nothing to keep but the types.
LEMMA CloseStep ==
  ASSUME SyncInv, NEW t \in Busy, NEW result \in Results, NEW missed \in BOOLEAN,
         Closes(t, result, missed), UNCHANGED <<alone, commands, gone>>,
         schedules' \in [Schedules -> {"absent", "on", "off"}],
         {trigger', record'} \subseteq Gups \cup {None}, faults' \in 0..MaxFaults
  PROVE  SyncInv'
<1>1. t \in Terminals
  BY DEF Busy
<1>2. /\ command' \in [Terminals -> Commands] /\ command'[t].step = "idle" /\ command'[t].verb = "none"
      /\ \A u \in Terminals \ {t} : command'[u] = command[u]
  BY <1>1, EndTypes DEF SyncInv
<1>3. Busy' \subseteq Busy /\ t \notin Busy' /\ alone' \cap Busy' = {}
  BY <1>2, OnlyTheMoverIsAlone DEF Busy
<1>4. SyncTypes'
  BY <1>2, <1>3 DEF SyncInv, SyncTypes, Busy
<1>5. StepsInv'
  BY <1>2 DEF SyncInv, StepsInv
<1> QED BY <1>3, <1>4, <1>5 DEF SyncInv, AloneInv

LEMMA EndStep ==
  ASSUME SyncInv, NEW t \in Busy, NEW result \in Results, End(t, result), UNCHANGED <<alone, commands, gone>>,
         schedules' \in [Schedules -> {"absent", "on", "off"}],
         {trigger', record'} \subseteq Gups \cup {None}, faults' \in 0..MaxFaults
  PROVE  SyncInv'
<1>1. command[t].missed \in BOOLEAN
  BY DEF SyncInv, SyncTypes, Busy, Commands
<1>2. Closes(t, result, command[t].missed)
  BY DEF End, Closes
<1> QED BY <1>1, <1>2, CloseStep

\* A command that moves on keeps the types, and what its new step tells is all
\* there is to show.
LEMMA MoveStep ==
  ASSUME SyncInv, NEW t \in Busy, NEW step \in CommandSteps \ {"idle"},
         Step(t, step) \/ (Misses(t) /\ step = "forget"),
         UNCHANGED <<alone, commands, gone, schedules>>,
         {trigger', record'} \subseteq Gups \cup {None}, faults' \in 0..MaxFaults,
         command[t].verb = "uninstall" => step \notin {"sync", "check", "look", "register", "record"},
         step = "disable" => command[t].verb = "uninstall",
         step \in {"register", "record"} => command[t].gup \notin Unregistrable,
         step \in {"check", "register", "record"} => command[t].count > 0,
         step \in {"look", "unregister", "forget"} => command[t].count = 0 \/ command[t].verb = "uninstall",
         command[t].verb = "heal" => step # "look",
         t \in alone =>
           /\ step \in {"check", "register"} /\ command[t].verb \in {"reconcile", "heal"} =>
                (MayTake(t) /\ record' = record)
                  \/ (step = "check" /\ command[t].gup \in Unregistrable)
           /\ step = "check" => record' # None
           /\ step = "record" => trigger' = command[t].gup
           /\ step \in {"forget", "disable"} => trigger' = None \/ command[t].missed \/ Misses(t)
           /\ step = "disable" => record' = None
  PROVE  SyncInv'
<1>1. t \in Terminals
  BY DEF Busy
<1>2. /\ command' \in [Terminals -> Commands] /\ command'[t].step = step
      /\ command'[t].verb = command[t].verb /\ command'[t].gup = command[t].gup
      /\ command'[t].count = command[t].count
      /\ command[t].missed \/ Misses(t) => command'[t].missed
      /\ \A u \in Terminals \ {t} : command'[u] = command[u]
  <2>1. CASE Step(t, step) /\ ~Misses(t)
    BY <1>1, <2>1, StepTypes DEF SyncInv
  <2>2. CASE Misses(t)
    <3>1. step = "forget"
      BY <1>1, <2>2, StepTypes, MissedTypes DEF SyncInv
    <3> QED BY <1>1, <2>2, <3>1, MissedTypes DEF SyncInv
  <2> QED BY <2>1, <2>2
<1>3. /\ Busy' \subseteq Busy
      /\ \A u \in alone' \cap Busy' : u = t /\ Busy' = {t} /\ u \in alone \cap Busy /\ Busy = {t}
  BY <1>2, OnlyTheMoverIsAlone
<1>4. SyncTypes'
  <2>1. \A u \in Busy' : command'[u].gup \in Gups /\ command'[u].verb # "none"
    BY <1>2, <1>3 DEF SyncInv, SyncTypes, Busy
  <2> QED BY <1>2, <2>1 DEF SyncInv, SyncTypes
<1>5. StepsInv'
  <2>1. command[t].verb = "reinstall" => command[t].count > 0
    BY <1>1 DEF SyncInv, StepsInv, Busy
  <2> QED BY <1>1, <1>2, <2>1 DEF SyncInv, StepsInv
<1>6. AloneInv'
  <2> SUFFICES ASSUME t \in alone', t \in Busy', Busy' = {t}, t \in alone, t \in Busy
               PROVE  /\ command'[t].count > 0 <=> \E s \in Schedules : schedules'[s] = "on"
                      /\ command'[t].step \in {"check", "register"} /\ command'[t].verb \in {"reconcile", "heal"} =>
                           MayTake(t)' \/ (command'[t].step = "check" /\ command'[t].gup \in Unregistrable)
                      /\ command'[t].step = "check" => record' # None
                      /\ command'[t].step = "record" => trigger' = command'[t].gup
                      /\ command'[t].step \in {"forget", "disable"} => trigger' = None \/ command'[t].missed
                      /\ command'[t].step = "disable" => record' = None
    BY <1>3 DEF AloneInv
  <2>1. command[t].count > 0 <=> \E s \in Schedules : schedules[s] = "on"
    BY DEF SyncInv, AloneInv
  <2>2. MayTake(t) /\ record' = record => MayTake(t)'
    BY <1>2 DEF MayTake
  <2> QED BY <1>2, <2>1, <2>2
<1> QED BY <1>4, <1>5, <1>6 DEF SyncInv
-----------------------------------------------------------------------------

\* A step of t's command is one of a command under way.
LEMMA MoversAreBusy ==
  ASSUME SyncInv, NEW t \in Terminals, command[t].step # "idle"
  PROVE  t \in Busy /\ command[t].gup \in Gups /\ command[t].verb \in Verbs \ {"none"} /\ command[t].count \in Nat
BY DEF SyncInv, SyncTypes, Busy, Commands

\* What the bounds allow to go wrong.
LEMMA FaultTypes ==
  ASSUME SyncInv, Fault \/ Fine
  PROVE  faults' \in 0..MaxFaults
<1>1. MaxFaults \in Nat /\ faults \in 0..MaxFaults
  BY TriggerAssumption DEF SyncInv, SyncTypes
<1> QED BY <1>1 DEF Fault, Fine

\* #install up to its await.
LEMMA GoRegisterStep ==
  ASSUME SyncInv, NEW t \in Terminals, command[t].step \in {"sync", "check"}, GoRegister(t), command[t].count > 0,
         UNCHANGED <<schedules, system, commands, alone>>, Fault \/ Fine,
         t \in alone /\ command[t].verb \in {"reconcile", "heal"} /\ command[t].gup \notin Unregistrable => MayTake(t)
  PROVE  SyncInv'
<1>1. /\ t \in Busy /\ command[t].verb # "uninstall" /\ faults' \in 0..MaxFaults
      /\ {trigger', record'} \subseteq Gups \cup {None}
      /\ schedules' \in [Schedules -> {"absent", "on", "off"}]
  BY MoversAreBusy, FaultTypes DEF SyncInv, StepsInv, SyncTypes, system
<1>2. CASE command[t].gup \in Unregistrable
  <2>1. End(t, "failed")
    BY <1>2 DEF GoRegister
  <2> QED BY <1>1, <2>1, EndStep DEF Results, system
<1>3. CASE command[t].gup \notin Unregistrable
  <2>1. Step(t, "register")
    BY <1>3 DEF GoRegister
  <2>2. (MayTake(t) /\ record' = record) \/ ~(t \in alone /\ command[t].verb \in {"reconcile", "heal"})
    BY <1>3 DEF system
  <2> QED BY <1>1, <1>3, <2>1, <2>2, MoveStep DEF CommandSteps, system
<1> QED BY <1>2, <1>3

\* #keep up to its await.
LEMMA KeepStep ==
  ASSUME SyncInv, NEW t \in Terminals, command[t].step = "sync", Keep(t), command[t].count > 0, record # None,
         UNCHANGED <<schedules, system, commands, alone, faults>>
  PROVE  SyncInv'
<1>1. /\ t \in Busy /\ command[t].verb # "uninstall" /\ faults' \in 0..MaxFaults
      /\ {trigger', record'} \subseteq Gups \cup {None}
      /\ schedules' \in [Schedules -> {"absent", "on", "off"}]
  BY MoversAreBusy DEF SyncInv, StepsInv, SyncTypes, system
<1> DEFINE match == Match(command[t].gup)
<1>2. CASE match = "foreign"
  <2>1. End(t, "foreign")
    BY <1>2 DEF Keep
  <2> QED BY <1>1, <2>1, EndStep DEF Results, system
<1>3. CASE match = "drift"
  <2>1. GoRegister(t)
    BY <1>3 DEF Keep
  <2>2. MayTake(t)
    BY <1>3 DEF Match, MayTake
  <2> QED BY <2>1, <2>2, GoRegisterStep DEF Fine, system
<1>4. CASE match \notin {"foreign", "drift"}
  <2>1. Step(t, "check")
    BY <1>4 DEF Keep
  <2>2. MayTake(t) \/ command[t].gup \in Unregistrable
    BY <1>4 DEF Match, MayTake
  <2> QED BY <1>1, <2>1, <2>2, MoveStep DEF CommandSteps, system
<1> QED BY <1>2, <1>3, <1>4

LEMMA SyncsStep ==
  ASSUME SyncInv, NEW t \in Terminals, Sync(t)
  PROVE  SyncInv'
<1>1. /\ t \in Busy /\ command[t].verb # "uninstall" /\ faults' \in 0..MaxFaults
      /\ {trigger', record'} \subseteq Gups \cup {None}
      /\ schedules' \in [Schedules -> {"absent", "on", "off"}]
      /\ command[t].count \in Nat /\ command[t].step = "sync"
      /\ UNCHANGED <<schedules, system, commands, alone, faults>>
  BY MoversAreBusy DEF SyncInv, StepsInv, SyncTypes, system, Sync
<1>2. CASE command[t].verb = "reinstall" /\ GoRegister(t)
  <2>1. command[t].count > 0
    BY <1>1, <1>2 DEF SyncInv, StepsInv
  <2> QED BY <1>1, <1>2, <2>1, GoRegisterStep DEF Fine
<1>3. CASE command[t].verb = "heal" /\ record = None /\ End(t, "unchanged")
  BY <1>1, <1>3, EndStep DEF Results, system
<1>4. CASE ~(command[t].count > 0) /\ Step(t, "unregister")
  BY <1>1, <1>4, MoveStep DEF CommandSteps, system
<1>5. CASE command[t].verb = "reconcile" /\ ~(command[t].count > 0) /\ Step(t, "look")
  BY <1>1, <1>5, MoveStep DEF CommandSteps, system
<1>6. CASE command[t].count > 0 /\ record # None /\ Keep(t)
  BY <1>1, <1>6, KeepStep
<1>7. CASE command[t].verb = "reconcile" /\ command[t].count > 0 /\ record = None /\ GoRegister(t)
  <2>1. MayTake(t)
    BY <1>7 DEF MayTake
  <2> QED BY <1>1, <1>7, <2>1, GoRegisterStep DEF Fine
<1> QED BY <1>2, <1>3, <1>4, <1>5, <1>6, <1>7 DEF Sync

\* The commands begin.
LEMMA BeginsStep ==
  ASSUME SyncInv, NEW t \in Terminals, Change(t) \/ Heal(t) \/ Reinstall(t) \/ Uninstall(t)
  PROVE  SyncInv'
<1>1. schedules \in [Schedules -> {"absent", "on", "off"}]
  BY DEF SyncInv, SyncTypes
<1>2. Enabled \subseteq Schedules /\ (Enabled # {} <=> \E s \in Schedules : schedules[s] = "on")
  BY DEF Enabled
<1>3. Cardinality(Enabled) \in Nat /\ (Cardinality(Enabled) > 0 <=> \E s \in Schedules : schedules[s] = "on")
  BY <1>2, CountedAreOn
<1>4. CASE Change(t)
  <2> DEFINE on == {s \in Schedules : schedules'[s] = "on"}
  <2>1. Cardinality(on) \in Nat /\ (Cardinality(on) > 0 <=> on # {})
    BY CountedAreOn
  <2>2. schedules' \in [Schedules -> {"absent", "on", "off"}]
    BY <1>1, <1>4 DEF Change
  <2> QED BY <1>4, <2>1, <2>2, BeginStep DEF Change, Verbs, system
<1>5. CASE Heal(t)
  BY <1>1, <1>3, <1>5, BeginStep DEF Heal, Verbs, system
<1>6. CASE Reinstall(t)
  BY <1>1, <1>2, <1>3, <1>6, BeginStep DEF Reinstall, Verbs, system
<1>7. CASE Uninstall(t)
  BY <1>1, <1>3, <1>7, BeginStep DEF Uninstall, Verbs, system
<1> QED BY <1>4, <1>5, <1>6, <1>7

\* The questions to the system.
LEMMA AsksStep ==
  ASSUME SyncInv, NEW t \in Terminals, Check(t) \/ Look(t)
  PROVE  SyncInv'
<1>1. /\ t \in Busy /\ command[t].verb # "uninstall" /\ faults' \in 0..MaxFaults
      /\ {trigger', record'} \subseteq Gups \cup {None}
      /\ schedules' \in [Schedules -> {"absent", "on", "off"}]
      /\ UNCHANGED <<schedules, system, commands, alone>>
  BY MoversAreBusy, FaultTypes DEF SyncInv, StepsInv, SyncTypes, system, Check, Look
<1>2. CASE End(t, "unchanged") \/ Closes(t, "unchanged", TRUE)
  BY <1>1, <1>2, EndStep, CloseStep DEF Results, system
<1>3. CASE Check(t) /\ GoRegister(t)
  <2>1. command[t].step = "check" /\ command[t].count > 0 /\ (Fault \/ Fine)
    BY <1>3 DEF Check, SyncInv, StepsInv
  <2>2. t \in alone /\ command[t].verb \in {"reconcile", "heal"} /\ command[t].gup \notin Unregistrable => MayTake(t)
    BY <1>1, <2>1 DEF SyncInv, AloneInv
  <2> QED BY <1>1, <1>3, <2>1, <2>2, GoRegisterStep
<1>4. CASE Look(t) /\ Step(t, "unregister")
  <2>1. command[t].count = 0
    BY <1>1, <1>4 DEF Look, SyncInv, StepsInv
  <2> QED BY <1>1, <1>4, <2>1, MoveStep DEF CommandSteps, system
<1> QED BY <1>2, <1>3, <1>4 DEF Check, Look, Closes

\* What changes the system.
LEMMA WritesStep ==
  ASSUME SyncInv, NEW t \in Terminals,
         Register(t) \/ WriteRecord(t) \/ Unregister(t) \/ Forget(t) \/ DisableAll(t)
  PROVE  SyncInv'
<1>1. /\ t \in Busy /\ command[t].gup \in Gups /\ faults' \in 0..MaxFaults
      /\ trigger \in Gups \cup {None} /\ record \in Gups \cup {None}
      /\ schedules \in [Schedules -> {"absent", "on", "off"}]
      /\ UNCHANGED <<gone, commands, alone>>
  <2>1. command[t].step # "idle"
    BY DEF Register, WriteRecord, Unregister, Forget, DisableAll
  <2>2. Fault \/ Fine
    BY DEF Register, WriteRecord, Unregister, Forget, DisableAll, Fails, Misses, Fine
  <2> QED BY <2>1, <2>2, MoversAreBusy, FaultTypes
          DEF SyncInv, SyncTypes, Register, WriteRecord, Unregister, Forget, DisableAll
<1>2. CASE Register(t)
  <2>1. /\ command[t].verb # "uninstall" /\ command[t].gup \notin Unregistrable /\ command[t].count > 0
        /\ UNCHANGED <<schedules, record>>
    BY <1>2 DEF Register, SyncInv, StepsInv
  <2>2. CASE trigger' = command[t].gup /\ Step(t, "record")
    BY <1>1, <2>1, <2>2, MoveStep DEF CommandSteps
  <2>3. CASE trigger' \in LeftByInstall(t) /\ Fails(t)
    <3>1. trigger' \in Gups \cup {None}
      BY <1>1, <2>3 DEF LeftByInstall
    <3> QED BY <1>1, <2>1, <2>3, <3>1, EndStep DEF Fails, Results
  <2> QED BY <1>2, <2>2, <2>3 DEF Register
<1>3. CASE WriteRecord(t)
  BY <1>1, <1>3, EndStep DEF WriteRecord, Fails, Results
<1>4. CASE Unregister(t)
  <2>1. /\ command[t].count = 0 \/ command[t].verb = "uninstall"
        /\ UNCHANGED <<schedules, record>>
    BY <1>4 DEF Unregister, SyncInv, StepsInv
  <2>2. CASE trigger' = None /\ Step(t, "forget")
    BY <1>1, <2>1, <2>2, MoveStep DEF CommandSteps
  <2>3. CASE trigger' \in {trigger, None} /\ Fails(t)
    BY <1>1, <2>1, <2>3, EndStep DEF Fails, Results
  <2>4. CASE UNCHANGED trigger /\ Misses(t)
    BY <1>1, <2>1, <2>4, MoveStep DEF CommandSteps
  <2> QED BY <1>4, <2>2, <2>3, <2>4 DEF Unregister
<1>5. CASE Forget(t)
  <2>1. record' \in {record, None} /\ UNCHANGED <<schedules, trigger>> /\ command[t].step = "forget"
    BY <1>5 DEF Forget
  <2>2. t \in alone => trigger = None \/ command[t].missed
    BY <1>1, <2>1 DEF SyncInv, AloneInv
  <2>3. CASE record' = None /\ command[t].verb = "uninstall" /\ Step(t, "disable")
    BY <1>1, <2>1, <2>2, <2>3, MoveStep DEF CommandSteps
  <2>4. CASE End(t, "removed") \/ Fails(t)
    BY <1>1, <2>1, <2>4, EndStep DEF Results, Fails
  <2> QED BY <1>5, <2>3, <2>4 DEF Forget
<1>6. CASE DisableAll(t)
  <2>1. schedules' \in [Schedules -> {"absent", "on", "off"}] /\ record' \in {record, None} /\ UNCHANGED trigger
    BY <1>1, <1>6 DEF DisableAll
  <2>2. End(t, "removed") \/ End(t, "failed")
    BY <1>6 DEF DisableAll, Fails
  <2> QED BY <1>1, <2>1, <2>2, EndStep DEF Results
<1> QED BY <1>2, <1>3, <1>4, <1>5, <1>6

\* Behind gup's back: nothing is alone any more, or its terminal is idle.
LEMMA OutsideStep ==
  ASSUME SyncInv, \/ \E t \in Terminals : Crash(t)
                  \/ DeletedByHand
                  \/ \E g \in Gups : Vanishes(g)
  PROVE  SyncInv'
<1>1. faults' \in 0..MaxFaults
  BY FaultTypes DEF Crash, DeletedByHand, Vanishes
<1>2. ASSUME NEW t \in Terminals, Crash(t) PROVE SyncInv'
  BY <1>1, <1>2, EndStep DEF Crash, SyncInv, SyncTypes, Results, system
<1>3. CASE DeletedByHand \/ \E g \in Gups : Vanishes(g)
  <2>1. UNCHANGED <<schedules, record, command, commands>> /\ alone' = {}
    BY <1>3 DEF DeletedByHand, Vanishes
  <2>2. trigger' \in Gups \cup {None} /\ gone' \subseteq Gups
    BY <1>3 DEF DeletedByHand, Vanishes, SyncInv, SyncTypes
  <2>3. SyncTypes'
    BY <1>1, <2>1, <2>2 DEF SyncInv, SyncTypes, Busy
  <2> QED BY <2>1, <2>3 DEF SyncInv, StepsInv, AloneInv
<1> QED BY <1>2, <1>3

LEMMA SyncStep ==
  ASSUME SyncInv, [Next]_vars
  PROVE  SyncInv'
<1>1. CASE UNCHANGED vars
  BY <1>1 DEF vars, system, SyncInv, SyncTypes, StepsInv, AloneInv, Busy, MayTake
<1>2. CASE Next
  BY <1>2, BeginsStep, SyncsStep, AsksStep, WritesStep, OutsideStep DEF Next
<1> QED BY <1>1, <1>2

LEMMA SyncInvariant == Spec => []SyncInv
<1>1. Init => SyncInv
  BY SyncStarts
<1>2. SyncInv /\ [Next]_vars => SyncInv'
  BY SyncStep
<1> QED BY <1>1, <1>2, PTL DEF Spec

\* A command that ends undisturbed is ended by its own step, and by which.
LEMMA WhoEnds ==
  ASSUME SyncInv, Next, NEW t \in Terminals, NEW result \in {"installed", "removed", "unchanged"}, Ends(t, result),
         ~command'[t].missed
  PROVE  \/ /\ result = "installed" /\ command[t].step = "record"
            /\ record' = command[t].gup /\ UNCHANGED <<schedules, trigger>>
         \/ /\ result = "removed" /\ command[t].step = "forget" /\ command[t].verb # "uninstall"
            /\ record' = None /\ UNCHANGED <<schedules, trigger>>
         \/ /\ result = "removed" /\ command[t].step = "disable" /\ UNCHANGED trigger
            /\ record' \in {record, None} /\ \A s \in Schedules : schedules'[s] # "on"
         \/ /\ result = "unchanged" /\ command[t].step \in {"check", "look"}
            /\ (trigger # None <=> command[t].step = "check") /\ UNCHANGED <<schedules, trigger>>
         \/ result = "unchanged" /\ command[t].verb = "heal" /\ record = None
<1>1. /\ t \in alone /\ Busy = {t} /\ command[t].step # "idle"
      /\ command'[t].step = "idle" /\ command'[t].result = result
      /\ command \in [Terminals -> Commands] /\ SyncTypes
  BY DEF Ends, SyncInv, AloneInv, SyncTypes, Busy
<1>2. \A u \in Terminals : command[u].step # "idle" => u = t
  BY <1>1 DEF Busy
<1>3. ASSUME NEW u \in Terminals,
             Change(u) \/ Heal(u) \/ Reinstall(u) \/ Uninstall(u)
      PROVE  FALSE
  <2>1. u # t /\ command'[t] = command[t]
    BY <1>1, <1>3 DEF Change, Heal, Reinstall, Uninstall, Begin
  <2> QED BY <1>1, <2>1
<1>4. ASSUME NEW step \in CommandSteps \ {"idle"}, Step(t, step) PROVE FALSE
  BY <1>1, <1>4 DEF Step
<1>5. ASSUME NEW r, End(t, r), r # result PROVE FALSE
  BY <1>1, <1>5 DEF End, NoCommand
<1>6. ~GoRegister(t)
  BY <1>4, <1>5 DEF GoRegister, CommandSteps
<1>7. ~Fails(t) /\ ~Misses(t) /\ ~Closes(t, "unchanged", TRUE)
  <2>1. ~Misses(t)
    BY <1>1, MissedTypes
  <2>2. ~Closes(t, "unchanged", TRUE)
    BY <1>1, EndTypes DEF Results
  <2> QED BY <1>5, <2>1, <2>2 DEF Fails
<1>8. CASE Sync(t)
  <2>1. ~Keep(t)
    BY <1>4, <1>5, <1>6 DEF Keep, CommandSteps
  <2>2. ~Step(t, "unregister") /\ ~Step(t, "look")
    BY <1>4 DEF CommandSteps
  <2>3. command[t].verb = "heal" /\ record = None /\ End(t, "unchanged")
    BY <1>6, <1>8, <2>1, <2>2 DEF Sync
  <2> QED BY <1>5, <2>3
<1>9. CASE Check(t) \/ Look(t)
  <2>1. ~Step(t, "unregister")
    BY <1>4 DEF CommandSteps
  <2>2. End(t, "unchanged") /\ command[t].step \in {"check", "look"} /\ (trigger # None <=> command[t].step = "check")
    BY <1>6, <1>7, <1>9, <2>1 DEF Check, Look, Closes
  <2>3. result = "unchanged"
    BY <1>5, <2>2
  <2> QED BY <1>9, <2>2, <2>3 DEF Check, Look, system
<1>10. CASE Register(t) \/ Unregister(t)
  <2>1. ~Step(t, "record") /\ ~Step(t, "forget")
    BY <1>4 DEF CommandSteps
  <2> QED BY <1>7, <1>10, <2>1 DEF Register, Unregister
<1>11. CASE WriteRecord(t)
  BY <1>5, <1>7, <1>11 DEF WriteRecord
<1>12. CASE Forget(t)
  <2>1. ~Step(t, "disable")
    BY <1>4 DEF CommandSteps
  <2> QED BY <1>5, <1>7, <1>12, <2>1 DEF Forget
<1>13. CASE DisableAll(t)
  <2>1. End(t, "removed") /\ command[t].step = "disable" /\ UNCHANGED trigger /\ record' \in {record, None}
    BY <1>7, <1>13 DEF DisableAll
  <2>2. \A s \in Schedules : schedules'[s] # "on"
    BY <1>7, <1>13 DEF DisableAll
  <2> QED BY <1>5, <2>1, <2>2
<1>14. CASE Crash(t)
  BY <1>5, <1>14 DEF Crash
<1>15. CASE DeletedByHand \/ \E g \in Gups : Vanishes(g)
  BY <1>1, <1>15 DEF DeletedByHand, Vanishes
<1>16. ASSUME NEW u \in Terminals,
              \/ Sync(u) \/ Check(u) \/ Look(u) \/ Register(u) \/ WriteRecord(u)
              \/ Unregister(u) \/ Forget(u) \/ DisableAll(u) \/ Crash(u)
       PROVE  u = t
  BY <1>2, <1>16 DEF Sync, Check, Look, Register, WriteRecord, Unregister, Forget, DisableAll, Crash, Busy
<1> QED BY <1>3, <1>8, <1>9, <1>10, <1>11, <1>12, <1>13, <1>14, <1>15, <1>16 DEF Next

\* Nobody unsays a missed removal: a command that ends without one had none.
LEMMA EndKeepsMissed ==
  ASSUME SyncInv, Next, NEW t \in alone \cap Busy, command'[t].step = "idle", ~command'[t].missed
  PROVE  ~command[t].missed
<1>1. /\ t \in Terminals /\ Busy = {t} /\ command[t].step # "idle"
      /\ command \in [Terminals -> Commands] /\ SyncTypes
  BY DEF SyncInv, AloneInv, SyncTypes, Busy
<1>2. ASSUME NEW r, End(t, r) PROVE command'[t].missed = command[t].missed
  BY <1>1, <1>2 DEF End, NoCommand
<1>3. ASSUME NEW step, Step(t, step) PROVE command'[t].missed = command[t].missed
  BY <1>1, <1>3 DEF Step, Commands
<1>4. ~Misses(t) /\ ~Closes(t, "unchanged", TRUE)
  BY <1>1, MissedTypes, EndTypes DEF Results
<1>5. ASSUME NEW u \in Terminals, u # t PROVE u \notin Busy
  BY <1>1, <1>5
<1>6. ASSUME NEW u \in Terminals, Change(u) \/ Heal(u) \/ Reinstall(u) \/ Uninstall(u) PROVE FALSE
  <2>1. u # t /\ command'[t] = command[t]
    BY <1>1, <1>6 DEF Change, Heal, Reinstall, Uninstall, Begin
  <2> QED BY <1>1, <2>1
<1>7. ASSUME \/ Sync(t) \/ Check(t) \/ Look(t) \/ Register(t) \/ WriteRecord(t)
             \/ Unregister(t) \/ Forget(t) \/ DisableAll(t) \/ Crash(t)
      PROVE  ~command[t].missed
  BY <1>2, <1>3, <1>4, <1>7
     DEF Sync, Keep, GoRegister, Check, Look, Closes, Register, WriteRecord, Unregister, Forget, DisableAll, Crash, Fails
<1>8. ASSUME NEW u \in Terminals,
             \/ Sync(u) \/ Check(u) \/ Look(u) \/ Register(u) \/ WriteRecord(u)
             \/ Unregister(u) \/ Forget(u) \/ DisableAll(u) \/ Crash(u)
      PROVE  u = t
  BY <1>5, <1>8 DEF Sync, Check, Look, Register, WriteRecord, Unregister, Forget, DisableAll, Crash, Busy
<1>9. CASE DeletedByHand \/ \E g \in Gups : Vanishes(g)
  BY <1>1, <1>9 DEF DeletedByHand, Vanishes
<1> QED BY <1>6, <1>7, <1>8, <1>9 DEF Next
-----------------------------------------------------------------------------
(* The theorems.                                                           *)

\* The variables keep their types, and a command past its registration, or its
\* removal, is one that may do it (trigger-sync.ts:55-148).
THEOREM TypeCorrect == Spec => []TypeOK
<1>1. SyncInv => TypeOK
  BY DEF SyncInv, SyncTypes, StepsInv, TypeOK, Commands, CommandSteps
<1> QED BY <1>1, SyncInvariant, PTL

\* Nobody replaces, unasked, what another installation that still exists has
\* registered, and heal never makes a first registration
\* (trigger-sync.ts:118-133).
THEOREM TriggerIsNotTaken == Spec => NobodyTakesTheTrigger
<1>1. ASSUME SyncInv, NEW t \in Terminals, Takes(t)
      PROVE  \/ record = None /\ command[t].verb # "heal"
             \/ record \in gone
             \/ PackageOf[record] = PackageOf[command[t].gup]
  <2>1. t \in alone \cap Busy
    BY <1>1 DEF Takes, Busy
  <2> QED BY <1>1, <2>1 DEF Takes, SyncInv, AloneInv, MayTake
<1>2. SyncInv /\ [Next]_vars =>
        [\A t \in Terminals : Takes(t) =>
           \/ record = None /\ command[t].verb # "heal"
           \/ record \in gone
           \/ PackageOf[record] = PackageOf[command[t].gup]]_vars
  BY <1>1
<1> QED BY <1>2, SyncInvariant, PTL DEF Spec, NobodyTakesTheTrigger

\* After a command that installed or removed, and took no removal for done
\* that had not happened, install.json names what the system starts, whatever
\* failed, died, overlapped or was missed before the command
\* (trigger-sync.ts:89-135, install-record.ts:8-10).
THEOREM RecordIsTrue == Spec => RecordNamesTheTrigger
<1>1. ASSUME SyncInv, Next, NEW t \in Terminals, Ends(t, "installed") \/ Ends(t, "removed"), ~command'[t].missed
      PROVE  record' = trigger'
  <2>1. t \in alone \cap Busy
    BY <1>1 DEF Ends
  <2>2. \/ command[t].step = "record" /\ record' = command[t].gup /\ UNCHANGED trigger
        \/ command[t].step = "forget" /\ record' = None /\ UNCHANGED trigger
        \/ command[t].step = "disable" /\ record' \in {record, None} /\ UNCHANGED trigger
    BY <1>1, WhoEnds
  <2>3. ~command[t].missed
    BY <1>1, EndKeepsMissed DEF Ends
  <2> QED BY <1>1, <2>1, <2>2, <2>3 DEF SyncInv, AloneInv
<1>2. SyncInv /\ [Next]_vars =>
        [\A t \in Terminals :
           (Ends(t, "installed") \/ Ends(t, "removed")) /\ ~command'[t].missed => record' = trigger']_vars
  BY <1>1
<1> QED BY <1>2, SyncInvariant, PTL DEF Spec, RecordNamesTheTrigger

\* After a command that ends well, and took no removal for done that had not
\* happened, the trigger is registered exactly when a schedule is on
\* (trigger-sync.ts:8-9, 111-141).
THEOREM SystemAgrees == Spec => CommandsAgreeWithTheSystem
<1>1. ASSUME SyncInv, Next, NEW t \in Terminals, EndsWell(t), ~command'[t].missed
      PROVE  Agreement'
  <2>1. t \in alone \cap Busy
    BY <1>1 DEF EndsWell, Ends
  <2>2. ~command[t].missed
    BY <1>1, EndKeepsMissed DEF EndsWell, Ends
  <2>3. /\ command[t].count > 0 <=> \E s \in Schedules : schedules[s] = "on"
        /\ command[t].step = "record" => trigger = command[t].gup
        /\ command[t].step \in {"forget", "disable"} => trigger = None
        /\ command[t].gup \in Gups /\ None \notin Gups /\ command[t].count \in Nat
    BY <1>1, <2>1, <2>2, TriggerAssumption DEF SyncInv, SyncTypes, AloneInv, Commands
  <2>4. /\ command[t].step \in {"record", "check"} => command[t].count > 0
        /\ command[t].step = "look" => command[t].count = 0
        /\ command[t].step = "forget" => command[t].count = 0 \/ command[t].verb = "uninstall"
    BY <1>1 DEF SyncInv, StepsInv
  <2>5. CASE Ends(t, "installed")
    <3>1. command[t].step = "record" /\ UNCHANGED <<schedules, trigger>>
      BY <1>1, <2>5, WhoEnds
    <3>2. trigger' # None /\ \E s \in Schedules : schedules'[s] = "on"
      BY <2>3, <2>4, <3>1
    <3> QED BY <3>2 DEF Agreement
  <2>6. CASE Ends(t, "removed")
    <3>1. \/ command[t].step = "forget" /\ command[t].verb # "uninstall" /\ UNCHANGED <<schedules, trigger>>
          \/ command[t].step = "disable" /\ UNCHANGED trigger /\ \A s \in Schedules : schedules'[s] # "on"
      BY <1>1, <2>6, WhoEnds
    <3>2. trigger' = None /\ ~\E s \in Schedules : schedules'[s] = "on"
      BY <2>3, <2>4, <3>1
    <3> QED BY <3>2 DEF Agreement
  <2>7. CASE Ends(t, "unchanged") /\ ~(command[t].verb = "heal" /\ record = None)
    <3>1. /\ command[t].step \in {"check", "look"} /\ (trigger # None <=> command[t].step = "check")
          /\ UNCHANGED <<schedules, trigger>>
      BY <1>1, <2>7, WhoEnds
    <3>2. CASE command[t].step = "check"
      <4>1. trigger' # None /\ \E s \in Schedules : schedules'[s] = "on"
        BY <2>3, <2>4, <3>1, <3>2
      <4> QED BY <4>1 DEF Agreement
    <3>3. CASE command[t].step = "look"
      <4>1. trigger' = None /\ ~\E s \in Schedules : schedules'[s] = "on"
        BY <2>3, <2>4, <3>1, <3>3
      <4> QED BY <4>1 DEF Agreement
    <3> QED BY <3>1, <3>2, <3>3
  <2> QED BY <1>1, <2>5, <2>6, <2>7 DEF EndsWell
<1>2. SyncInv /\ [Next]_vars => [\A t \in Terminals : EndsWell(t) /\ ~command'[t].missed => Agreement']_vars
  BY <1>1
<1> QED BY <1>2, SyncInvariant, PTL DEF Spec, CommandsAgreeWithTheSystem
=============================================================================
