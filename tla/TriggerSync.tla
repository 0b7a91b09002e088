---------------------------- MODULE TriggerSync ----------------------------
(***************************************************************************)
(* The operating system's trigger against the schedules:                   *)
(* core/scheduler/trigger/trigger-sync.ts, with the commands that call it  *)
(* (commands/schedule/crud-commands.ts, trigger-commands.ts and            *)
(* schedule-module.ts, schedules-controller.ts) and its record,            *)
(* persistence/install-record.ts.                                          *)
(*                                                                         *)
(* A command saves the schedules, in one step (ConfigStore has the         *)
(* detail), counts those that are on, then awaits the system: its          *)
(* registration, read, written or removed, and the record of it, are       *)
(* steps of their own, between which any other terminal may act.  Several  *)
(* installations of gup share the schedules and the record.  The launcher  *)
(* and the environment the record also carries are left out.               *)
(* An operator whose name ends in _Bug has a defect the code does not      *)
(* have.                                                                   *)
(***************************************************************************)
EXTENDS Naturals, FiniteSets

CONSTANTS
  Schedules,       \* schedule ids
  Terminals,       \* where commands are typed
  Gups,            \* installations of gup
  PackageOf,       \* the package root of each installation
  Unregistrable,   \* installations that cannot be registered (an npx copy)
  Mechanism,       \* the system's: "windows-task", "launchd" or "crontab"
  None,            \* no registration, no record
  MaxCommands,     \* bound: commands
  MaxFaults        \* bound: failed calls, deaths, changes behind gup's back

ASSUME TriggerAssumption ==
  /\ IsFiniteSet(Schedules)
  /\ PackageOf \in [Gups -> Gups]
  /\ Unregistrable \subseteq Gups
  /\ Mechanism \in {"windows-task", "launchd", "crontab"}
  /\ None \notin Gups
  /\ {MaxCommands, MaxFaults} \subseteq Nat

VARIABLES
  schedules, \* "absent", "on" or "off"
  trigger,   \* the installation the system starts ticks of, or None
  record,    \* the installation install.json names, or None
  gone,      \* installations that are no longer there
  command,   \* what each terminal does: [verb, step, gup, count, result] and,
             \* a history, whether it missed a removal: one that did not happen
             \* and passed for done
  commands,  \* commands so far
  faults,    \* what went wrong so far
  alone      \* history: the terminals whose command nothing else disturbed

system == <<trigger, record, gone>>
vars   == <<schedules, system, command, commands, faults, alone>>

NoCommand ==
  [verb |-> "none", step |-> "idle", gup |-> None, count |-> 0, result |-> "none", missed |-> FALSE]

Enabled == {s \in Schedules : schedules[s] = "on"}
Busy    == {t \in Terminals : command[t].step # "idle"}

Init ==
  /\ schedules \in [Schedules -> {"absent", "off"}]
  /\ trigger = None
  /\ record = None
  /\ gone = {}
  /\ command = [t \in Terminals |-> NoCommand]
  /\ commands = 0
  /\ faults = 0
  /\ alone = {}

Fault == faults < MaxFaults /\ faults' = faults + 1
Fine  == UNCHANGED faults

-----------------------------------------------------------------------------
(* Commands.                                                               *)

\* A command of installation g begins, with so many schedules on.
Begin(t, verb, step, count) ==
  /\ t \notin Busy
  /\ commands < MaxCommands
  /\ commands' = commands + 1
  /\ alone' = IF Busy = {} THEN {t} ELSE {}
  /\ \E g \in Gups \ gone :
       command' = [command EXCEPT ![t] =
         [verb |-> verb, step |-> step, gup |-> g, count |-> count, result |-> "none",
          missed |-> FALSE]]

\* add, enable, disable, remove and the menu's edits: the schedules are saved
\* first, and counted as this process wrote them.
Change(t) ==
  /\ \E s \in Schedules, becomes \in {"on", "off", "absent"} :
       /\ becomes # schedules[s]
       /\ schedules' = [schedules EXCEPT ![s] = becomes]
  /\ Begin(t, "reconcile", "sync", Cardinality({s \in Schedules : schedules'[s] = "on"}))
  /\ UNCHANGED <<system, faults>>

\* An interactive gup starts.
Heal(t) ==
  /\ Begin(t, "heal", "sync", Cardinality(Enabled))
  /\ UNCHANGED <<schedules, system, faults>>

\* Nobody looks whether anything is on.
Reinstall_Bug(t) ==
  /\ Begin(t, "reinstall", "sync", Cardinality(Enabled))
  /\ UNCHANGED <<schedules, system, faults>>

\* gup schedule install, or the menu's repair; refused when nothing is on.
Reinstall(t) ==
  /\ Enabled # {}
  /\ Begin(t, "reinstall", "sync", Cardinality(Enabled))
  /\ UNCHANGED <<schedules, system, faults>>

\* gup schedule uninstall.
Uninstall(t) ==
  /\ Begin(t, "uninstall", "unregister", Cardinality(Enabled))
  /\ UNCHANGED <<schedules, system, faults>>

Step(t, step)  == command' = [command EXCEPT ![t].step = step]
End(t, result) ==
  command' = [command EXCEPT ![t] = [NoCommand EXCEPT !.result = result, !.missed = command[t].missed]]

\* The exception #guarded, or the command, catches.
Fails(t) == Fault /\ End(t, "failed")

-----------------------------------------------------------------------------
(* The sync.                                                               *)

\* Another installation's registration is as good as an outdated one.
Match_Bug(g) ==
  IF g \in Unregistrable THEN "unknown" ELSE IF record = g THEN "same" ELSE "drift"

\* matchOf the record, and registrationMatch.
Match(g) ==
  IF g \in Unregistrable THEN "unknown"
  ELSE IF record = g THEN "same"
  ELSE IF record \in gone \/ PackageOf[record] = PackageOf[g] THEN "drift"
  ELSE "foreign"

\* #install up to its await.
GoRegister(t) ==
  IF command[t].gup \in Unregistrable THEN End(t, "failed") ELSE Step(t, "register")

\* #keep up to its await.
Keep(t) ==
  LET match == Match(command[t].gup)
  IN CASE match = "foreign" -> End(t, "foreign")
       [] match = "drift"   -> GoRegister(t)
       [] OTHER             -> Step(t, "check")

\* reconcile, heal and reinstall up to their first await.
Sync(t) ==
  /\ command[t].step = "sync"
  /\ LET verb == command[t].verb
         on   == command[t].count > 0
     IN \/ verb = "reinstall" /\ GoRegister(t)
        \/ verb = "heal" /\ record = None /\ End(t, "unchanged")
        \/ verb # "reinstall" /\ ~on /\ record # None /\ Step(t, "unregister")
        \/ verb = "reconcile" /\ ~on /\ record = None /\ Step(t, "look")
        \/ verb # "reinstall" /\ on /\ record # None /\ Keep(t)
        \/ verb = "reconcile" /\ on /\ record = None /\ GoRegister(t)
  /\ UNCHANGED <<schedules, system, commands, faults, alone>>

\* The record is trusted, the system never asked.
Check_Bug(t) ==
  /\ command[t].step = "check"
  /\ End(t, "unchanged")
  /\ UNCHANGED <<schedules, system, commands, faults, alone>>

\* #keep: is it registered?  A system that does not answer counts as no.
Check(t) ==
  /\ command[t].step = "check"
  /\ \/ trigger # None /\ End(t, "unchanged") /\ Fine
     \/ trigger = None /\ GoRegister(t) /\ Fine
     \/ trigger # None /\ GoRegister(t) /\ Fault
  /\ UNCHANGED <<schedules, system, commands, alone>>

\* #removeIfPresent without a record: the same question, and no answer counts
\* as no again: status() never throws.
Look(t) ==
  /\ command[t].step = "look"
  /\ \/ trigger # None /\ Step(t, "unregister") /\ Fine
     \/ trigger = None /\ End(t, "unchanged") /\ Fine
     \/ /\ trigger # None /\ Fault
        /\ command' = [command EXCEPT ![t] = [NoCommand EXCEPT !.result = "unchanged", !.missed = TRUE]]
  /\ UNCHANGED <<schedules, system, commands, alone>>

\* What a failed install leaves.  launchd boots the old agent out before it
\* bootstraps the new one, and enables it afterwards.
LeftByInstall(t) ==
  IF Mechanism = "launchd" THEN {trigger, None, command[t].gup} ELSE {trigger}

\* trigger.install.
Register(t) ==
  /\ command[t].step = "register"
  /\ \/ trigger' = command[t].gup /\ Step(t, "record") /\ Fine
     \/ trigger' \in LeftByInstall(t) /\ Fails(t)
  /\ UNCHANGED <<schedules, record, gone, commands, alone>>

\* The record is written only when there is none.
WriteRecord_Bug(t) ==
  /\ command[t].step = "record"
  /\ record' = IF record = None THEN command[t].gup ELSE record
  /\ End(t, "installed")
  /\ UNCHANGED <<schedules, trigger, gone, commands, faults, alone>>

\* records.write, once registered.
WriteRecord(t) ==
  /\ command[t].step = "record"
  /\ \/ record' = command[t].gup /\ End(t, "installed") /\ Fine
     \/ UNCHANGED record /\ Fails(t)
  /\ UNCHANGED <<schedules, trigger, gone, commands, alone>>

\* The removal fails and passes for done: schtasks neither deletes the task nor
\* answers whether it is there, or launchctl does not boot the agent out, which
\* nobody looks at.
Misses(t) ==
  /\ Mechanism # "crontab" /\ trigger # None
  /\ Fault
  /\ command' = [command EXCEPT ![t].step = "forget", ![t].missed = TRUE]

\* trigger.uninstall.  Without its agent launchd may still have the plist file,
\* which rmSync could not remove.
Unregister(t) ==
  /\ command[t].step = "unregister"
  /\ \/ trigger' = None /\ Step(t, "forget") /\ Fine
     \/ UNCHANGED trigger /\ Fails(t)
     \/ UNCHANGED trigger /\ Misses(t)
     \/ Mechanism = "launchd" /\ trigger' = None /\ Fails(t)
  /\ UNCHANGED <<schedules, record, gone, commands, alone>>

\* records.remove; uninstall goes on to the schedules.
Forget(t) ==
  /\ command[t].step = "forget"
  /\ \/ /\ record' = None /\ Fine
        /\ IF command[t].verb = "uninstall" THEN Step(t, "disable") ELSE End(t, "removed")
     \/ UNCHANGED record /\ Fails(t)
  /\ UNCHANGED <<schedules, trigger, gone, commands, alone>>

\* uninstallCommand: every schedule off, or deleted with all gup knows of the
\* scheduler (--purge).  The file may refuse to be saved.
DisableAll(t) ==
  /\ command[t].step = "disable"
  /\ \/ /\ schedules' = [s \in Schedules |-> IF schedules[s] = "on" THEN "off" ELSE schedules[s]]
        /\ End(t, "removed") /\ Fine
        /\ UNCHANGED record
     \/ /\ schedules' = [s \in Schedules |-> "absent"]
        /\ record' = None
        /\ End(t, "removed") /\ Fine
     \/ Fails(t) /\ UNCHANGED <<schedules, record>>
  /\ UNCHANGED <<trigger, gone, commands, alone>>

-----------------------------------------------------------------------------
(* What happens behind gup's back (external).                              *)

\* Killed at any point.
Crash(t) ==
  /\ t \in Busy
  /\ Fault
  /\ End(t, "dead")
  /\ UNCHANGED <<schedules, system, commands, alone>>

\* The user deletes the task, the agent or the crontab's block.
DeletedByHand ==
  /\ trigger # None
  /\ Fault
  /\ trigger' = None
  /\ alone' = {}
  /\ UNCHANGED <<schedules, record, gone, command, commands>>

\* An installation goes: another Node, another prefix.  Not the last one.
Vanishes(g) ==
  /\ g \notin gone
  /\ gone \cup {g} # Gups
  /\ \A t \in Busy : command[t].gup # g
  /\ Fault
  /\ gone' = gone \cup {g}
  /\ alone' = {}
  /\ UNCHANGED <<schedules, trigger, record, command, commands>>

-----------------------------------------------------------------------------

Next ==
  \/ \E t \in Terminals :
       \/ Change(t) \/ Heal(t) \/ Reinstall(t) \/ Uninstall(t)
       \/ Sync(t) \/ Check(t) \/ Look(t) \/ Register(t) \/ WriteRecord(t)
       \/ Unregister(t) \/ Forget(t) \/ DisableAll(t) \/ Crash(t)
  \/ DeletedByHand
  \/ \E g \in Gups : Vanishes(g)

Spec == Init /\ [][Next]_vars

-----------------------------------------------------------------------------

\* The type invariant: past its registration a command is one that may
\* register, and past its removal one that removes.
TypeOK ==
  /\ schedules \in [Schedules -> {"absent", "on", "off"}]
  /\ {trigger, record} \subseteq Gups \cup {None}
  /\ gone \subseteq Gups
  /\ commands \in 0..MaxCommands
  /\ faults \in 0..MaxFaults
  /\ alone \subseteq Terminals
  /\ \A t \in Terminals :
       /\ command[t].step \in {"idle", "sync", "check", "look", "register", "record",
                               "unregister", "forget", "disable"}
       /\ command[t].step \in {"register", "record"} =>
            command[t].gup \notin Unregistrable /\ command[t].count > 0
       /\ command[t].step \in {"look", "forget"} =>
            command[t].count = 0 \/ command[t].verb = "uninstall"

\* t's command ends, undisturbed since it began.
Ends(t, result) ==
  t \in Busy /\ command'[t].step = "idle" /\ command'[t].result = result /\ t \in alone

\* t's command ends well.  heal says nothing of a machine gup was never
\* registered on.
EndsWell(t) ==
  \/ Ends(t, "installed") \/ Ends(t, "removed")
  \/ Ends(t, "unchanged") /\ ~(command[t].verb = "heal" /\ record = None)

\* "At least one enabled schedule <=> the OS trigger is registered."
Agreement ==
  (\E s \in Schedules : schedules[s] = "on") = (trigger # None)

\* A command that ends well leaves the system in agreement with the schedules
\* (trigger-sync.ts:8-9), whatever failed, died, overlapped or was missed
\* before it: provided that no other command runs during it, and that it did
\* not itself take a removal for done that had not happened.  That provision is
\* the code's limit: a query that is not answered reads as nothing registered
\* (os-trigger.ts:42, trigger-sync.ts:139), and a removal that failed may pass
\* for done (windows-task.ts:60-62, launchd-agent.ts:104).
CommandsAgreeWithTheSystem ==
  [][\A t \in Terminals : EndsWell(t) /\ ~command'[t].missed => Agreement']_vars

\* After it, install.json names what the system starts: a repair and the
\* environment of a tick rely on it ("it lets an interactive start tell
\* whether the registered command still points at this installation",
\* install-record.ts:8-10).  The same two provisions.
RecordNamesTheTrigger ==
  [][\A t \in Terminals :
       (Ends(t, "installed") \/ Ends(t, "removed")) /\ ~command'[t].missed => record' = trigger']_vars

\* t replaces a registration without having been asked to.
Takes(t) ==
  /\ command[t].step = "register" /\ command[t].verb \in {"reconcile", "heal"}
  /\ trigger' = command[t].gup /\ trigger # trigger'
  /\ t \in alone

\* "Two installations must not take the trigger from each other at every
\* start" (trigger-sync.ts:20-22): what another installation that still
\* exists has registered and recorded is only replaced on request; and heal
\* never makes a first registration (trigger-sync.ts:13-14).
NobodyTakesTheTrigger ==
  [][\A t \in Terminals : Takes(t) =>
       \/ record = None /\ command[t].verb # "heal"
       \/ record \in gone
       \/ PackageOf[record] = PackageOf[command[t].gup]]_vars
=============================================================================
