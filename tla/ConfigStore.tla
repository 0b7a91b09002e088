---------------------------- MODULE ConfigStore ----------------------------
(***************************************************************************)
(* The file of settings several gup processes share, core/config/store.ts, *)
(* with config-file.ts and atomic-write.ts: config.json, and the schedules *)
(* of scheduler/persistence/schedule-repo.ts, which are a store too.       *)
(*                                                                         *)
(* A process loads the file once, on first use, and moves a corrupt one    *)
(* aside; it saves a section by reading the file again inside its lock     *)
(* (FileLock) and replacing that section.  A section's value is the set of *)
(* edits it carries: write replaces it, update adds to the fresh one.  The *)
(* temporary file and its rename are one step: a reader sees one or the    *)
(* other document.                                                         *)
(***************************************************************************)
EXTENDS FileLock, FiniteSets

CONSTANTS
  Sections,  \* the sections of the file
  Updated,   \* those saved by update, as the schedules are; others by write
  NewerOf,   \* the sections a newer gup may save
  Disabled,  \* processes with GUP_CONFIG=0
  MaxSaves   \* bound: saves, all processes together

ASSUME StoreAssumption ==
  /\ Disabled \subseteq Procs
  /\ NewerOf \subseteq Sections
  /\ Updated \subseteq Sections
  /\ MaxSaves \in Nat

VARIABLES
  disk,     \* the file: [kind, sections, newer]
  backups,  \* what was moved aside: the files spoiled, or "good" ones
  store,    \* #loaded of each process: its state, and the newer sections
  job,      \* what each process does with the file: [step, section, fresh, edit]
  spoils,   \* how many times the file was spoiled
  saves,    \* how many saves began
  saved,    \* history: what the file should hold
  moves     \* history: how a file was moved or changed without the lock

files   == <<disk, backups, saved, moves>>
lockRest == <<lock, isStale, at, attempts, mishaps>>
counts  == <<spoils, saves>>
vars    == <<lockVars, files, store, job, counts>>

Edits   == 1..MaxSaves
Spoilt  == 1..MaxFaults
Empty   == [kind |-> "document", sections |-> [s \in Sections |-> {}], newer |-> {}]
Missing == [Empty EXCEPT !.kind = "missing"]
Corrupt == [Empty EXCEPT !.kind = "corrupt"]
Unread  == [state |-> "unread", newer |-> {}]
NoJob   == [step |-> "none", section |-> "none", fresh |-> Empty, edit |-> 0]

Init ==
  /\ LockInit
  /\ disk \in {Missing, Empty}
  /\ backups = {}
  /\ store = [p \in Procs |-> Unread]
  /\ job = [p \in Procs |-> NoJob]
  /\ spoils = 0 /\ saves = 0
  /\ saved = Empty
  /\ moves = {}

Proceed(p, step) == job' = [job EXCEPT ![p].step = step]
Finish(p, step)  == job' = [job EXCEPT ![p] = [NoJob EXCEPT !.step = step]]
Loaded(p, state, newer) == store' = [store EXCEPT ![p] = [state |-> state, newer |-> newer]]

-----------------------------------------------------------------------------
(* Loading.                                                                *)

\* #load, on the first read of a section.  A file that cannot be read makes
\* the store unavailable; a corrupt one is to be moved aside.
Load(p) ==
  /\ store[p].state = "unread"
  /\ job[p].step = "none"
  /\ \/ p \in Disabled /\ Fine /\ Loaded(p, "disabled", {}) /\ UNCHANGED job
     \/ p \notin Disabled /\ Fault /\ Loaded(p, "unavailable", {}) /\ UNCHANGED job
     \/ /\ p \notin Disabled
        /\ Fine
        /\ IF disk.kind = "corrupt" THEN Proceed(p, "recover") /\ UNCHANGED store
           ELSE /\ Loaded(p, IF disk.kind = "missing" THEN "missing" ELSE "loaded", disk.newer)
                /\ UNCHANGED job
  /\ UNCHANGED <<lockRest, files, counts>>

\* The names of the files aside: a second move within the same second takes
\* the name, and the place, of the one before.
Kept(content) == {backups \cup {content}} \cup (IF backups = {} THEN {} ELSE {{content}})

\* What the file is, moved: the n-th spoilt one, or a good one.
Content == IF disk.kind = "corrupt" THEN spoils ELSE 0

\* #recover: the file that bears the name by now is renamed.  Renaming fails
\* if there is none: the store is unavailable, as if it could not be moved.
Recover(p) ==
  /\ job[p].step = "recover"
  /\ \/ /\ disk.kind # "missing"
        /\ Fine
        /\ disk' = Missing
        /\ backups' \in Kept(Content)
        /\ moves' = moves \cup (IF disk.kind = "document" THEN {"stolen"} ELSE {})
                          \cup (IF backups \subseteq backups' THEN {} ELSE {"replaced"})
        /\ Loaded(p, "recovered", {})
     \/ /\ (disk.kind = "missing" /\ Fine) \/ Fault
        /\ Loaded(p, "unavailable", {})
        /\ UNCHANGED <<disk, backups, moves>>
  /\ Proceed(p, "none")
  /\ UNCHANGED <<lockRest, saved, counts>>

-----------------------------------------------------------------------------
(* Saving.                                                                 *)

\* write or update, up to the lock.  A store that is disabled keeps the value
\* for itself; an unavailable one, and a newer section, throw.
Save(p, s) ==
  /\ store[p].state # "unread"
  /\ job[p].step = "none"
  /\ saves < MaxSaves
  /\ saves' = saves + 1
  /\ IF store[p].state \in {"disabled", "unavailable"} \/ s \in store[p].newer
     THEN UNCHANGED <<lockVars, job>>
     ELSE /\ Enter(p)
          /\ job' = [job EXCEPT ![p] =
               [step |-> "lock", section |-> s, fresh |-> Empty, edit |-> saves + 1]]
  /\ UNCHANGED <<files, store, spoils>>

\* acquire goes on; its exception ends the save.
Locking(p) ==
  /\ job[p].step = "lock"
  /\ \/ Acquire(p) /\ UNCHANGED job
     \/ GiveUp(p) /\ job' = [job EXCEPT ![p] = NoJob]
  /\ UNCHANGED <<files, store, counts>>

\* The section's version is only looked at as it was loaded.
Accepts_Bug(s) == disk.kind # "corrupt"

\* A corrupt file is read as an empty document.
Accepts_Corrupt_Bug(s) == s \notin disk.newer

\* freshDocument, then isReadOnlySection of it.
Accepts(s) == disk.kind # "corrupt" /\ s \notin disk.newer

\* The file inside the lock: a missing one is an empty document; one that is
\* corrupt by now, cannot be read or has a newer section is left alone.
ReadFresh(p) ==
  /\ job[p].step = "lock"
  /\ at[p] = "inside"
  /\ \/ /\ Accepts(job[p].section)
        /\ Fine
        /\ job' = [job EXCEPT ![p].step = "replace",
                              ![p].fresh = [disk EXCEPT !.kind = "document"]]
     \/ /\ (~Accepts(job[p].section) /\ Fine) \/ Fault
        /\ Finish(p, "fail")
  /\ UNCHANGED <<lockRest, files, store, counts>>

\* compute, of write and of update.
Computed(s, edit, value) == IF s \in Updated THEN value \cup {edit} ELSE {edit}

Changed(document, j) ==
  [document EXCEPT !.sections[j.section] = Computed(j.section, j.edit, @)]

\* Only the section saved is written.
Replace_Bug(p) ==
  /\ job[p].step = "replace"
  /\ disk' = Changed(Empty, job[p])
  /\ saved' = Changed(saved, job[p])
  /\ Finish(p, "done")
  /\ UNCHANGED <<lockVars, backups, moves, store, counts>>

\* withSection and writeFileAtomic; a rename refused to the last leaves all
\* as it was.
Replace(p) ==
  /\ job[p].step = "replace"
  /\ \/ /\ disk' = Changed(job[p].fresh, job[p])
        /\ saved' = Changed(saved, job[p])
        /\ Finish(p, "done")
        /\ Fine
     \/ Finish(p, "fail") /\ UNCHANGED <<disk, saved>> /\ Fault
  /\ UNCHANGED <<lockRest, backups, moves, store, counts>>

\* The lock is released; a save that was persisted makes a missing file a
\* loaded one.
EndSave(p) ==
  /\ job[p].step \in {"done", "fail"}
  /\ Leave(p)
  /\ job' = [job EXCEPT ![p] = NoJob]
  /\ store' = IF job[p].step = "done" /\ store[p].state = "missing"
              THEN [store EXCEPT ![p].state = "loaded"] ELSE store
  /\ UNCHANGED <<files, counts>>

-----------------------------------------------------------------------------
(* What else happens to the file and to the processes (external).          *)

\* The user, an editor or another program leaves something in its place that
\* is no settings document.
Spoil ==
  /\ Fault
  /\ disk.kind # "corrupt"
  /\ spoils' = spoils + 1
  /\ disk' = Corrupt
  /\ saved' = Empty
  /\ moves' = IF Inside = {} THEN moves ELSE moves \cup {"spoilt"}
  /\ UNCHANGED <<lockRest, backups, store, job, saves>>

\* A newer gup saves a section, with the lock.
NewerSaves(s) ==
  /\ lock = NoLock
  /\ disk.kind # "corrupt"
  /\ s \notin disk.newer
  /\ Fault
  /\ disk' = [disk EXCEPT !.kind = "document", !.newer = @ \cup {s}]
  /\ saved' = [saved EXCEPT !.newer = @ \cup {s}]
  /\ UNCHANGED <<lockRest, backups, moves, store, job, counts>>

\* Killed at any point; gup is started again, and knows nothing.
Crash(p) ==
  /\ job[p].step # "none"
  /\ Die(p)
  /\ job' = [job EXCEPT ![p] = NoJob]
  /\ store' = [store EXCEPT ![p] = Unread]
  /\ UNCHANGED <<files, counts>>

\* A process ends and another one begins.
Restart(p) ==
  /\ job[p].step = "none"
  /\ store[p].state # "unread"
  /\ Fault
  /\ store' = [store EXCEPT ![p] = Unread]
  /\ UNCHANGED <<lockRest, files, job, counts>>

Next ==
  \/ \E p \in Procs : Load(p) \/ Recover(p) \/ Crash(p) \/ Restart(p)
  \/ \E p \in Procs : Locking(p) \/ ReadFresh(p) \/ Replace(p) \/ EndSave(p)
  \/ \E p \in Procs, s \in Sections : Save(p, s)
  \/ Age /\ UNCHANGED <<files, store, job, counts>>
  \/ Spoil
  \/ \E s \in NewerOf : NewerSaves(s)

Spec == Init /\ [][Next]_vars

-----------------------------------------------------------------------------

\* The type invariant: a process is in the lock for a save and for nothing
\* else, and tries for it MAX_ATTEMPTS times at most.
TypeOK ==
  /\ LockTypeOK
  /\ disk \in [kind : {"missing", "corrupt", "document"},
               sections : [Sections -> SUBSET Edits], newer : SUBSET Sections]
  /\ backups \subseteq Spoilt \cup {0}
  /\ \A p \in Procs :
       /\ store[p].state \in {"unread", "disabled", "unavailable", "missing", "loaded", "recovered"}
       /\ (at[p] # "outside") = (job[p].step \in {"lock", "replace", "done", "fail"})
       /\ (job[p].step \in {"replace", "done", "fail"}) => at[p] = "inside"
  /\ moves \subseteq {"stolen", "replaced", "spoilt"}

\* What was saved is in the file: two processes that save at once lose neither
\* each other's sections (store.ts:32-35) nor, by update, each other's edits
\* of one section (schedule-repo.ts:8-11); a save that fails or dies changes
\* nothing.  It holds while the lock does, unless a process that found the
\* file corrupt moves it aside once another has put a good one in its place,
\* or somebody writes over the file during a save.
FileHoldsEverySave ==
  mishaps = {} /\ moves \subseteq {"replaced"} /\ disk.kind # "corrupt" =>
    disk.sections = saved.sections /\ disk.newer = saved.newer

\* A spoilt file is never overwritten: it is in its place, or aside under
\* another name ("move the corrupt file aside and start empty - or, if it
\* cannot be moved, never touch it", store.ts:232-233); unless two moves
\* within a second take the same name.
SpoiltFilesAreKept ==
  moves \cap {"replaced", "spoilt"} = {} =>
    1..spoils \subseteq backups \cup (IF disk.kind = "corrupt" THEN {spoils} ELSE {})

\* "Sections written by a newer gup: readable, never overwritten"
\* (store.ts:57), be they newer since this process loaded the file.
NewerSectionsStay ==
  [][\A s \in disk.newer :
       mishaps = {} /\ disk.kind = "document" /\ disk'.kind = "document" =>
       s \in disk'.newer /\ disk'.sections[s] = disk.sections[s]]_vars
=============================================================================
