-------------------------- MODULE ConfigStoreProofs --------------------------
(***************************************************************************)
(* What is proved of ConfigStore and of the FileLock it uses, for any      *)
(* processes, sections, number of attempts, saves and failures: their      *)
(* types, that the lock has one holder but in the two ways it names, that  *)
(* no save, no spoilt file and no newer section is lost, and that they     *)
(* implement the mutex and the file they promise.                          *)
(***************************************************************************)
EXTENDS ConfigStore, TLAPS

Documents ==
  [kind : {"missing", "corrupt", "document"},
   sections : [Sections -> SUBSET Edits], newer : SUBSET Sections]

JobSteps   == {"none", "recover", "lock", "replace", "done", "fail"}
InLock     == {"lock", "replace", "done", "fail"}
SectionsIn == Sections \cup {"none"}

Jobs == [step : JobSteps, section : SectionsIn, fresh : Documents, edit : 0..MaxSaves]

StoreStates == {"unread", "disabled", "unavailable", "missing", "loaded", "recovered"}

\* A process that looks at the lock file has a turn of the loop left.
TurnsLeft == \A p \in Procs : at[p] \in {"judge", "remove"} => attempts[p] < MaxAttempts

LockTypes == LockTypeOK /\ TurnsLeft

\* What TypeOK rests on: the types of what each process holds, and that a
\* save that is under way is the save of a section.
StoreTypes ==
  /\ LockTypes
  /\ disk \in Documents
  /\ backups \subseteq Spoilt \cup {0}
  /\ moves \subseteq {"stolen", "replaced", "spoilt"}
  /\ store \in [Procs -> [state : StoreStates, newer : SUBSET Sections]]
  /\ job \in [Procs -> Jobs]
  /\ spoils \in 0..faults
  /\ saves \in 0..MaxSaves
  /\ \A p \in Procs :
       /\ (at[p] # "outside") <=> (job[p].step \in InLock)
       /\ job[p].step \in {"replace", "done", "fail"} => at[p] = "inside"
       /\ job[p].step \in {"lock", "replace"} => job[p].section \in Sections /\ job[p].edit \in Edits

\* An empty document is a document, whatever its kind.
LEMMA EmptyDocuments ==
  /\ Empty \in Documents /\ Missing \in Documents /\ Corrupt \in Documents
  /\ NoJob \in Jobs
BY StoreAssumption DEF Empty, Missing, Corrupt, NoJob, Documents, Jobs, SectionsIn, JobSteps

\* Every system starts well-typed.
LEMMA TypesInit == Init => StoreTypes
<1> SUFFICES ASSUME Init PROVE StoreTypes
  OBVIOUS
<1>0. MaxAttempts \in Nat /\ MaxFaults \in Nat
  BY FileLockAssumption
<1>a. isStale \in BOOLEAN
  BY Zenon DEF Init, LockInit
<1>1. LockTypes
  BY <1>0, <1>a DEF Init, LockInit, LockTypes, TurnsLeft, LockTypeOK, LockSteps
<1>2. faults = 0 /\ MaxSaves \in Nat
  BY StoreAssumption DEF Init, LockInit
<1> QED BY <1>1, <1>2, EmptyDocuments DEF
  Init, LockInit, StoreTypes, Unread, StoreStates, NoJob, InLock

\* One step of acquire, by its actions: it stays in withFileLock.
LEMMA AcquireTypes ==
  ASSUME StoreTypes, NEW p \in Procs, at[p] # "outside", Acquire(p)
  PROVE  /\ LockTypes'
         /\ at' = [at EXCEPT ![p] = at'[p]]
         /\ at'[p] # "outside"
         /\ faults \in Nat /\ faults' \in Nat /\ faults <= faults'
<1>0. MaxAttempts \in Nat /\ MaxFaults \in Nat /\ faults \in Nat /\ faults <= MaxFaults
  BY FileLockAssumption DEF StoreTypes, LockTypes, LockTypeOK
<1>a. LockTypeOK /\ TurnsLeft
  BY DEF StoreTypes, LockTypes
<1> USE <1>0, <1>a DEF LockTypes, TurnsLeft, LockTypeOK, LockSteps, Reach, Reset, NextAttempt, Fault, Fine
<1>1. CASE Create(p)
  <2>1. isStale' \in BOOLEAN
    BY <1>1, Zenon DEF Create
  <2>2. mishaps' \subseteq {"takeover", "overrun"} /\ lock' \in Procs /\ faults' \in 0..MaxFaults /\ faults <= faults'
    BY <1>1 DEF Create
  <2>3. at' = [at EXCEPT ![p] = "inside"] \/ at' = [at EXCEPT ![p] = "failed"]
    BY <1>1 DEF Create
  <2>4. attempts' = [attempts EXCEPT ![p] = 0]
    BY <1>1 DEF Create
  <2> QED BY <2>1, <2>2, <2>3, <2>4
<1>2. CASE FindTaken(p)
  BY <1>2 DEF FindTaken
<1>3. CASE FindBeingDeleted(p)
  BY <1>3 DEF FindBeingDeleted
<1>4. CASE Judge(p)
  <2>1. CASE at' = [at EXCEPT ![p] = "remove"] /\ UNCHANGED attempts
    BY <1>4, <2>1 DEF Judge
  <2>2. CASE NextAttempt(p)
    BY <1>4, <2>2 DEF Judge
  <2> QED BY <1>4, <2>1, <2>2 DEF Judge
<1>5. CASE Remove(p)
  <2>1. NextAttempt(p) /\ at[p] = "remove" /\ UNCHANGED mishaps
    BY <1>5 DEF Remove
  <2>2. isStale' \in BOOLEAN
    BY <1>5, Zenon DEF Remove, Unlinked
  <2>3. lock' \in Procs \cup {NoLock} /\ faults' \in 0..MaxFaults /\ faults <= faults'
    BY <1>5 DEF Remove, Unlinked
  <2> QED BY <2>1, <2>2, <2>3
<1>6. CASE TimeOut(p)
  BY <1>6 DEF TimeOut
<1>7. CASE Refused(p)
  BY <1>7 DEF Refused
<1> QED BY <1>1, <1>2, <1>3, <1>4, <1>5, <1>6, <1>7 DEF Acquire

\* Leaving the lock, given up or released, and dying in it.
LEMMA LeaveTypes ==
  ASSUME StoreTypes, NEW p \in Procs, Leave(p) \/ GiveUp(p) \/ Die(p)
  PROVE  /\ LockTypes'
         /\ at' = [at EXCEPT ![p] = "outside"]
         /\ faults \in Nat /\ faults' \in Nat /\ faults <= faults'
<1>0. MaxAttempts \in Nat /\ MaxFaults \in Nat /\ faults \in Nat /\ faults <= MaxFaults
  BY FileLockAssumption DEF StoreTypes, LockTypes, LockTypeOK
<1>1. at' = [at EXCEPT ![p] = "outside"] /\ mishaps' = mishaps
  BY DEF Leave, GiveUp, Die, Reach
<1>2. lock' \in Procs \cup {NoLock} /\ isStale' \in BOOLEAN
  BY DEF Leave, GiveUp, Die, Unlinked, StoreTypes, LockTypes, LockTypeOK
<1>3. faults' \in 0..MaxFaults /\ faults <= faults'
  BY <1>0 DEF Leave, GiveUp, Die, Unlinked, Fault, Fine
<1>4. attempts' = attempts \/ attempts' = [attempts EXCEPT ![p] = 0]
  BY DEF Leave, GiveUp, Die, Reset
<1> QED BY <1>0, <1>1, <1>2, <1>3, <1>4 DEF StoreTypes, LockTypes, TurnsLeft, LockTypeOK, LockSteps

\* What a change of disk leaves is a document of the same type.
LEMMA ChangedTypes ==
  ASSUME NEW d \in Documents, NEW j \in Jobs, j.section \in Sections, j.edit \in Edits
  PROVE  Changed(d, j) \in Documents
<1> DEFINE value == Computed(j.section, j.edit, d.sections[j.section])
<1>1. value \in SUBSET Edits
  BY DEF Computed, Documents
<1>2. Changed(d, j) = [d EXCEPT !.sections = [@ EXCEPT ![j.section] = value]]
  BY DEF Changed, Documents
<1> HIDE DEF value
<1> QED BY <1>1, <1>2 DEF Documents

\* Each action keeps the types.
LEMMA TypesStep == StoreTypes /\ [Next]_vars => StoreTypes'
<1> SUFFICES ASSUME StoreTypes, [Next]_vars PROVE StoreTypes'
  OBVIOUS
<1> USE FileLockAssumption, StoreAssumption DEF InLock
<1>a. faults \in Nat /\ faults <= MaxFaults /\ spoils \in Nat /\ spoils <= faults
  BY DEF StoreTypes, LockTypes, TurnsLeft, LockTypeOK
<1>1. CASE UNCHANGED vars
  BY <1>1 DEF vars, lockVars, files, counts, StoreTypes, LockTypes, TurnsLeft, LockTypeOK
<1>2. ASSUME NEW p \in Procs, Load(p) PROVE StoreTypes'
  <2>1. LockTypes' /\ faults' \in Nat /\ faults <= faults'
    BY <1>2, <1>a DEF Load, lockRest, Fine, Fault, StoreTypes, LockTypes, TurnsLeft, LockTypeOK
  <2>2. store' \in [Procs -> [state : StoreStates, newer : SUBSET Sections]]
    BY <1>2 DEF Load, Loaded, StoreTypes, StoreStates, Documents
  <2>3. job' = job \/ job' = [job EXCEPT ![p].step = "recover"]
    BY <1>2 DEF Load, Proceed
  <2>4. job' \in [Procs -> Jobs]
    BY <2>3 DEF StoreTypes, Jobs, JobSteps
  <2>5. at' = at /\ disk' = disk /\ backups' = backups /\ moves' = moves /\ spoils' = spoils /\ saves' = saves
        /\ job[p].step = "none"
    BY <1>2 DEF Load, lockRest, files, counts
  <2>6. \A q \in Procs : job'[q].step # job[q].step => q = p /\ job'[q].step = "recover" /\ job[q].step = "none"
    BY <2>3, <2>5 DEF StoreTypes, Jobs
  <2>7. \A q \in Procs : job'[q].section = job[q].section /\ job'[q].edit = job[q].edit
    BY <2>3 DEF StoreTypes, Jobs
  <2> QED BY <1>a, <2>1, <2>2, <2>4, <2>5, <2>6, <2>7 DEF StoreTypes
<1>3. ASSUME NEW p \in Procs, Recover(p) PROVE StoreTypes'
  <2>1. LockTypes' /\ faults' \in Nat /\ faults <= faults'
    BY <1>3, <1>a DEF Recover, lockRest, Fine, Fault, StoreTypes, LockTypes, TurnsLeft, LockTypeOK
  <2>2. store' \in [Procs -> [state : StoreStates, newer : SUBSET Sections]]
    BY <1>3 DEF Recover, Loaded, StoreTypes, StoreStates
  <2>3. job' = [job EXCEPT ![p].step = "none"] /\ job[p].step = "recover"
    BY <1>3 DEF Recover, Proceed
  <2>4. job' \in [Procs -> Jobs]
    BY <2>3 DEF StoreTypes, Jobs, JobSteps
  <2>5. disk' \in Documents
    BY <1>3, EmptyDocuments DEF Recover, StoreTypes
  <2>6. Content \in Spoilt \cup {0}
    BY <1>a DEF Content, Spoilt
  <2>7. backups' \subseteq Spoilt \cup {0}
    BY <1>3, <2>6 DEF Recover, Kept, StoreTypes
  <2>8. moves' \subseteq {"stolen", "replaced", "spoilt"}
    BY <1>3 DEF Recover, StoreTypes
  <2>9. at' = at /\ spoils' = spoils /\ saves' = saves
    BY <1>3 DEF Recover, lockRest, counts
  <2>10. \A q \in Procs : job'[q].step # job[q].step => q = p /\ job'[q].step = "none" /\ job[q].step = "recover"
    BY <2>3 DEF StoreTypes, Jobs
  <2>11. \A q \in Procs : job'[q].section = job[q].section /\ job'[q].edit = job[q].edit
    BY <2>3 DEF StoreTypes, Jobs
  <2> QED BY <1>a, <2>1, <2>2, <2>4, <2>5, <2>7, <2>8, <2>9, <2>10, <2>11 DEF StoreTypes
<1>4. ASSUME NEW p \in Procs, NEW s \in Sections, Save(p, s) PROVE StoreTypes'
  <2>1. UNCHANGED <<disk, backups, moves, store, spoils>> /\ saves' \in 0..MaxSaves /\ saves + 1 \in Edits
    BY <1>4 DEF Save, files, Edits, StoreTypes
  <2>2. CASE UNCHANGED <<lockVars, job>>
    BY <2>1, <2>2 DEF lockVars, StoreTypes, LockTypes, TurnsLeft, LockTypeOK
  <2>3. CASE Enter(p) /\ job' = [job EXCEPT ![p] =
               [step |-> "lock", section |-> s, fresh |-> Empty, edit |-> saves + 1]]
    <3>1. LockTypes' /\ at' = [at EXCEPT ![p] = "create"] /\ faults' = faults
      BY <2>3 DEF Enter, Reach, StoreTypes, LockTypes, TurnsLeft, LockTypeOK, LockSteps
    <3>2. job' \in [Procs -> Jobs]
      BY <2>1, <2>3, EmptyDocuments DEF StoreTypes, Jobs, JobSteps, SectionsIn, Edits
    <3> QED BY <2>1, <2>3, <3>1, <3>2 DEF StoreTypes, LockTypes, TurnsLeft, LockTypeOK
  <2> QED BY <1>4, <2>2, <2>3 DEF Save
<1>5. ASSUME NEW p \in Procs, Locking(p) PROVE StoreTypes'
  <2>1. UNCHANGED <<disk, backups, moves, store, spoils, saves>> /\ job[p].step = "lock" /\ at[p] # "outside"
    BY <1>5 DEF Locking, files, counts, StoreTypes
  <2>2. CASE Acquire(p) /\ UNCHANGED job
    <3>1. /\ LockTypes' /\ at' = [at EXCEPT ![p] = at'[p]] /\ at'[p] # "outside"
          /\ faults' \in Nat /\ faults <= faults'
      BY <2>1, <2>2, AcquireTypes
    <3> QED BY <1>a, <2>1, <2>2, <3>1 DEF StoreTypes, LockTypes, TurnsLeft, LockTypeOK
  <2>3. CASE GiveUp(p) /\ job' = [job EXCEPT ![p] = NoJob]
    <3>1. LockTypes' /\ at' = [at EXCEPT ![p] = "outside"] /\ faults' \in Nat /\ faults <= faults'
      BY <2>3, LeaveTypes
    <3> QED BY <1>a, <2>1, <2>3, <3>1, EmptyDocuments DEF StoreTypes, LockTypes, TurnsLeft, LockTypeOK, NoJob
  <2> QED BY <1>5, <2>2, <2>3 DEF Locking
<1>6. ASSUME NEW p \in Procs, ReadFresh(p) PROVE StoreTypes'
  <2>1. /\ UNCHANGED <<disk, backups, moves, store, spoils, saves, at>>
        /\ LockTypes' /\ faults' \in Nat /\ faults <= faults'
    BY <1>6, <1>a DEF ReadFresh, files, counts, lockRest, Fine, Fault, StoreTypes, LockTypes, TurnsLeft, LockTypeOK
  <2>2. job[p].step = "lock" /\ at[p] = "inside"
    BY <1>6 DEF ReadFresh
  <2>3. CASE job' = [job EXCEPT ![p].step = "replace", ![p].fresh = [disk EXCEPT !.kind = "document"]]
    <3>1. [disk EXCEPT !.kind = "document"] \in Documents
      BY DEF StoreTypes, Documents
    <3>2. job' \in [Procs -> Jobs]
      <4>1. job[p] \in Jobs /\ job \in [Procs -> Jobs]
        BY DEF StoreTypes
      <4>2. [job[p] EXCEPT !.step = "replace", !.fresh = [disk EXCEPT !.kind = "document"]] \in Jobs
        BY <3>1, <4>1 DEF Jobs, JobSteps
      <4>3. job' = [job EXCEPT ![p] = [job[p] EXCEPT !.step = "replace", !.fresh = [disk EXCEPT !.kind = "document"]]]
        BY <2>3, <4>1, Zenon
      <4> QED BY <4>1, <4>2, <4>3
    <3>3. \A q \in Procs : job'[q].section = job[q].section /\ job'[q].edit = job[q].edit
                            /\ job'[q].step = IF q = p THEN "replace" ELSE job[q].step
      BY <2>3, <3>1 DEF StoreTypes, Jobs
    <3> QED BY <1>a, <2>1, <2>2, <3>2, <3>3 DEF StoreTypes
  <2>4. CASE Finish(p, "fail")
    <3>1. job' \in [Procs -> Jobs] /\ job'[p].step = "fail" /\ \A q \in Procs \ {p} : job'[q] = job[q]
      BY <2>4, EmptyDocuments DEF Finish, StoreTypes, Jobs, JobSteps, NoJob
    <3> QED BY <1>a, <2>1, <2>2, <3>1 DEF StoreTypes
  <2> QED BY <1>6, <2>3, <2>4 DEF ReadFresh
<1>7. ASSUME NEW p \in Procs, Replace(p) PROVE StoreTypes'
  <2>1. /\ UNCHANGED <<backups, moves, store, spoils, saves, at>>
        /\ LockTypes' /\ faults' \in Nat /\ faults <= faults'
    BY <1>7, <1>a DEF Replace, counts, lockRest, Fine, Fault, StoreTypes, LockTypes, TurnsLeft, LockTypeOK
  <2>2. job[p].step = "replace" /\ job[p] \in Jobs /\ job[p].fresh \in Documents
        /\ job[p].section \in Sections /\ job[p].edit \in Edits /\ at[p] = "inside"
    BY <1>7 DEF Replace, StoreTypes, Jobs
  <2>3. disk' \in Documents
    BY <1>7, <2>2, ChangedTypes DEF Replace, StoreTypes
  <2>4. PICK step \in {"done", "fail"} : Finish(p, step)
    BY <1>7 DEF Replace
  <2>5. job' \in [Procs -> Jobs] /\ job'[p].step = step /\ \A q \in Procs \ {p} : job'[q] = job[q]
    BY <2>4, EmptyDocuments DEF Finish, StoreTypes, Jobs, JobSteps, NoJob
  <2> QED BY <1>a, <2>1, <2>2, <2>3, <2>5 DEF StoreTypes
<1>8. ASSUME NEW p \in Procs, EndSave(p) PROVE StoreTypes'
  <2>1. UNCHANGED <<disk, backups, moves, spoils, saves>>
    BY <1>8 DEF EndSave, files, counts
  <2>2. LockTypes' /\ at' = [at EXCEPT ![p] = "outside"] /\ faults' \in Nat /\ faults <= faults'
    BY <1>8, LeaveTypes DEF EndSave
  <2>3. store' \in [Procs -> [state : StoreStates, newer : SUBSET Sections]]
    BY <1>8 DEF EndSave, StoreTypes, StoreStates
  <2>4. job' = [job EXCEPT ![p] = NoJob]
    BY <1>8 DEF EndSave
  <2> QED BY <1>a, <2>1, <2>2, <2>3, <2>4, EmptyDocuments DEF StoreTypes, LockTypes, TurnsLeft, LockTypeOK, NoJob
<1>9. CASE Age /\ UNCHANGED <<files, store, job, counts>>
  <2>1. LockTypes' /\ at' = at /\ faults' \in Nat /\ faults <= faults'
    <3>1. isStale' = TRUE /\ UNCHANGED <<lock, at, attempts>> /\ mishaps' \subseteq mishaps \cup {"overrun"}
      BY <1>9 DEF Age
    <3>2. faults' \in 0..MaxFaults /\ faults <= faults'
      BY <1>9, <1>a DEF Age, Fine, Fault
    <3> QED BY <1>a, <3>1, <3>2 DEF StoreTypes, LockTypes, TurnsLeft, LockTypeOK
  <2> QED BY <1>9, <1>a, <2>1 DEF StoreTypes, files, counts
<1>10. CASE Spoil
  <2>1. LockTypes' /\ at' = at /\ faults' = faults + 1 /\ spoils' = spoils + 1
    BY <1>10, <1>a DEF Spoil, lockRest, Fault, StoreTypes, LockTypes, TurnsLeft, LockTypeOK
  <2>2. UNCHANGED <<backups, store, job, saves>> /\ disk' \in Documents
    BY <1>10, EmptyDocuments DEF Spoil
  <2>3. moves' \subseteq {"stolen", "replaced", "spoilt"}
    BY <1>10 DEF Spoil, StoreTypes
  <2> QED BY <1>a, <2>1, <2>2, <2>3 DEF StoreTypes
<1>11. ASSUME NEW s \in NewerOf, NewerSaves(s) PROVE StoreTypes'
  <2>1. /\ LockTypes' /\ at' = at /\ faults' \in Nat /\ faults <= faults'
        /\ UNCHANGED <<backups, moves, store, job, spoils, saves>>
    BY <1>11, <1>a DEF NewerSaves, lockRest, counts, Fault, StoreTypes, LockTypes, TurnsLeft, LockTypeOK
  <2>2. disk' = [disk EXCEPT !.kind = "document", !.newer = @ \cup {s}] /\ s \in Sections
    BY <1>11 DEF NewerSaves
  <2>3. disk' \in Documents
    BY <2>2 DEF StoreTypes, Documents
  <2> QED BY <1>a, <2>1, <2>3 DEF StoreTypes
<1>12. ASSUME NEW p \in Procs, Crash(p) PROVE StoreTypes'
  <2>1. UNCHANGED <<disk, backups, moves, spoils, saves>> /\ job' = [job EXCEPT ![p] = NoJob]
        /\ store' = [store EXCEPT ![p] = Unread]
    BY <1>12 DEF Crash, files, counts
  <2>2. LockTypes' /\ at' = [at EXCEPT ![p] = "outside"] /\ faults' \in Nat /\ faults <= faults'
    BY <1>12, LeaveTypes DEF Crash
  <2> QED BY <1>a, <2>1, <2>2, EmptyDocuments DEF StoreTypes, LockTypes, TurnsLeft, LockTypeOK, NoJob, Unread, StoreStates
<1>13. ASSUME NEW p \in Procs, Restart(p) PROVE StoreTypes'
  <2>1. /\ UNCHANGED <<disk, backups, moves, spoils, saves, job, at>>
        /\ store' = [store EXCEPT ![p] = Unread]
        /\ LockTypes' /\ faults' \in Nat /\ faults <= faults'
    BY <1>13, <1>a DEF Restart, files, counts, lockRest, Fault, StoreTypes, LockTypes, TurnsLeft, LockTypeOK
  <2> QED BY <1>a, <2>1 DEF StoreTypes, Unread, StoreStates
<1> QED
  BY <1>1, <1>2, <1>3, <1>4, <1>5, <1>6, <1>7, <1>8, <1>9, <1>10, <1>11, <1>12, <1>13 DEF Next

\* The store and its lock are well-typed (store.ts:143-291, file-lock.ts:39-106).
THEOREM TypeCorrect == Spec => []TypeOK
<1>1. StoreTypes => TypeOK
  BY DEF StoreTypes, LockTypes, TypeOK, Documents, InLock, StoreStates
<1> QED BY TypesInit, TypesStep, <1>1, PTL DEF Spec
-----------------------------------------------------------------------------
(* One holder.                                                             *)

\* As long as the lock was not taken from a process that held it: who is in
\* the section owns the lock file, it is young and nobody is about to unlink
\* it; and who is about to unlink one found it old, if it is still there.
HolderInv ==
  mishaps = {} =>
    /\ \A p \in Procs : at[p] = "inside" =>
         lock = p /\ ~isStale /\ \A q \in Procs : at[q] # "remove"
    /\ \A q \in Procs : at[q] = "remove" => lock = NoLock \/ isStale

\* What a step of the store may do to the lock: a step of a process in it,
\* the lock growing old, or nothing.
LEMMA LockMoves ==
  ASSUME [Next]_vars
  PROVE  \/ \E p \in Procs : Enter(p) \/ Acquire(p) \/ Leave(p) \/ GiveUp(p) \/ Die(p)
         \/ Age
         \/ UNCHANGED lockRest
<1>1. CASE UNCHANGED vars
  BY <1>1 DEF vars, lockVars, lockRest
<1>2. ASSUME NEW p \in Procs, NEW s \in Sections, Save(p, s)
      PROVE  Enter(p) \/ UNCHANGED lockRest
  BY <1>2 DEF Save, lockVars, lockRest
<1>3. ASSUME NEW p \in Procs, Load(p) \/ Recover(p) \/ Restart(p) \/ ReadFresh(p) \/ Replace(p)
      PROVE  UNCHANGED lockRest
  BY <1>3 DEF Load, Recover, Restart, ReadFresh, Replace
<1>4. ASSUME NEW p \in Procs, Locking(p) \/ EndSave(p) \/ Crash(p)
      PROVE  Acquire(p) \/ GiveUp(p) \/ Leave(p) \/ Die(p)
  BY <1>4 DEF Locking, EndSave, Crash
<1>5. ASSUME Spoil \/ \E s \in NewerOf : NewerSaves(s)
      PROVE  UNCHANGED lockRest
  BY <1>5 DEF Spoil, NewerSaves
<1> QED BY <1>1, <1>2, <1>3, <1>4, <1>5 DEF Next

LEMMA HolderStep == StoreTypes /\ HolderInv /\ [Next]_vars => HolderInv'
<1> SUFFICES ASSUME StoreTypes, HolderInv, [Next]_vars, mishaps' = {} PROVE HolderInv'
  BY DEF HolderInv
<1>t. at \in [Procs -> LockSteps] /\ NoLock \notin Procs
  BY FileLockAssumption DEF StoreTypes, LockTypes, LockTypeOK
<1> USE <1>t DEF HolderInv, Reach
<1>1. CASE UNCHANGED lockRest
  BY <1>1 DEF lockRest
<1>2. CASE Age
  BY <1>2 DEF Age, Inside
<1>3. ASSUME NEW p \in Procs, Enter(p) PROVE HolderInv'
  BY <1>3 DEF Enter
<1>4. ASSUME NEW p \in Procs, Acquire(p) PROVE HolderInv'
  <2>1. CASE Create(p)
    <3>1. mishaps = {} /\ \A q \in Procs \ {p} : at[q] # "remove"
      BY <2>1 DEF Create
    <3>2. \A q \in Procs : at[q] # "inside" /\ at[q] # "remove"
      BY <2>1, <3>1 DEF Create
    <3>3. lock' = p /\ ~isStale' /\ (at' = [at EXCEPT ![p] = "inside"] \/ at' = [at EXCEPT ![p] = "failed"])
      BY <2>1 DEF Create
    <3> QED BY <3>2, <3>3
  <2>2. CASE FindTaken(p) \/ FindBeingDeleted(p) \/ TimeOut(p) \/ Refused(p)
    BY <2>2 DEF FindTaken, FindBeingDeleted, TimeOut, Refused, NextAttempt
  <2>3. CASE Judge(p)
    BY <2>3 DEF Judge, NextAttempt
  <2>4. CASE Remove(p)
    BY <2>4 DEF Remove, Unlinked, NextAttempt
  <2> QED BY <1>4, <2>1, <2>2, <2>3, <2>4 DEF Acquire
<1>5. ASSUME NEW p \in Procs, Leave(p) PROVE HolderInv'
  <2>1. mishaps = {} /\ at[p] = "inside" /\ at' = [at EXCEPT ![p] = "outside"]
    BY <1>5 DEF Leave
  <2>2. \A q \in Procs : at'[q] # "inside" /\ at'[q] # "remove"
    BY <2>1
  <2> QED BY <2>2
<1>6. ASSUME NEW p \in Procs, GiveUp(p) \/ Die(p) PROVE HolderInv'
  BY <1>6 DEF GiveUp, Die
<1> QED BY <1>1, <1>2, <1>3, <1>4, <1>5, <1>6, LockMoves

\* Two processes are never in the section at once, unless one removed a lock
\* it had judged and another one had created since, or a holder slept in the
\* section until its lock was old (file-lock.ts:7-8).
THEOREM OnlyOneHolder == Spec => []OneHolder
<1>1. Init => HolderInv
  BY DEF Init, LockInit, HolderInv
<1>2. HolderInv => OneHolder
  BY DEF HolderInv, OneHolder, Inside
<1> QED BY TypesInit, TypesStep, HolderStep, <1>1, <1>2, PTL DEF Spec

-----------------------------------------------------------------------------
(* What was saved.                                                         *)

\* While a save is about to replace the file, the document it has read is a
\* settings document whose section is not a newer gup's; it is the file's,
\* if the file is one, and the file was not spoilt under it.
FreshInv ==
  \A p \in Procs : job[p].step = "replace" =>
    /\ job[p].fresh.kind = "document"
    /\ job[p].section \notin job[p].fresh.newer
    /\ "spoilt" \notin moves => disk.kind # "corrupt"
    /\ mishaps = {} /\ (disk.kind = "document" \/ moves \subseteq {"replaced"}) =>
         job[p].fresh.sections = disk.sections /\ job[p].fresh.newer = disk.newer

\* A file spoilt holds nothing; another one holds what was saved.
SavedInv ==
  /\ saved \in Documents
  /\ disk.kind = "corrupt" => disk = Corrupt
  /\ mishaps = {} /\ moves \subseteq {"replaced"} =>
       disk.sections = saved.sections /\ disk.newer = saved.newer

\* withSection: it replaces the section of a document, and nothing else.
LEMMA ChangedFields ==
  ASSUME NEW d \in Documents, NEW j \in Jobs, j.section \in Sections, j.edit \in Edits
  PROVE  /\ Changed(d, j) \in Documents
         /\ Changed(d, j).kind = d.kind
         /\ Changed(d, j).newer = d.newer
         /\ Changed(d, j).sections =
              [d.sections EXCEPT ![j.section] = Computed(j.section, j.edit, d.sections[j.section])]
<1> DEFINE value == Computed(j.section, j.edit, d.sections[j.section])
<1>1. Changed(d, j) = [d EXCEPT !.sections = [@ EXCEPT ![j.section] = value]]
  BY DEF Changed, Documents
<1> HIDE DEF value
<1>2. /\ Changed(d, j).kind = d.kind /\ Changed(d, j).newer = d.newer
      /\ Changed(d, j).sections = [d.sections EXCEPT ![j.section] = value]
  BY <1>1 DEF Documents
<1> QED BY <1>2, ChangedTypes DEF value

\* The actions but those of a save that reads or writes leave disk, the
\* history of the file and the saves about to replace it as they are; or end
\* one of those saves.
LEMMA OtherSteps ==
  ASSUME StoreTypes, NEW p \in Procs,
         Load(p) \/ Restart(p) \/ Locking(p) \/ EndSave(p) \/ Crash(p) \/ \E s \in Sections : Save(p, s)
  PROVE  /\ UNCHANGED files
         /\ \A q \in Procs : job'[q].step = "replace" => job'[q] = job[q]
         /\ mishaps' = {} => mishaps = {}
<1> USE DEF StoreTypes, Jobs
<1>1. CASE Load(p)
  BY <1>1 DEF Load, Proceed, lockRest
<1>2. CASE Restart(p)
  BY <1>2 DEF Restart, lockRest
<1>3. CASE Locking(p)
  <2>1. UNCHANGED files /\ (job' = job \/ job' = [job EXCEPT ![p] = NoJob])
    BY <1>3 DEF Locking
  <2>2. mishaps' = {} => mishaps = {}
    BY <1>3 DEF Locking, Acquire, Create, FindTaken, FindBeingDeleted, Judge, Remove, TimeOut, Refused, GiveUp
  <2> QED BY <2>1, <2>2 DEF NoJob
<1>4. CASE EndSave(p) \/ Crash(p)
  BY <1>4 DEF EndSave, Crash, Leave, Die, NoJob
<1>5. ASSUME NEW s \in Sections, Save(p, s)
      PROVE  /\ UNCHANGED files
             /\ \A q \in Procs : job'[q].step = "replace" => job'[q] = job[q]
             /\ mishaps' = {} => mishaps = {}
  BY <1>5 DEF Save, Enter, lockVars
<1> QED BY <1>1, <1>2, <1>3, <1>4, <1>5

\* The step of Recover: what it does to the file and to the history.
LEMMA RecoverStep ==
  ASSUME StoreTypes, NEW p \in Procs, Recover(p)
  PROVE  /\ \/ UNCHANGED <<disk, backups, moves>>
            \/ /\ disk.kind # "missing" /\ disk' = Missing
               /\ backups' \in Kept(Content)
               /\ moves' = moves \cup (IF disk.kind = "document" THEN {"stolen"} ELSE {})
                                 \cup (IF backups \subseteq backups' THEN {} ELSE {"replaced"})
         /\ UNCHANGED <<saved, spoils, mishaps>>
         /\ \A q \in Procs : job'[q].step = "replace" => job'[q] = job[q]
<1>1. job' = [job EXCEPT ![p].step = "none"]
  BY DEF Recover, Proceed
<1>2. \A q \in Procs : job'[q].step = "replace" => job'[q] = job[q]
  BY <1>1 DEF StoreTypes, Jobs
<1> QED BY <1>2 DEF Recover, lockRest, counts

\* The step of ReadFresh: a save gets ready to replace the file, or fails.
LEMMA ReadFreshStep ==
  ASSUME StoreTypes, NEW p \in Procs, ReadFresh(p)
  PROVE  /\ UNCHANGED <<disk, backups, moves, saved, spoils, mishaps>>
         /\ \A q \in Procs : job'[q].step = "replace" =>
              \/ job'[q] = job[q]
              \/ /\ Accepts(job'[q].section)
                 /\ job'[q].fresh = [disk EXCEPT !.kind = "document"]
<1>1. UNCHANGED <<disk, backups, moves, saved, spoils, mishaps>>
  BY DEF ReadFresh, lockRest, files, counts
<1>2. CASE Finish(p, "fail")
  BY <1>1, <1>2 DEF Finish, StoreTypes, Jobs, NoJob
<1>3. CASE /\ Accepts(job[p].section)
           /\ job' = [job EXCEPT ![p].step = "replace", ![p].fresh = [disk EXCEPT !.kind = "document"]]
  <2>1. job'[p].section = job[p].section /\ job'[p].fresh = [disk EXCEPT !.kind = "document"]
        /\ \A q \in Procs \ {p} : job'[q] = job[q]
    BY <1>3 DEF StoreTypes, Jobs
  <2> QED BY <1>1, <1>3, <2>1
<1> QED BY <1>2, <1>3 DEF ReadFresh

\* The step of Replace: the save ends, and it alone if the lock held; it has
\* changed its section, or nothing.
LEMMA ReplaceStep ==
  ASSUME StoreTypes, HolderInv, NEW p \in Procs, Replace(p)
  PROVE  /\ UNCHANGED <<backups, moves, spoils, mishaps>>
         /\ job[p].step = "replace" /\ job[p] \in Jobs /\ job[p].fresh \in Documents
         /\ job[p].section \in Sections /\ job[p].edit \in Edits
         /\ \/ disk' = Changed(job[p].fresh, job[p]) /\ saved' = Changed(saved, job[p])
            \/ UNCHANGED <<disk, saved>>
         /\ \A q \in Procs : job'[q].step = "replace" => q # p /\ job'[q] = job[q]
         /\ mishaps = {} => \A q \in Procs : job'[q].step # "replace"
<1>1. job[p].step = "replace" /\ job[p] \in Jobs /\ job[p].fresh \in Documents
      /\ job[p].section \in Sections /\ job[p].edit \in Edits
  BY DEF Replace, StoreTypes, Jobs
<1>2. \A q \in Procs : job'[q].step = "replace" => q # p /\ job'[q] = job[q]
  BY DEF Replace, Finish, NoJob, StoreTypes, Jobs
<1>3. mishaps = {} => \A q \in Procs : job[q].step = "replace" => q = p
  BY <1>1 DEF StoreTypes, HolderInv
<1> QED BY <1>1, <1>2, <1>3 DEF Replace, lockRest, counts

\* What a save is about to write is what the file holds.
LEMMA FreshStep == StoreTypes /\ HolderInv /\ FreshInv /\ [Next]_vars => FreshInv'
<1> SUFFICES ASSUME StoreTypes, HolderInv, FreshInv, [Next]_vars PROVE FreshInv'
  OBVIOUS
<1>t. disk \in Documents /\ NoLock \notin Procs
      /\ \A p \in Procs : job[p].step = "replace" => p \in Inside
  BY FileLockAssumption DEF StoreTypes, Inside
<1> USE <1>t DEF FreshInv
<1>1. CASE UNCHANGED vars
  BY <1>1 DEF vars, lockVars, files
<1>2. ASSUME NEW p \in Procs, Load(p) \/ Restart(p) \/ Locking(p) \/ EndSave(p) \/ Crash(p)
                               \/ \E s \in Sections : Save(p, s)
      PROVE  FreshInv'
  BY <1>2, OtherSteps DEF files
<1>3. ASSUME NEW p \in Procs, Recover(p) PROVE FreshInv'
  <2>1. CASE UNCHANGED <<disk, backups, moves>>
    BY <1>3, <2>1, RecoverStep
  <2>2. CASE /\ disk.kind # "missing" /\ disk' = Missing
             /\ moves' = moves \cup (IF disk.kind = "document" THEN {"stolen"} ELSE {})
                               \cup (IF backups \subseteq backups' THEN {} ELSE {"replaced"})
    <3>1. disk'.kind = "missing"
      BY <2>2 DEF Missing, Empty
    <3>2. disk.kind = "corrupt" \/ "stolen" \in moves'
      BY <2>2 DEF Documents
    <3>3. moves \subseteq moves' /\ "spoilt" \in moves' => "spoilt" \in moves
      BY <2>2
    <3>4. moves' \subseteq {"replaced"} => \A q \in Procs : job'[q].step # "replace"
      <4>1. SUFFICES ASSUME moves' \subseteq {"replaced"}, NEW q \in Procs, job'[q].step = "replace" PROVE FALSE
        OBVIOUS
      <4>2. job[q].step = "replace" /\ disk.kind = "corrupt" /\ "spoilt" \notin moves
        BY <1>3, <3>2, <3>3, <4>1, RecoverStep
      <4> QED BY <4>2
    <3> QED BY <1>3, <3>1, <3>3, <3>4, RecoverStep
  <2> QED BY <1>3, <2>1, <2>2, RecoverStep
<1>4. ASSUME NEW p \in Procs, ReadFresh(p) PROVE FreshInv'
  <2>1. UNCHANGED <<disk, moves, mishaps>>
    BY <1>4, ReadFreshStep
  <2>2. ASSUME NEW q \in Procs, Accepts(job'[q].section), job'[q].fresh = [disk EXCEPT !.kind = "document"]
        PROVE  /\ job'[q].fresh.kind = "document" /\ disk.kind # "corrupt"
               /\ job'[q].section \notin job'[q].fresh.newer
               /\ job'[q].fresh.sections = disk.sections /\ job'[q].fresh.newer = disk.newer
    BY <2>2 DEF Accepts, Documents
  <2> QED BY <1>4, <2>1, <2>2, ReadFreshStep
<1>5. ASSUME NEW p \in Procs, Replace(p) PROVE FreshInv'
  <2>1. SUFFICES ASSUME NEW q \in Procs, job'[q].step = "replace"
                 PROVE  /\ job'[q].fresh.kind = "document"
                        /\ job'[q].section \notin job'[q].fresh.newer
                        /\ "spoilt" \notin moves' => disk'.kind # "corrupt"
                        /\ mishaps' # {}
    OBVIOUS
  <2>2. job[p].step = "replace" /\ job[q].step = "replace" /\ job'[q] = job[q]
        /\ UNCHANGED <<moves, mishaps>> /\ mishaps # {}
    BY <1>5, <2>1, ReplaceStep
  <2>3. CASE disk' = disk
    BY <2>2, <2>3
  <2>4. CASE disk' = Changed(job[p].fresh, job[p])
    <3>1. disk'.kind = job[p].fresh.kind
      BY <1>5, <2>4, ReplaceStep, ChangedFields
    <3> QED BY <2>2, <3>1
  <2> QED BY <1>5, <2>3, <2>4, ReplaceStep
<1>6. CASE Spoil
  <2>1. /\ UNCHANGED <<job, mishaps>> /\ disk' = Corrupt
        /\ moves' = IF Inside = {} THEN moves ELSE moves \cup {"spoilt"}
    BY <1>6 DEF Spoil, lockRest
  <2>2. disk'.kind = "corrupt"
    BY <2>1 DEF Corrupt, Empty
  <2> QED BY <2>1, <2>2
<1>7. ASSUME NEW s \in NewerOf, NewerSaves(s) PROVE FreshInv'
  <2>1. /\ UNCHANGED <<job, mishaps, moves>> /\ lock = NoLock
        /\ disk' = [disk EXCEPT !.kind = "document", !.newer = @ \cup {s}]
    BY <1>7 DEF NewerSaves, lockRest
  <2>2. disk'.kind = "document"
    BY <2>1 DEF Documents
  <2>3. mishaps = {} => \A q \in Procs : job[q].step # "replace"
    BY <2>1 DEF HolderInv, Inside
  <2> QED BY <2>1, <2>2, <2>3
<1>8. CASE Age /\ UNCHANGED <<files, store, job, counts>>
  BY <1>8 DEF Age, files
<1> QED BY <1>1, <1>2, <1>3, <1>4, <1>5, <1>6, <1>7, <1>8 DEF Next

\* The file holds what was saved.
LEMMA SavedStep == StoreTypes /\ HolderInv /\ FreshInv /\ SavedInv /\ [Next]_vars => SavedInv'
<1> SUFFICES ASSUME StoreTypes, HolderInv, FreshInv, SavedInv, [Next]_vars PROVE SavedInv'
  OBVIOUS
<1>t. disk \in Documents
  BY DEF StoreTypes
<1> USE <1>t DEF SavedInv
<1>1. CASE UNCHANGED vars
  BY <1>1 DEF vars, lockVars, files
<1>2. ASSUME NEW p \in Procs, Load(p) \/ Restart(p) \/ Locking(p) \/ EndSave(p) \/ Crash(p)
                               \/ \E s \in Sections : Save(p, s)
      PROVE  SavedInv'
  BY <1>2, OtherSteps DEF files
<1>3. ASSUME NEW p \in Procs, Recover(p) PROVE SavedInv'
  <2>1. CASE UNCHANGED <<disk, backups, moves>>
    BY <1>3, <2>1, RecoverStep
  <2>2. CASE /\ disk.kind # "missing" /\ disk' = Missing
             /\ moves' = moves \cup (IF disk.kind = "document" THEN {"stolen"} ELSE {})
                               \cup (IF backups \subseteq backups' THEN {} ELSE {"replaced"})
    <3>1. disk.kind = "corrupt" \/ "stolen" \in moves'
      BY <2>2 DEF Documents
    <3>2. disk.kind = "corrupt" => disk'.sections = disk.sections /\ disk'.newer = disk.newer
      BY <2>2 DEF Missing, Corrupt, Empty
    <3>3. disk'.kind = "missing" /\ moves \subseteq moves'
      BY <2>2 DEF Missing, Empty
    <3> QED BY <1>3, <3>1, <3>2, <3>3, RecoverStep
  <2> QED BY <1>3, <2>1, <2>2, RecoverStep
<1>4. ASSUME NEW p \in Procs, ReadFresh(p) PROVE SavedInv'
  BY <1>4, ReadFreshStep
<1>5. ASSUME NEW p \in Procs, Replace(p) PROVE SavedInv'
  <2>1. CASE UNCHANGED <<disk, saved>>
    BY <1>5, <2>1, ReplaceStep
  <2>2. CASE disk' = Changed(job[p].fresh, job[p]) /\ saved' = Changed(saved, job[p])
    <3>1. /\ saved' \in Documents
          /\ saved'.newer = saved.newer
          /\ saved'.sections = [saved.sections EXCEPT ![job[p].section] =
               Computed(job[p].section, job[p].edit, saved.sections[job[p].section])]
      BY <1>5, <2>2, ReplaceStep, ChangedFields
    <3>2. /\ disk'.kind = job[p].fresh.kind
          /\ disk'.newer = job[p].fresh.newer
          /\ disk'.sections = [job[p].fresh.sections EXCEPT ![job[p].section] =
               Computed(job[p].section, job[p].edit, job[p].fresh.sections[job[p].section])]
      BY <1>5, <2>2, ReplaceStep, ChangedFields
    <3>5. job[p].fresh.kind = "document"
      BY <1>5, ReplaceStep DEF FreshInv
    <3>3. mishaps = {} /\ moves \subseteq {"replaced"} =>
            job[p].fresh.sections = saved.sections /\ job[p].fresh.newer = saved.newer
      BY <1>5, ReplaceStep DEF FreshInv
    <3>4. UNCHANGED <<mishaps, moves>>
      BY <1>5, ReplaceStep
    <3> QED BY <3>1, <3>2, <3>3, <3>4, <3>5
  <2> QED BY <1>5, <2>1, <2>2, ReplaceStep
<1>6. CASE Spoil
  BY <1>6, EmptyDocuments DEF Spoil, Corrupt, Empty, lockRest
<1>7. ASSUME NEW s \in NewerOf, NewerSaves(s) PROVE SavedInv'
  <2>1. /\ UNCHANGED <<mishaps, moves>>
        /\ disk' = [disk EXCEPT !.kind = "document", !.newer = @ \cup {s}]
        /\ saved' = [saved EXCEPT !.newer = @ \cup {s}] /\ s \in Sections
    BY <1>7, StoreAssumption DEF NewerSaves, lockRest
  <2> QED BY <2>1 DEF Documents
<1>8. CASE Age /\ UNCHANGED <<files, store, job, counts>>
  BY <1>8 DEF Age, files
<1> QED BY <1>1, <1>2, <1>3, <1>4, <1>5, <1>6, <1>7, <1>8 DEF Next

\* The invariants of the saves hold from the start.
LEMMA SavesAlways == Spec => [](StoreTypes /\ HolderInv /\ FreshInv /\ SavedInv)
<1>1. Init => HolderInv
  BY DEF Init, LockInit, HolderInv
<1>2. ASSUME Init PROVE FreshInv /\ SavedInv
  <2>0. /\ Missing.kind = "missing" /\ Missing.sections = Empty.sections /\ Missing.newer = Empty.newer
        /\ Empty.kind = "document"
    BY DEF Missing, Empty
  <2>1. disk.kind # "corrupt" /\ disk.sections = Empty.sections /\ disk.newer = Empty.newer
    BY <1>2, <2>0 DEF Init
  <2>2. \A p \in Procs : job[p].step = "none"
    BY <1>2 DEF Init, NoJob
  <2> QED BY <1>2, <2>1, <2>2, EmptyDocuments DEF Init, FreshInv, SavedInv
<1> QED BY TypesInit, TypesStep, HolderStep, FreshStep, SavedStep, <1>1, <1>2, PTL DEF Spec

\* Whatever the processes, their saves, deaths and refusals of the disk: what
\* was saved is in the file, as long as the lock held and nobody wrote the
\* file over or moved a good one aside (store.ts:32-35).
THEOREM EverySaveIsThere == Spec => []FileHoldsEverySave
<1>1. SavedInv => FileHoldsEverySave
  BY DEF SavedInv, FileHoldsEverySave
<1> QED BY SavesAlways, <1>1, PTL

\* A step keeps each newer section that the file has.
LEMMA NewerStep ==
  ASSUME StoreTypes, HolderInv, FreshInv, [Next]_vars,
         NEW s \in disk.newer, mishaps = {}, disk.kind = "document", disk'.kind = "document"
  PROVE  s \in disk'.newer /\ disk'.sections[s] = disk.sections[s]
<1>t. disk \in Documents /\ s \in Sections
  BY DEF StoreTypes, Documents
<1>1. CASE UNCHANGED vars
  BY <1>1 DEF vars, files
<1>2. ASSUME NEW p \in Procs, Load(p) \/ Restart(p) \/ Locking(p) \/ EndSave(p) \/ Crash(p)
                               \/ (\E z \in Sections : Save(p, z)) \/ ReadFresh(p)
      PROVE  disk' = disk
  BY <1>2, OtherSteps, ReadFreshStep DEF files
<1>3. ASSUME NEW p \in Procs, Recover(p) PROVE disk' = disk
  BY <1>3, RecoverStep DEF Missing, Empty
<1>4. ASSUME NEW p \in Procs, Replace(p)
      PROVE  s \in disk'.newer /\ disk'.sections[s] = disk.sections[s]
  <2>1. CASE disk' = disk
    BY <2>1
  <2>2. CASE disk' = Changed(job[p].fresh, job[p])
    <3>1. /\ disk'.newer = job[p].fresh.newer
          /\ disk'.sections = [job[p].fresh.sections EXCEPT ![job[p].section] =
               Computed(job[p].section, job[p].edit, job[p].fresh.sections[job[p].section])]
      BY <1>4, <2>2, ReplaceStep, ChangedFields
    <3>2. /\ job[p].fresh.sections = disk.sections /\ job[p].fresh.newer = disk.newer
          /\ job[p].section # s
      BY <1>4, ReplaceStep DEF FreshInv
    <3> QED BY <1>t, <3>1, <3>2 DEF Documents
  <2> QED BY <1>4, <2>1, <2>2, ReplaceStep
<1>5. CASE Spoil
  BY <1>5 DEF Spoil, Corrupt, Empty
<1>6. ASSUME NEW z \in NewerOf, NewerSaves(z)
      PROVE  s \in disk'.newer /\ disk'.sections[s] = disk.sections[s]
  BY <1>6, <1>t DEF NewerSaves, Documents
<1>7. CASE Age /\ UNCHANGED <<files, store, job, counts>>
  BY <1>7 DEF files
<1> QED BY <1>1, <1>2, <1>3, <1>4, <1>5, <1>6, <1>7 DEF Next

\* A section that a newer gup wrote stays as it is, be it newer since this
\* process loaded the file (store.ts:57).
THEOREM NewerSectionsAreKept == Spec => NewerSectionsStay
<1>1. StoreTypes /\ HolderInv /\ FreshInv /\ [Next]_vars =>
        [\A s \in disk.newer :
           mishaps = {} /\ disk.kind = "document" /\ disk'.kind = "document" =>
           s \in disk'.newer /\ disk'.sections[s] = disk.sections[s]]_vars
  BY NewerStep
<1> QED BY SavesAlways, <1>1, PTL DEF Spec, NewerSectionsStay

\* A step loses no spoilt file.
LEMMA SpoiltStep ==
  StoreTypes /\ HolderInv /\ FreshInv /\ SpoiltFilesAreKept /\ [Next]_vars => SpoiltFilesAreKept'
<1> SUFFICES ASSUME StoreTypes, HolderInv, FreshInv, SpoiltFilesAreKept, [Next]_vars,
                    moves' \cap {"replaced", "spoilt"} = {}
             PROVE  1..spoils' \subseteq backups' \cup (IF disk'.kind = "corrupt" THEN {spoils'} ELSE {})
  BY DEF SpoiltFilesAreKept
<1>t. disk \in Documents /\ spoils \in Nat
  BY FileLockAssumption DEF StoreTypes, LockTypes, LockTypeOK
<1> USE <1>t DEF SpoiltFilesAreKept
<1>1. CASE UNCHANGED vars
  BY <1>1 DEF vars, files, counts
<1>2. ASSUME NEW p \in Procs, Load(p) \/ Restart(p) \/ Locking(p) \/ EndSave(p) \/ Crash(p)
                               \/ (\E z \in Sections : Save(p, z)) \/ ReadFresh(p)
      PROVE  UNCHANGED <<files, spoils>>
  BY <1>2, OtherSteps DEF Load, Restart, Locking, EndSave, Crash, Save, ReadFresh, files, counts
<1>3. ASSUME NEW p \in Procs, Recover(p)
      PROVE  1..spoils' \subseteq backups' \cup (IF disk'.kind = "corrupt" THEN {spoils'} ELSE {})
  <2>1. CASE UNCHANGED <<disk, backups, moves>>
    BY <1>3, <2>1, RecoverStep
  <2>2. CASE /\ disk.kind # "missing" /\ disk' = Missing /\ backups' \in Kept(Content)
             /\ moves' = moves \cup (IF disk.kind = "document" THEN {"stolen"} ELSE {})
                               \cup (IF backups \subseteq backups' THEN {} ELSE {"replaced"})
    <3>1. backups \subseteq backups' /\ moves \cap {"replaced", "spoilt"} = {}
      BY <2>2
    <3>2. Content \in backups'
      BY <2>2 DEF Kept
    <3>3. disk.kind = "corrupt" => spoils \in backups'
      BY <3>2 DEF Content
    <3> QED BY <1>3, <3>1, <3>3, RecoverStep
  <2> QED BY <1>3, <2>1, <2>2, RecoverStep
<1>4. ASSUME NEW p \in Procs, Replace(p)
      PROVE  1..spoils' \subseteq backups' \cup (IF disk'.kind = "corrupt" THEN {spoils'} ELSE {})
  <2>1. UNCHANGED <<backups, moves, spoils>> /\ job[p].step = "replace"
    BY <1>4, ReplaceStep
  <2>2. disk.kind # "corrupt"
    BY <2>1 DEF FreshInv
  <2> QED BY <2>1, <2>2
<1>5. CASE Spoil
  <2>1. /\ spoils' = spoils + 1 /\ UNCHANGED backups /\ disk.kind # "corrupt"
        /\ disk'.kind = "corrupt" /\ moves \subseteq moves'
    BY <1>5 DEF Spoil, Corrupt, Empty
  <2>2. 1..spoils \subseteq backups
    BY <2>1
  <2> QED BY <2>1, <2>2
<1>6. ASSUME NEW z \in NewerOf, NewerSaves(z)
      PROVE  1..spoils' \subseteq backups' \cup (IF disk'.kind = "corrupt" THEN {spoils'} ELSE {})
  <2>1. UNCHANGED <<backups, moves, spoils>> /\ disk.kind # "corrupt"
    BY <1>6 DEF NewerSaves, counts
  <2> QED BY <2>1
<1>7. CASE Age /\ UNCHANGED <<files, store, job, counts>>
  BY <1>7 DEF files, counts
<1> QED BY <1>1, <1>2, <1>3, <1>4, <1>5, <1>6, <1>7 DEF Next, files

\* A file that was spoilt is never written over: it is in its place, or
\* aside, unless a second move took its name within the same second or it was
\* spoilt during a save (store.ts:232-233).
THEOREM SpoiltFilesStay == Spec => []SpoiltFilesAreKept
<1>1. Init => SpoiltFilesAreKept
  BY DEF Init, SpoiltFilesAreKept
<1> QED BY SavesAlways, SpoiltStep, <1>1, PTL DEF Spec
-----------------------------------------------------------------------------
(* What the lock and the store promise.                                    *)

\* The abstract lock, who is in the section being its holders; and the
\* abstract file.
Mutex  == INSTANCE BatchMutex WITH holders <- Inside
Atomic == INSTANCE AtomicStore WITH document <- disk

\* While the lock was not taken from a process that held it, each step lets
\* one process in, lets the one that is in out, or does neither.
LEMMA LockStep ==
  StoreTypes /\ HolderInv /\ (mishaps = {})' /\ [Next]_vars => [Mutex!Next]_Inside
<1> SUFFICES ASSUME StoreTypes, HolderInv, mishaps' = {}, [Next]_vars, Inside' # Inside PROVE Mutex!Next
  OBVIOUS
<1>t. at \in [Procs -> LockSteps]
  BY DEF StoreTypes, LockTypes, LockTypeOK
<1>1. ASSUME NEW p \in Procs, NEW step, step # "inside", Reach(p, step) PROVE Mutex!Next
  <2>1. Inside' = Inside \ {p}
    BY <1>t, <1>1 DEF Reach, Inside
  <2>2. p \in Inside
    BY <2>1
  <2> QED BY <2>1, <2>2 DEF Mutex!Next, Mutex!Leave
<1>2. ASSUME NEW p \in Procs, Create(p), Reach(p, "inside") PROVE Mutex!Next
  <2>1. mishaps = {} /\ lock = NoLock
    BY <1>2 DEF Create
  <2>2. Inside = {}
    BY <2>1, FileLockAssumption DEF HolderInv, Inside
  <2>3. Inside' = {p}
    BY <1>t, <1>2, <2>2 DEF Reach, Inside
  <2> QED BY <2>2, <2>3 DEF Mutex!Next, Mutex!Take
<1>3. ASSUME NEW p \in Procs, Acquire(p) PROVE Mutex!Next
  <2>1. CASE Create(p)
    BY <1>1, <1>2, <2>1 DEF Create
  <2>2. CASE ~Create(p)
    BY <1>1, <1>3, <2>2 DEF Acquire, FindTaken, FindBeingDeleted, Judge, Remove, TimeOut, Refused, NextAttempt
  <2> QED BY <2>1, <2>2
<1>4. ASSUME NEW p \in Procs, Enter(p) \/ Leave(p) \/ GiveUp(p) \/ Die(p) PROVE Mutex!Next
  BY <1>1, <1>4 DEF Enter, Leave, GiveUp, Die
<1>5. ~(Age \/ UNCHANGED lockRest)
  BY DEF Age, lockRest, Inside
<1> QED BY <1>3, <1>4, <1>5, LockMoves

\* file-lock.ts, in spite of the timeouts, of the disk's refusals and of the
\* holders that die with the lock: it is a mutex, and the death of a holder
\* frees the section, as long as the age of the lock file told the truth
\* (file-lock.ts:7-8, 39-106).
THEOREM LockAsPromised == Spec /\ [](mishaps = {}) => Mutex!Spec
<1>1. Init => Mutex!Init
  BY DEF Init, LockInit, Mutex!Init, Inside
<1> QED BY SavesAlways, LockStep, <1>1, PTL DEF Spec, Mutex!Spec

\* While the lock held, and nobody took a good file for a corrupt one or
\* wrote over it during a save, each step is a save of one section of what
\* the file holds then, or one of the other steps of the abstract file.
LEMMA AtomicStep ==
  ASSUME StoreTypes, HolderInv, FreshInv, SavedInv, [Next]_vars,
         mishaps = {}, moves \subseteq {"replaced"}, moves' \subseteq {"replaced"}
  PROVE  [Atomic!Next]_disk
<1>t. disk \in Documents
  BY DEF StoreTypes
<1>b. /\ Atomic!Blank("missing") = Missing /\ Atomic!Blank("document") = Empty
      /\ Atomic!Blank("corrupt") = Corrupt
  <2> DEFINE none == [s \in Sections |-> {}]
  <2>1. /\ Empty = [kind |-> "document", sections |-> none, newer |-> {}]
        /\ \A kind : Atomic!Blank(kind) = [kind |-> kind, sections |-> none, newer |-> {}]
    BY DEF Empty, Atomic!Blank
  <2> HIDE DEF none
  <2> QED BY <2>1 DEF Missing, Corrupt
<1>1. CASE UNCHANGED vars
  BY <1>1 DEF vars, files
<1>2. ASSUME NEW p \in Procs, Load(p) \/ Restart(p) \/ Locking(p) \/ EndSave(p) \/ Crash(p)
                               \/ (\E z \in Sections : Save(p, z)) \/ ReadFresh(p)
      PROVE  disk' = disk
  BY <1>2, OtherSteps, ReadFreshStep DEF files
<1>3. ASSUME NEW p \in Procs, Recover(p) PROVE [Atomic!Next]_disk
  <2>1. CASE disk' = disk
    BY <2>1
  <2>2. CASE /\ disk.kind # "missing" /\ disk' = Missing
             /\ moves' = moves \cup (IF disk.kind = "document" THEN {"stolen"} ELSE {})
                               \cup (IF backups \subseteq backups' THEN {} ELSE {"replaced"})
    <3>1. disk.kind # "document"
      BY <2>2
    <3>2. disk.kind = "corrupt"
      BY <1>t, <2>2, <3>1 DEF Documents
    <3> QED BY <1>b, <2>2, <3>2 DEF Atomic!Next, Atomic!SetAside
  <2> QED BY <1>3, <2>1, <2>2, RecoverStep
<1>4. ASSUME NEW p \in Procs, Replace(p) PROVE [Atomic!Next]_disk
  <2>1. CASE disk' = disk
    BY <2>1
  <2>2. CASE disk' = Changed(job[p].fresh, job[p])
    <3> DEFINE j == job[p]
    <3>1. /\ j \in Jobs /\ j.fresh \in Documents /\ j.section \in Sections /\ j.edit \in Edits
          /\ j.step = "replace"
      BY <1>4, ReplaceStep
    <3>2. /\ j.fresh.kind = "document" /\ j.section \notin j.fresh.newer
          /\ disk.kind # "corrupt"
          /\ j.fresh.sections = disk.sections /\ j.fresh.newer = disk.newer
      BY <3>1 DEF FreshInv
    <3> DEFINE value == Computed(j.section, j.edit, disk.sections[j.section])
    <3>3. /\ disk' \in Documents /\ disk'.kind = "document" /\ disk'.newer = disk.newer
          /\ disk'.sections = [disk.sections EXCEPT ![j.section] = value]
      BY <2>2, <3>1, <3>2, ChangedFields
    <3>4. \A f : [disk EXCEPT !.kind = "document", !.sections = f]
                   = [kind |-> "document", sections |-> f, newer |-> disk.newer]
      <4>1. TAKE f
      <4> DEFINE d == [disk EXCEPT !.kind = "document", !.sections = f]
      <4>2. /\ DOMAIN d = {"kind", "sections", "newer"}
            /\ d["kind"] = "document" /\ d["sections"] = f /\ d["newer"] = disk["newer"]
            /\ d = [x \in DOMAIN d |-> d[x]]
        BY <1>t DEF Documents
      <4> HIDE DEF d
      <4>3. d = [kind |-> "document", sections |-> f, newer |-> disk.newer]
        BY <4>2
      <4> QED BY <4>3 DEF d
    <3>5. disk' = [disk EXCEPT !.kind = "document",
                     !.sections = [disk.sections EXCEPT ![j.section] = value]]
      <4> HIDE DEF value
      <4> QED BY <3>3, <3>4 DEF Documents
    <3>6. Atomic!Save(j.section, j.edit)
      BY <1>t, <3>2, <3>5 DEF Atomic!Save, Computed, Documents
    <3> QED BY <3>1, <3>6 DEF Atomic!Next
  <2> QED BY <1>4, <2>1, <2>2, ReplaceStep
<1>5. CASE Spoil
  BY <1>5, <1>b DEF Spoil, Atomic!Next, Atomic!Spoil
<1>6. ASSUME NEW z \in NewerOf, NewerSaves(z) PROVE Atomic!Next
  BY <1>6 DEF NewerSaves, Atomic!Next, Atomic!NewerSaves
<1>7. CASE Age /\ UNCHANGED <<files, store, job, counts>>
  BY <1>7 DEF files
<1> QED BY <1>1, <1>2, <1>3, <1>4, <1>5, <1>6, <1>7 DEF Next

\* store.ts, its reads and its writes being so many calls of so many
\* processes: each save is one atomic change of its section in the file, and
\* touches nothing else of it, as long as the lock held and nobody moved a
\* good file aside or wrote over it during a save (store.ts:32-35, 57).
THEOREM SavesAreAtomic == Spec /\ [](mishaps = {} /\ moves \subseteq {"replaced"}) => Atomic!Spec
<1>1. Init => Atomic!Init
  BY DEF Init, Atomic!Init, Atomic!Blank, Missing, Empty
<1>2. ASSUME StoreTypes, HolderInv, FreshInv, SavedInv, [Next]_vars,
             mishaps = {} /\ moves \subseteq {"replaced"}, (mishaps = {} /\ moves \subseteq {"replaced"})'
      PROVE  [Atomic!Next]_disk
  BY <1>2, AtomicStep
<1> QED BY SavesAlways, <1>1, <1>2, PTL DEF Spec, Atomic!Spec
=============================================================================
