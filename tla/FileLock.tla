------------------------------ MODULE FileLock ------------------------------
(***************************************************************************)
(* The short exclusive section on a shared file, core/state/file-lock.ts:  *)
(* its holder is who created <file>.lock.  A lock file ten seconds old is  *)
(* taken for a dead holder's and removed; a younger one is waited for, a   *)
(* bounded number of times.  Every call on the lock file is a step of its  *)
(* own, for other processes act in between.                                *)
(*                                                                         *)
(* The module is one part of a system: what runs inside the section, and   *)
(* the specification, are in the module that extends it (ConfigStore).     *)
(* An operator whose name ends in _Bug has a defect the code does not      *)
(* have.                                                                   *)
(***************************************************************************)
EXTENDS Naturals

CONSTANTS
  Procs,        \* processes that share the file
  NoLock,       \* no lock file
  MaxAttempts,  \* MAX_ATTEMPTS
  IsWindows,    \* a file being deleted refuses to be opened
  MaxFaults     \* bound: the things that go wrong, all together

ASSUME FileLockAssumption ==
  /\ NoLock \notin Procs
  /\ {MaxAttempts, MaxFaults} \subseteq Nat
  /\ IsWindows \in BOOLEAN

VARIABLES
  lock,      \* who created the lock file that is there, or NoLock
  isStale,   \* that file is LOCK_STALE_MS old
  at,        \* where each process is in withFileLock
  attempts,  \* its turns of the loop of acquire
  faults,    \* what went wrong so far: calls refused, sleeps, deaths...
  mishaps    \* history: how the lock was taken from a process that held it

lockVars == <<lock, isStale, at, attempts, faults, mishaps>>

Reach(p, step) == at' = [at EXCEPT ![p] = step]

\* The loop's counter starts at 0 for each acquire.
Reset(p) == attempts' = [attempts EXCEPT ![p] = 0]

LockInit ==
  /\ lock = NoLock
  /\ isStale = FALSE
  /\ at = [p \in Procs |-> "outside"]
  /\ attempts = [p \in Procs |-> 0]
  /\ faults = 0
  /\ mishaps = {}

\* One more thing goes wrong.
Fault == faults < MaxFaults /\ faults' = faults + 1
Fine  == UNCHANGED faults

Inside == {p \in Procs : at[p] = "inside"}

-----------------------------------------------------------------------------

\* withFileLock is called.
Enter(p) ==
  /\ at[p] = "outside"
  /\ Reach(p, "create")
  /\ UNCHANGED <<lock, isStale, attempts, faults, mishaps>>

\* tryCreate: the lock file is this process's.  The pid it writes there may
\* fail: the section is not entered, and the file stays.
Create(p) ==
  /\ at[p] = "create"
  /\ attempts[p] < MaxAttempts
  /\ lock = NoLock
  /\ lock' = p
  /\ isStale' = FALSE
  /\ \/ Reach(p, "inside") /\ Fine
     \/ Reach(p, "failed") /\ Fault
  /\ mishaps' = IF \E q \in Procs \ {p} : at[q] = "remove"
                THEN mishaps \cup {"takeover"} ELSE mishaps
  /\ Reset(p)

\* One attempt too many.
FindTaken_Bug(p) ==
  /\ at[p] = "create"
  /\ lock # NoLock
  /\ Reach(p, "judge")
  /\ UNCHANGED <<lock, isStale, attempts, faults, mishaps>>

\* EEXIST.
FindTaken(p) ==
  /\ at[p] = "create"
  /\ attempts[p] < MaxAttempts
  /\ lock # NoLock
  /\ Reach(p, "judge")
  /\ UNCHANGED <<lock, isStale, attempts, faults, mishaps>>

\* The next turn of the loop, after a pause or at once.
NextAttempt(p) ==
  /\ Reach(p, "create")
  /\ attempts' = [attempts EXCEPT ![p] = @ + 1]

\* EPERM on Windows: waited for like a held lock.
FindBeingDeleted(p) ==
  /\ at[p] = "create"
  /\ attempts[p] < MaxAttempts
  /\ IsWindows
  /\ NextAttempt(p)
  /\ UNCHANGED <<lock, isStale, faults, mishaps>>

\* Whatever its age, the lock is a dead holder's.
Judge_Bug(p) ==
  /\ at[p] = "judge"
  /\ \/ lock # NoLock /\ Reach(p, "remove") /\ UNCHANGED attempts
     \/ lock = NoLock /\ NextAttempt(p)
  /\ UNCHANGED <<lock, isStale, faults, mishaps>>

\* removeIfStale, the stat: gone, or too young to be removed.
Judge(p) ==
  /\ at[p] = "judge"
  /\ \/ lock # NoLock /\ isStale /\ Reach(p, "remove") /\ UNCHANGED attempts
     \/ (lock = NoLock \/ ~isStale) /\ NextAttempt(p)
  /\ UNCHANGED <<lock, isStale, faults, mishaps>>

\* The lock file, whoever's it is, is unlinked; or the disk refuses.
Unlinked ==
  \/ lock' = NoLock /\ isStale' = FALSE /\ Fine
  \/ UNCHANGED <<lock, isStale>> /\ Fault

\* removeIfStale, the unlink: by name, so whatever lock is there by now.
Remove(p) ==
  /\ at[p] = "remove"
  /\ Unlinked
  /\ NextAttempt(p)
  /\ UNCHANGED mishaps

\* FileLockTimeoutError, or the EPERM that lasted.
TimeOut(p) ==
  /\ at[p] = "create"
  /\ attempts[p] = MaxAttempts
  /\ Reach(p, "failed")
  /\ Reset(p)
  /\ UNCHANGED <<lock, isStale, faults, mishaps>>

\* Any other refusal of the disk reaches the caller at once.
Refused(p) ==
  /\ at[p] = "create"
  /\ attempts[p] < MaxAttempts
  /\ Fault
  /\ Reach(p, "failed")
  /\ Reset(p)
  /\ UNCHANGED <<lock, isStale, mishaps>>

\* release, after the work or its exception: by name again.
Leave(p) ==
  /\ at[p] = "inside"
  /\ Unlinked
  /\ Reach(p, "outside")
  /\ UNCHANGED <<attempts, mishaps>>

\* The exception of acquire reaches the caller.
GiveUp(p) ==
  /\ at[p] = "failed"
  /\ Reach(p, "outside")
  /\ UNCHANGED <<lock, isStale, attempts, faults, mishaps>>

\* Ten seconds pass (external).  A holder's section lasts milliseconds: it
\* is overrun only if it slept through them.
Age ==
  /\ lock # NoLock
  /\ ~isStale
  /\ isStale' = TRUE
  /\ \/ lock \notin Inside /\ Fine /\ UNCHANGED mishaps
     \/ lock \in Inside /\ Fault /\ mishaps' = mishaps \cup {"overrun"}
  /\ UNCHANGED <<lock, at, attempts>>

\* Killed at any point: the lock file stays.
Die(p) ==
  /\ Fault
  /\ Reach(p, "outside")
  /\ Reset(p)
  /\ UNCHANGED <<lock, isStale, mishaps>>

Acquire(p) ==
  \/ Create(p) \/ FindTaken(p) \/ FindBeingDeleted(p) \/ Judge(p) \/ Remove(p)
  \/ TimeOut(p) \/ Refused(p)

-----------------------------------------------------------------------------

LockSteps == {"outside", "create", "judge", "remove", "inside", "failed"}

LockTypeOK ==
  /\ lock \in Procs \cup {NoLock}
  /\ isStale \in BOOLEAN
  /\ at \in [Procs -> LockSteps]
  /\ attempts \in [Procs -> 0..MaxAttempts]
  /\ faults \in 0..MaxFaults
  /\ mishaps \subseteq {"takeover", "overrun"}

\* "Only one process can hold it" (file-lock.ts:7-8), except in the two ways
\* the age of a file cannot rule out: a process removes the lock that another
\* one created after it judged the former lock stale, and a holder that slept
\* in its section finds it taken over.
OneHolder == mishaps = {} => \A p, q \in Inside : p = q
=============================================================================
