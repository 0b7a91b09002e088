----------------------------- MODULE BatchLock ------------------------------
(***************************************************************************)
(* The update batch lock of core/update/batch-lock.ts: a listening         *)
(* endpoint its holder keeps open.  On Windows it is a named pipe, which   *)
(* the system creates and frees in one step.  On POSIX it is a unix        *)
(* socket: a file with a name, bound and then listened on in two system    *)
(* calls, that outlives a crashed holder and that anybody may unlink.      *)
(*                                                                         *)
(* A process is one gup run with one batch.  The file systems and the      *)
(* kernel's rules for bind, listen, connect and close are external; they   *)
(* are modelled from the calls the module makes.                           *)
(*                                                                         *)
(* An operator whose name ends in _Bug is a variant with a defect the code *)
(* does not have: no specification uses it; it shows that a property       *)
(* would catch the defect.                                                 *)
(***************************************************************************)
EXTENDS Naturals

CONSTANTS
  Procs,       \* gup processes of one user
  Scheduled,   \* the ones a schedule started: they never wait for the batch
  IsWindows,   \* named pipe (TRUE) or unix socket (FALSE)
  MaxCrashes,  \* bound: how many times a process dies at any point
  NoOne        \* no file at the endpoint; no display file

ASSUME LockAssumption ==
  /\ Scheduled \subseteq Procs
  /\ IsWindows \in BOOLEAN
  /\ MaxCrashes \in Nat
  /\ NoOne \notin Procs

VARIABLES
  pc,        \* where each process is in tryAcquire, the batch and release
  server,    \* each process's own server: "closed", "bound" or "listening"
  endpoint,  \* whose socket or pipe the endpoint's name leads to, or NoOne
  info,      \* whose display information the info file carries, or NoOne
  crashes    \* crashes so far

vars == <<pc, server, endpoint, info, crashes>>

Trying  == {"listen", "bound", "probe", "unlink", "relisten", "rebound"}
Holding == {"won", "held", "closing"}
Steps   == {"idle", "wait", "done", "dead"} \cup Trying \cup Holding

Init ==
  /\ pc = [p \in Procs |-> "idle"]
  /\ server = [p \in Procs |-> "closed"]
  /\ endpoint = NoOne
  /\ info = NoOne
  /\ crashes = 0

Goto(p, step) == pc' = [pc EXCEPT ![p] = step]

-----------------------------------------------------------------------------
(* Taking the endpoint.                                                    *)

\* runUpdates, or a scheduled tick, asks for the batch.
Ask(p) ==
  /\ pc[p] = "idle"
  /\ Goto(p, "listen")
  /\ UNCHANGED <<server, endpoint, info, crashes>>

\* The name is taken whoever bears it.
Bind_Bug(p, bound) ==
  /\ endpoint' = p
  /\ IF IsWindows
     THEN server' = [server EXCEPT ![p] = "listening"] /\ Goto(p, "won")
     ELSE server' = [server EXCEPT ![p] = "bound"] /\ Goto(p, bound)

\* server.listen() on a free name.  A pipe is created listening; a socket is
\* bound first, and refuses connections until listen() follows.
Bind(p, bound) ==
  /\ endpoint = NoOne
  /\ endpoint' = p
  /\ IF IsWindows
     THEN server' = [server EXCEPT ![p] = "listening"] /\ Goto(p, "won")
     ELSE server' = [server EXCEPT ![p] = "bound"] /\ Goto(p, bound)

\* Nobody handles a busy batch.
Busy_Bug(p) == Goto(p, "busy")

\* What a process does once somebody else has the batch: a tick exits, an
\* interactive run waits.
Busy(p) == Goto(p, IF p \in Scheduled THEN "done" ELSE "wait")

\* A pipe is probed, and its name removed, as a socket's is.
FirstListen_Bug(p) ==
  /\ pc[p] = "listen"
  /\ \/ Bind(p, "bound")
     \/ endpoint # NoOne /\ Goto(p, "unlink") /\ UNCHANGED <<server, endpoint>>
  /\ UNCHANGED <<info, crashes>>

\* A socket in use is never probed, as a pipe is not.
FirstListen_NoProbe_Bug(p) ==
  /\ pc[p] = "listen"
  /\ \/ Bind(p, "bound")
     \/ endpoint # NoOne /\ Busy(p) /\ UNCHANGED <<server, endpoint>>
  /\ UNCHANGED <<info, crashes>>

\* The first attempt.  A pipe in use has a live holder; a socket in use may
\* be what a crashed one left, so it is probed.
FirstListen(p) ==
  /\ pc[p] = "listen"
  /\ \/ Bind(p, "bound")
     \/ /\ endpoint # NoOne
        /\ IF IsWindows THEN Busy(p) ELSE Goto(p, "probe")
        /\ UNCHANGED <<server, endpoint>>
  /\ UNCHANGED <<info, crashes>>

\* The second system call of server.listen() on a socket.
StartListening(p) ==
  /\ pc[p] \in {"bound", "rebound"}
  /\ server' = [server EXCEPT ![p] = "listening"]
  /\ Goto(p, "won")
  /\ UNCHANGED <<endpoint, info, crashes>>

\* A socket in use is taken for a dead one's.
IsAnswering_Bug == FALSE

\* The socket's owner accepts connections.
IsAnswering == endpoint \in Procs /\ server[endpoint] = "listening"

\* A connection accepted, or no answer within a second, is a live holder; a
\* refused one, or no file any more, is a dead one.
Probe(p) ==
  /\ pc[p] = "probe"
  /\ IF IsAnswering THEN Busy(p) ELSE Goto(p, "unlink")
  /\ UNCHANGED <<server, endpoint, info, crashes>>

\* rmSync(endpoint): whatever bears the name by now.
Unlink(p) ==
  /\ pc[p] = "unlink"
  /\ endpoint' = NoOne
  /\ Goto(p, "relisten")
  /\ UNCHANGED <<server, info, crashes>>

SecondListen(p) ==
  /\ pc[p] = "relisten"
  /\ \/ Bind(p, "rebound")
     \/ endpoint # NoOne /\ Busy(p) /\ UNCHANGED <<server, endpoint>>
  /\ UNCHANGED <<info, crashes>>

\* The endpoint is this process's: the display file says so.  Writing it may
\* fail; the batch is taken all the same.
WriteInfo(p) ==
  /\ pc[p] = "won"
  /\ Goto(p, "held")
  /\ info' \in {p, info}
  /\ UNCHANGED <<server, endpoint, crashes>>

-----------------------------------------------------------------------------
(* Waiting, and leaving the batch.                                         *)

\* The wait never looks again.
Poll_Bug(p) == pc[p] = "wait" /\ UNCHANGED vars

\* The poll period ran out: try again.
Poll(p) ==
  /\ pc[p] = "wait"
  /\ Goto(p, "listen")
  /\ UNCHANGED <<server, endpoint, info, crashes>>

\* The abandoned wait releases what it does not have.
GiveUp_Bug(p) ==
  /\ pc[p] = "wait"
  /\ Goto(p, "done")
  /\ endpoint' = NoOne
  /\ UNCHANGED <<server, info, crashes>>

\* The user stopped the wait: a release that does nothing.
GiveUp(p) ==
  /\ pc[p] = "wait"
  /\ Goto(p, "done")
  /\ UNCHANGED <<server, endpoint, info, crashes>>

\* The endpoint is freed first, the display file dropped in a second step.
DropInfo_Bug(p) ==
  /\ \/ pc[p] = "held" /\ endpoint' = NoOne /\ Goto(p, "closing") /\ UNCHANGED info
     \/ pc[p] = "closing" /\ info' = NoOne /\ Goto(p, "done") /\ UNCHANGED endpoint
  /\ server' = [server EXCEPT ![p] = "closed"]
  /\ UNCHANGED crashes

\* release(): the display file first...
DropInfo(p) ==
  /\ pc[p] = "held"
  /\ info' = NoOne
  /\ Goto(p, "closing")
  /\ UNCHANGED <<server, endpoint, crashes>>

\* What closing a server, or dying, does to the endpoint's name: a pipe goes
\* with its last handle; close() unlinks a socket's file by name, a crash
\* leaves it.
FreedBy(p) == IF endpoint = p THEN NoOne ELSE endpoint

\* ... then the server.
CloseServer(p) ==
  /\ pc[p] = "closing"
  /\ server' = [server EXCEPT ![p] = "closed"]
  /\ endpoint' = IF IsWindows THEN FreedBy(p) ELSE NoOne
  /\ Goto(p, "done")
  /\ UNCHANGED <<info, crashes>>

\* A death at any point.  In "held" it is also a release() whose rmSync throws:
\* nobody catches the rejection, and with the process goes its server.
Crash(p) ==
  /\ crashes < MaxCrashes
  /\ pc[p] \notin {"idle", "done", "dead"}
  /\ crashes' = crashes + 1
  /\ server' = [server EXCEPT ![p] = "closed"]
  /\ endpoint' = IF IsWindows THEN FreedBy(p) ELSE endpoint
  /\ Goto(p, "dead")
  /\ UNCHANGED info

\* The user, or the schedule, starts gup again.
Restart(p) ==
  /\ pc[p] = "dead"
  /\ Goto(p, "idle")
  /\ UNCHANGED <<server, endpoint, info, crashes>>

-----------------------------------------------------------------------------

Acquire(p) ==
  \/ Ask(p) \/ FirstListen(p) \/ StartListening(p) \/ Probe(p) \/ Unlink(p)
  \/ SecondListen(p) \/ WriteInfo(p) \/ Poll(p)

Release(p) == DropInfo(p) \/ CloseServer(p)

Next ==
  \E p \in Procs : Acquire(p) \/ Release(p) \/ GiveUp(p) \/ Crash(p) \/ Restart(p)

\* A started process runs on, and every batch ends (UpdatePipeline); nobody
\* has to start a run, to give up a wait or to crash.
Fairness == \A p \in Procs : WF_vars(pc[p] # "idle" /\ Acquire(p)) /\ WF_vars(Release(p))

Spec == Init /\ [][Next]_vars /\ Fairness

-----------------------------------------------------------------------------

\* The type invariant: the steps of tryAcquire, a batch and release
\* (batch-lock.ts:103-147).
TypeOK ==
  /\ pc \in [Procs -> Steps]
  /\ server \in [Procs -> {"closed", "bound", "listening"}]
  /\ endpoint \in Procs \cup {NoOne}
  /\ info \in Procs \cup {NoOne}
  /\ crashes \in 0..MaxCrashes

Holders == {p \in Procs : pc[p] \in Holding}

\* Two processes are never inside a batch at once: "a scheduled run and an
\* interactive one must never drive package managers at once"
\* (batch-lock.ts:13-15).
OneBatchAtATime == \A p, q \in Holders : p = q

\* The endpoint's name leads to the holder for as long as it holds: the
\* next run to come finds it in use.
HolderIsReachable == \A p \in Holders : endpoint = p

\* Once the holder has put its name in the display file, nobody but itself
\* takes it away before the batch ends: what a waiting run shows is true.
\* release() drops the file before it frees the endpoint for this reason.
InfoStaysTheHolders ==
  [][\A p \in Procs : pc[p] = "held" /\ pc'[p] = "held" /\ info = p => info' = p]_vars

\* The detailed lock implements the abstract one.
Mutex == INSTANCE BatchMutex WITH holders <- Holders
MutexSpec == Mutex!Spec

\* Past its first bind attempt and not yet listening, or about to unlink the
\* socket it listens on.
AtTheEndpoint == {p \in Procs : pc[p] \in (Trying \ {"listen"}) \cup {"closing"}}

\* As long as no two runs are at the endpoint in the same moment, the socket
\* is as good as the pipe: probing tells a crashed holder from a live one,
\* and a live holder's socket is never unlinked (batch-lock.ts:165-173).
SafeUnlessContended ==
  [](\A p, q \in AtTheEndpoint : p = q) => [](OneBatchAtATime /\ HolderIsReachable)

\* A crash leaves no lock behind: an interactive run that waits gets the
\* batch in the end, unless it gives up or dies.
WaitersGetTheBatch ==
  \A p \in Procs \ Scheduled :
    pc[p] \in Trying \cup {"wait"} ~> pc[p] \in Holding \cup {"done", "dead"}
=============================================================================
