--------------------------- MODULE BatchLockProofs ---------------------------
(***************************************************************************)
(* What is proved of BatchLock, for any number of processes and crashes:   *)
(* its types on both platforms; on Windows, that the named pipe is a       *)
(* mutual exclusion and implements BatchMutex; on POSIX, that the unix     *)
(* socket does the same as long as no two runs are at the endpoint at      *)
(* once.  (Otherwise it does not: see the run batch_lock_race.)            *)
(***************************************************************************)
EXTENDS BatchLock, TLAPS

\* The type invariant holds on both platforms (batch-lock.ts:103-147).
THEOREM TypeCorrect == Spec => []TypeOK
<1>1. Init => TypeOK
  BY LockAssumption DEF Init, TypeOK, Steps
<1>2. TypeOK /\ [Next]_vars => TypeOK'
  <2> SUFFICES ASSUME TypeOK, [Next]_vars PROVE TypeOK'
    OBVIOUS
  <2> USE LockAssumption DEF TypeOK, Goto, vars
  <2>1. CASE UNCHANGED vars
    BY <2>1
  <2>2. ASSUME NEW p \in Procs, Acquire(p) PROVE TypeOK'
    <3>1. CASE Ask(p)
      BY <3>1 DEF Ask, Steps, Trying
    <3>2. CASE FirstListen(p)
      BY <3>2 DEF FirstListen, Bind, Busy, Steps, Trying, Holding
    <3>3. CASE StartListening(p)
      BY <3>3 DEF StartListening, Steps, Holding
    <3>4. CASE Probe(p)
      BY <3>4 DEF Probe, Busy, Steps, Trying
    <3>5. CASE Unlink(p)
      BY <3>5 DEF Unlink, Steps, Trying
    <3>6. CASE SecondListen(p)
      BY <3>6 DEF SecondListen, Bind, Busy, Steps, Trying, Holding
    <3>7. CASE WriteInfo(p)
      BY <3>7 DEF WriteInfo, Steps, Holding
    <3>8. CASE Poll(p)
      BY <3>8 DEF Poll, Steps, Trying
    <3> QED BY <2>2, <3>1, <3>2, <3>3, <3>4, <3>5, <3>6, <3>7, <3>8 DEF Acquire
  <2>3. ASSUME NEW p \in Procs, Release(p) PROVE TypeOK'
    BY <2>3 DEF Release, DropInfo, CloseServer, FreedBy, Steps, Holding
  <2>4. ASSUME NEW p \in Procs, GiveUp(p) \/ Crash(p) \/ Restart(p) PROVE TypeOK'
    BY <2>4 DEF GiveUp, Crash, Restart, FreedBy, Steps
  <2> QED BY <2>1, <2>2, <2>3, <2>4 DEF Next
<1> QED BY <1>1, <1>2, PTL DEF Spec

-----------------------------------------------------------------------------
(* Windows.                                                                *)

\* The steps a process goes through when the endpoint is a pipe.
PipeSteps == {"idle", "listen", "wait", "done", "dead"} \cup Holding

\* The pipe's name leads to a process exactly while that process holds the
\* batch.  This is what makes the exclusion inductive: holders alone do not
\* say why a free name means that there are none.
PipeInv ==
  /\ pc \in [Procs -> PipeSteps]
  /\ \A p \in Procs : pc[p] \in Holding <=> endpoint = p

\* No process holds and no name is taken at first.
LEMMA PipeInvInit == Init => PipeInv
BY LockAssumption DEF Init, PipeInv, PipeSteps, Holding

\* Each action moves the name and the batch together.
LEMMA PipeInvStep ==
  ASSUME IsWindows, PipeInv, [Next]_vars
  PROVE  PipeInv'
<1> USE LockAssumption DEF PipeInv, PipeSteps, Holding, Goto
<1>1. CASE UNCHANGED vars
  BY <1>1 DEF vars
<1>2. ASSUME NEW p \in Procs, Acquire(p) PROVE PipeInv'
  <2>1. CASE Ask(p)
    BY <2>1 DEF Ask
  <2>2. CASE FirstListen(p)
    <3>1. CASE Bind(p, "bound")
      BY <3>1, <2>2 DEF FirstListen, Bind
    <3>2. CASE endpoint # NoOne /\ Busy(p) /\ UNCHANGED endpoint
      BY <3>2, <2>2 DEF FirstListen, Busy
    <3> QED BY <2>2, <3>1, <3>2 DEF FirstListen
  <2>3. CASE WriteInfo(p)
    BY <2>3 DEF WriteInfo
  <2>4. CASE Poll(p)
    BY <2>4 DEF Poll
  <2>5. ~StartListening(p) /\ ~Probe(p) /\ ~Unlink(p) /\ ~SecondListen(p)
    BY DEF StartListening, Probe, Unlink, SecondListen
  <2> QED BY <1>2, <2>1, <2>2, <2>3, <2>4, <2>5 DEF Acquire
<1>3. ASSUME NEW p \in Procs, Release(p) PROVE PipeInv'
  <2>1. CASE DropInfo(p)
    BY <2>1 DEF DropInfo
  <2>2. CASE CloseServer(p)
    BY <2>2 DEF CloseServer, FreedBy
  <2> QED BY <1>3, <2>1, <2>2 DEF Release
<1>4. ASSUME NEW p \in Procs, GiveUp(p) PROVE PipeInv'
  BY <1>4 DEF GiveUp
<1>5. ASSUME NEW p \in Procs, Crash(p) PROVE PipeInv'
  BY <1>5 DEF Crash, FreedBy
<1>6. ASSUME NEW p \in Procs, Restart(p) PROVE PipeInv'
  BY <1>6 DEF Restart
<1> QED BY <1>1, <1>2, <1>3, <1>4, <1>5, <1>6 DEF Next

\* Two processes are never inside a batch at once, whatever crashes.
THEOREM OneBatch == ASSUME IsWindows PROVE Spec => []OneBatchAtATime
<1>1. PipeInv => OneBatchAtATime
  BY DEF PipeInv, OneBatchAtATime, Holders
<1>2. PipeInv /\ [Next]_vars => PipeInv'
  BY PipeInvStep
<1> QED BY PipeInvInit, <1>1, <1>2, PTL DEF Spec

\* A run that comes while another holds the batch finds the name in use.
THEOREM Reachable == ASSUME IsWindows PROVE Spec => []HolderIsReachable
<1>1. PipeInv => HolderIsReachable
  BY DEF PipeInv, HolderIsReachable, Holders
<1>2. PipeInv /\ [Next]_vars => PipeInv'
  BY PipeInvStep
<1> QED BY PipeInvInit, <1>1, <1>2, PTL DEF Spec

\* Each step of the lock takes the batch, leaves it, or does neither.
LEMMA MutexStep ==
  ASSUME IsWindows, PipeInv, [Next]_vars
  PROVE  [Mutex!Next]_Holders
<1> USE DEF PipeInv, PipeSteps, Holding, Goto, Holders
<1> SUFFICES ASSUME Holders' # Holders PROVE Mutex!Next
  OBVIOUS
<1>1. ~UNCHANGED vars
  BY DEF vars
<1>2. ASSUME NEW p \in Procs, Acquire(p) PROVE Mutex!Next
  <2>1. ~Ask(p) /\ ~WriteInfo(p) /\ ~Poll(p)
    BY DEF Ask, WriteInfo, Poll
  <2>2. ~StartListening(p) /\ ~Probe(p) /\ ~Unlink(p) /\ ~SecondListen(p)
    BY DEF StartListening, Probe, Unlink, SecondListen
  <2>3. FirstListen(p)
    BY <1>2, <2>1, <2>2 DEF Acquire
  <2>4. Bind(p, "bound")
    BY <2>3 DEF FirstListen, Busy
  <2>5. endpoint = NoOne /\ pc' = [pc EXCEPT ![p] = "won"]
    BY <2>4 DEF Bind
  <2>6. Holders = {}
    BY <2>5, LockAssumption
  <2>7. Holders' = {p}
    BY <2>5, <2>6
  <2> QED BY <2>6, <2>7 DEF Mutex!Next, Mutex!Take
<1>3. ASSUME NEW p \in Procs, Release(p) \/ Crash(p) PROVE Mutex!Next
  <2>1. ~DropInfo(p)
    BY DEF DropInfo
  <2>2. PICK end \in {"done", "dead"} : pc' = [pc EXCEPT ![p] = end]
    BY <1>3, <2>1 DEF Release, CloseServer, Crash
  <2>3. p \in Holders
    BY <2>2
  <2>4. Holders' = Holders \ {p}
    BY <2>2
  <2> QED BY <2>3, <2>4 DEF Mutex!Next, Mutex!Leave
<1>4. ASSUME NEW p \in Procs PROVE ~GiveUp(p) /\ ~Restart(p)
  BY DEF GiveUp, Restart
<1> QED BY <1>1, <1>2, <1>3, <1>4 DEF Next

\* On Windows the detailed lock implements the abstract one.
THEOREM Refinement == ASSUME IsWindows PROVE Spec => MutexSpec
<1>1. Init => Mutex!Init
  BY DEF Init, Mutex!Init, Holders, Holding
<1>2. PipeInv /\ [Next]_vars => PipeInv'
  BY PipeInvStep
<1>3. PipeInv /\ [Next]_vars => [Mutex!Next]_Holders
  BY MutexStep
<1> QED BY PipeInvInit, <1>1, <1>2, <1>3, PTL DEF Spec, MutexSpec, Mutex!Spec

\* Whoever holds the batch is who the name leads to.
NameIsTheHolders == \A p \in Procs : pc[p] \in Holding => endpoint = p

\* The display file of a run that shows it is changed by the writer alone,
\* before or after: the others do not hold the batch.
LEMMA InfoStep ==
  ASSUME TypeOK, NameIsTheHolders, [Next]_vars
  PROVE  \A p \in Procs : pc[p] = "held" /\ pc'[p] = "held" /\ info = p => info' = p
<1> USE DEF NameIsTheHolders, Holding, Goto
<1> SUFFICES ASSUME NEW p \in Procs, pc[p] = "held", pc'[p] = "held", info = p, info' # p
             PROVE  FALSE
  OBVIOUS
<1>1. PICK q \in Procs : WriteInfo(q) \/ DropInfo(q)
  <2>1. ASSUME NEW q \in Procs, Acquire(q), ~WriteInfo(q) PROVE FALSE
    BY <2>1 DEF Acquire, Ask, FirstListen, StartListening, Probe, Unlink, SecondListen, Poll
  <2>2. ASSUME NEW q \in Procs, Release(q), ~DropInfo(q) PROVE FALSE
    BY <2>2 DEF Release, CloseServer
  <2>3. ASSUME NEW q \in Procs, GiveUp(q) \/ Crash(q) \/ Restart(q) PROVE FALSE
    BY <2>3 DEF GiveUp, Crash, Restart
  <2> QED BY <2>1, <2>2, <2>3 DEF Next, vars
<1>2. pc[q] \in {"won", "held"} /\ endpoint = q /\ endpoint = p
  BY <1>1 DEF WriteInfo, DropInfo
<1> QED BY <1>1, <1>2 DEF WriteInfo, DropInfo, TypeOK

\* What a waiting run is shown of the holder stays true until that holder's
\* batch ends: release() drops the display file before it frees the endpoint
\* (batch-lock.ts:135-147).
THEOREM InfoStays == ASSUME IsWindows PROVE Spec => InfoStaysTheHolders
<1>1. PipeInv /\ [Next]_vars => PipeInv'
  BY PipeInvStep
<1>2. PipeInv /\ TypeOK /\ [Next]_vars =>
        [\A p \in Procs : pc[p] = "held" /\ pc'[p] = "held" /\ info = p => info' = p]_vars
  BY InfoStep DEF PipeInv, NameIsTheHolders
<1> QED BY PipeInvInit, TypeCorrect, <1>1, <1>2, PTL DEF Spec, InfoStaysTheHolders

-----------------------------------------------------------------------------
(* POSIX, while no two runs are at the endpoint in the same moment.        *)

Uncontended == \A p, q \in AtTheEndpoint : p = q

\* The name leads to a live, listening holder, or to the socket being bound;
\* and who is about to unlink it has no holder to harm.  The last part is what
\* a second run at the endpoint breaks: the probe answered for an earlier
\* socket than the one unlinked.
SocketInv ==
  /\ \A p \in Procs : pc[p] \in Holding => endpoint = p /\ server[p] = "listening"
  /\ \A p \in Procs : pc[p] \in {"bound", "rebound"} => endpoint = p
  /\ \A p \in Procs : pc[p] \in {"unlink", "relisten"} => Holders = {}

\* Nobody is at the endpoint at first.
LEMMA SocketInvInit == Init => SocketInv
BY DEF Init, SocketInv, Holders, Holding

\* Each action keeps the name with its holder.
LEMMA SocketInvStep ==
  ASSUME ~IsWindows, TypeOK, SocketInv, Uncontended, Uncontended', [Next]_vars
  PROVE  SocketInv'
<1> USE LockAssumption DEF SocketInv, Holders, Holding, Goto, TypeOK
<1>1. CASE UNCHANGED vars
  BY <1>1 DEF vars
<1>2. ASSUME NEW p \in Procs, Acquire(p) PROVE SocketInv'
  <2>1. CASE Ask(p) \/ Poll(p)
    BY <2>1 DEF Ask, Poll
  <2>2. ASSUME NEW step \in {"bound", "rebound"}, Bind(p, step), pc[p] \in {"listen", "relisten"}
        PROVE  SocketInv'
    <3>1. Holders = {}
      BY <2>2 DEF Bind
    <3>2. \A q \in Procs \ {p} : pc[q] \notin {"bound", "rebound"}
      BY <2>2 DEF Bind
    <3>3. pc' = [pc EXCEPT ![p] = step] /\ endpoint' = p /\ server' = [server EXCEPT ![p] = "bound"]
      BY <2>2 DEF Bind
    <3> QED BY <3>1, <3>2, <3>3
  <2>3. CASE FirstListen(p)
    <3>1. CASE Goto(p, "probe") /\ UNCHANGED <<server, endpoint>>
      BY <3>1, <2>3 DEF FirstListen
    <3> QED BY <2>2, <2>3, <3>1 DEF FirstListen
  <2>4. CASE StartListening(p)
    <3>1. endpoint = p /\ \A q \in Procs \ {p} : pc[q] \notin Holding
      BY <2>4 DEF StartListening
    <3>2. \A q \in Procs \ {p} : pc[q] \notin {"unlink", "relisten"}
      BY <2>4 DEF StartListening, Uncontended, AtTheEndpoint, Trying
    <3> QED BY <2>4, <3>1, <3>2 DEF StartListening
  <2>5. CASE Probe(p)
    <3>1. CASE IsAnswering
      BY <3>1, <2>5 DEF Probe, Busy
    <3>2. CASE ~IsAnswering
      <4>1. Holders = {}
        BY <3>2 DEF IsAnswering
      <4> QED BY <2>5, <3>2, <4>1 DEF Probe
    <3> QED BY <3>1, <3>2
  <2>6. CASE Unlink(p)
    <3>1. Holders = {}
      BY <2>6 DEF Unlink
    <3>2. \A q \in Procs \ {p} : pc[q] \notin {"bound", "rebound"}
      BY <2>6 DEF Unlink, Uncontended, AtTheEndpoint, Trying
    <3> QED BY <2>6, <3>1, <3>2 DEF Unlink
  <2>7. CASE SecondListen(p)
    <3>1. CASE Busy(p) /\ UNCHANGED <<server, endpoint>>
      BY <3>1, <2>7 DEF SecondListen, Busy
    <3> QED BY <2>2, <2>7, <3>1 DEF SecondListen
  <2>8. CASE WriteInfo(p)
    BY <2>8 DEF WriteInfo
  <2> QED BY <1>2, <2>1, <2>3, <2>4, <2>5, <2>6, <2>7, <2>8 DEF Acquire
<1>3. ASSUME NEW p \in Procs, Release(p) PROVE SocketInv'
  <2>1. CASE DropInfo(p)
    BY <2>1 DEF DropInfo
  <2>2. CASE CloseServer(p)
    <3>1. \A q \in Procs \ {p} : pc[q] \notin Holding \cup {"bound", "rebound"}
      BY <2>2 DEF CloseServer
    <3> QED BY <2>2, <3>1 DEF CloseServer
  <2> QED BY <1>3, <2>1, <2>2 DEF Release
<1>4. ASSUME NEW p \in Procs, GiveUp(p) \/ Restart(p) PROVE SocketInv'
  BY <1>4 DEF GiveUp, Restart
<1>5. ASSUME NEW p \in Procs, Crash(p) PROVE SocketInv'
  BY <1>5 DEF Crash
<1> QED BY <1>1, <1>2, <1>3, <1>4, <1>5 DEF Next

\* As long as no two runs are at the endpoint in the same moment, two batches
\* never run at once and a holder is always found: with a pipe in any case,
\* with a socket because a probe then tells a dead holder's from a live one's
\* (batch-lock.ts:165-173).
THEOREM SafeAlone == Spec => SafeUnlessContended
<1>1. ASSUME IsWindows PROVE Spec => SafeUnlessContended
  BY <1>1, OneBatch, Reachable, PTL DEF SafeUnlessContended
<1>2. ASSUME ~IsWindows PROVE Spec => SafeUnlessContended
  <2>1. TypeOK /\ SocketInv /\ Uncontended /\ Uncontended' /\ [Next]_vars => SocketInv'
    BY <1>2, SocketInvStep
  <2>2. SocketInv => OneBatchAtATime /\ HolderIsReachable
    BY DEF SocketInv, OneBatchAtATime, HolderIsReachable, Holders
  <2>3. (\A p, q \in AtTheEndpoint : p = q) <=> Uncontended
    BY DEF Uncontended
  <2> QED BY SocketInvInit, TypeCorrect, <2>1, <2>2, <2>3, PTL DEF Spec, SafeUnlessContended
<1> QED BY <1>1, <1>2

\* A step of the socket takes the batch when nobody has it, leaves it, or does
\* neither.
LEMMA SocketMutexStep ==
  ASSUME ~IsWindows, TypeOK, SocketInv, Uncontended, [Next]_vars
  PROVE  [Mutex!Next]_Holders
<1> USE DEF SocketInv, Holding, Goto, Holders, TypeOK
<1> SUFFICES ASSUME Holders' # Holders PROVE Mutex!Next
  OBVIOUS
<1>1. ~UNCHANGED vars
  BY DEF vars
<1>2. ASSUME NEW p \in Procs, Acquire(p) PROVE Mutex!Next
  <2>1. ~Ask(p) /\ ~WriteInfo(p) /\ ~Poll(p)
    BY DEF Ask, WriteInfo, Poll
  <2>2. ~FirstListen(p) /\ ~SecondListen(p)
    BY DEF FirstListen, SecondListen, Bind, Busy
  <2>3. ~Probe(p) /\ ~Unlink(p)
    BY DEF Probe, Busy, Unlink
  <2>4. StartListening(p)
    BY <1>2, <2>1, <2>2, <2>3 DEF Acquire
  <2>5. endpoint = p /\ pc[p] \notin Holding /\ pc' = [pc EXCEPT ![p] = "won"]
    BY <2>4 DEF StartListening
  <2>6. Holders = {}
    BY <2>5
  <2>7. Holders' = {p}
    BY <2>5, <2>6
  <2> QED BY <2>6, <2>7 DEF Mutex!Next, Mutex!Take
<1>3. ASSUME NEW p \in Procs, Release(p) \/ Crash(p) PROVE Mutex!Next
  <2>1. ~DropInfo(p)
    BY DEF DropInfo
  <2>2. PICK end \in {"done", "dead"} : pc' = [pc EXCEPT ![p] = end]
    BY <1>3, <2>1 DEF Release, CloseServer, Crash
  <2>3. p \in Holders
    BY <2>2
  <2>4. Holders' = Holders \ {p}
    BY <2>2
  <2> QED BY <2>3, <2>4 DEF Mutex!Next, Mutex!Leave
<1>4. ASSUME NEW p \in Procs PROVE ~GiveUp(p) /\ ~Restart(p)
  BY DEF GiveUp, Restart
<1> QED BY <1>1, <1>2, <1>3, <1>4 DEF Next

\* On POSIX too the detailed lock implements the abstract one, as long as no
\* two runs are at the endpoint in the same moment: crashes and dead sockets
\* alone never make it hand the batch to two runs.
THEOREM RefinementAlone ==
  ASSUME ~IsWindows
  PROVE  Spec /\ [](\A p, q \in AtTheEndpoint : p = q) => MutexSpec
<1>1. Init => Mutex!Init
  BY DEF Init, Mutex!Init, Holders, Holding
<1>2. TypeOK /\ SocketInv /\ Uncontended /\ Uncontended' /\ [Next]_vars => SocketInv'
  BY SocketInvStep
<1>3. TypeOK /\ SocketInv /\ Uncontended /\ [Next]_vars => [Mutex!Next]_Holders
  BY SocketMutexStep
<1>4. (\A p, q \in AtTheEndpoint : p = q) <=> Uncontended
  BY DEF Uncontended
<1> QED BY SocketInvInit, TypeCorrect, <1>1, <1>2, <1>3, <1>4, PTL DEF Spec, MutexSpec, Mutex!Spec
=============================================================================
