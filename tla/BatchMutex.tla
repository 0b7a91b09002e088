----------------------------- MODULE BatchMutex -----------------------------
(***************************************************************************)
(* What the batch lock promises, whatever it is made of: one update batch  *)
(* at a time per user, across processes.  A run takes the batch when       *)
(* nobody has it, and leaves it when the batch ends or the process dies.   *)
(***************************************************************************)
CONSTANT Procs            \* the gup processes of one user

VARIABLE holders          \* the processes inside a batch

Init == holders = {}

Take(p) == holders = {} /\ holders' = {p}

Leave(p) == p \in holders /\ holders' = holders \ {p}

Next == \E p \in Procs : Take(p) \/ Leave(p)

Spec == Init /\ [][Next]_holders
=============================================================================
