----------------------------- MODULE MCScheduler -----------------------------
(***************************************************************************)
(* Scheduler on two schedules: one that catches up and fires twice, and    *)
(* one that does not catch up, off at first or created during the run.     *)
(***************************************************************************)
EXTENDS Scheduler

MCFiringsOf ==
  [s \in {"daily", "fresh"} |-> CASE s = "daily" -> {1, 2} [] OTHER -> {1}]
=============================================================================
