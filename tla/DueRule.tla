------------------------------ MODULE DueRule ------------------------------
(***************************************************************************)
(* The due rule of the scheduler, core/scheduler/model/due.ts: whether a   *)
(* schedule has an occurrence to run now.  Pure: the clock, the schedule   *)
(* and its run state are the whole input.  Times are natural numbers; a    *)
(* recurrence is the set of times it fires at, which is what cron.nextRun  *)
(* and cron.latestRun search in.                                           *)
(***************************************************************************)
EXTENDS Integers

CONSTANTS
  Grace   \* how late a tick may come and still count as on time

ASSUME GraceAssumption == Grace \in Nat

\* No such time: nextRun and latestRun found none, or a date is absent.
NoTime == -1

\* timeOf(armedAt), timeOf(lastAttemptAt) and now: the later of the arming
\* and the last consumed occurrence, never later than now.
AnchorOf(armed, attempt, now) ==
  LET later == IF attempt > armed THEN attempt ELSE armed
  IN IF later > now THEN now ELSE later

\* The first firing strictly after a time.
NextRun(firings, after) ==
  LET ahead == {f \in firings : f > after}
  IN IF ahead = {} THEN NoTime ELSE CHOOSE f \in ahead : \A g \in ahead : f <= g

\* The last firing at a time or before it.
LatestRun(firings, at) ==
  LET passed == {f \in firings : f <= at}
  IN IF passed = {} THEN NoTime ELSE CHOOSE f \in passed : \A g \in passed : f >= g

\* evaluateDue past its first two returns, for an enabled schedule that
\* parses, with its anchor.
VerdictFrom(firings, anchor, catchUp, now) ==
  LET next == NextRun(firings, anchor)
      occurrence == LatestRun(firings, now)
  IN CASE next = NoTime \/ next > now     -> [kind |-> "not-due", occurrence |-> NoTime]
       [] OTHER -> [kind |-> IF now - occurrence <= Grace \/ catchUp THEN "due" ELSE "missed",
                    occurrence |-> occurrence]

EvaluateDue(firings, armed, attempt, catchUp, now) ==
  VerdictFrom(firings, AnchorOf(armed, attempt, now), catchUp, now)
=============================================================================
