---------------------------- MODULE MCTriggerSync ----------------------------
(***************************************************************************)
(* TriggerSync with an installation, a copy of it under another Node, one  *)
(* of another package, and an npx copy that cannot be registered.          *)
(***************************************************************************)
EXTENDS TriggerSync

MCGups == {"here", "otherNode", "elsewhere", "npx"}

MCPackageOf ==
  [g \in MCGups |-> IF g = "otherNode" THEN "here" ELSE g]
=============================================================================
