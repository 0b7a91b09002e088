-------------------------- MODULE MCUpdatePipeline --------------------------
(***************************************************************************)
(* UpdatePipeline on small requests: packages of two providers, one that   *)
(* is flagged requiresAdmin, one whose provider this platform lacks.       *)
(***************************************************************************)
EXTENDS UpdatePipeline

MCPackages      == {"a1", "a2", "b1", "root1", "gone1"}
MCAdminPackages == {"root1"}
MCUnknown       == {"gone1"}

MCProviderOf ==
  [p \in MCPackages |->
    CASE p \in {"a1", "a2"} -> "a" [] p = "b1" -> "b" [] p = "root1" -> "a" [] OTHER -> "gone"]

\* One provider's packages apart from each other, an admin package in the
\* middle; and a package no provider can update.
MixedRequests == {<<"a1", "root1", "b1">>, <<"a1", "gone1", "a2">>}

SmallRequests == {<<"a1", "root1">>, <<"gone1", "b1">>}
=============================================================================
