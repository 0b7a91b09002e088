------------------------------ MODULE MCRunView ------------------------------
(***************************************************************************)
(* RunView on small requests: a direct package and an admin one, a package *)
(* no provider can update, and two requests for the same package.          *)
(***************************************************************************)
EXTENDS RunView, MCUpdatePipeline

\* Targets are not deduplicated: `gup update a:a1 a:a1`.
ViewRequests == SmallRequests \cup {<<"a1", "a1">>}
=============================================================================
