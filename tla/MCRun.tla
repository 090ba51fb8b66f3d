------------------------------- MODULE MCRun -------------------------------
(***************************************************************************)
(* Run on small scenarios, and the values the configurations give it.      *)
(***************************************************************************)
EXTENDS Run

\* Two actors: 1 waits, 2 goes on, 1 is next again.
AlternatingSteps == <<1, 2, 1>>
AlternatingClaims == <<"blocks", "error", "ok">>

\* One step each.
OneEach == <<1, 2>>
OneEachClaims == <<"blocks", "ok">>
=============================================================================
