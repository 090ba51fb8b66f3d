----------------------------- MODULE MCTimeline -----------------------------
(***************************************************************************)
(* Timeline for two steps on two actors, whose statements may overlap.     *)
(***************************************************************************)
EXTENDS Timeline

OneEach == <<1, 2>>
=============================================================================
