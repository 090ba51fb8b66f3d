----------------------------- MODULE MCRegistry -----------------------------
(***************************************************************************)
(* Registry with interchangeable runs and interchangeable starters.        *)
(***************************************************************************)
EXTENDS Registry, TLC

Alike == Permutations(Runs) \union Permutations(Starters)
=============================================================================
