------------------------------ MODULE MCStore -------------------------------
(***************************************************************************)
(* Two browser tabs, each an editor or the settings page.  The two are     *)
(* alike.                                                                  *)
(***************************************************************************)
EXTENDS Store, TLC

Alike == Permutations(Tabs)
=============================================================================
