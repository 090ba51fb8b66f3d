----------------------------- MODULE MCLibrary -----------------------------
(***************************************************************************)
(* A library of three files in two directories: a scenario that ships with *)
(* the program, the name an import gives its copy, and a file whose base   *)
(* name gives no id.  The document that may be saved over them and         *)
(* imported, beside the one that ships, states the id of the first.        *)
(***************************************************************************)
EXTENDS Library, TLC

Doc(text, id) == [text |-> text, id |-> id]

MCWalk == <<"locks/a-2", "locks/a", "own/--">>
MCIdOf ==
  [p \in {"locks/a-2", "locks/a", "own/--"} |->
    CASE p = "locks/a-2" -> "a-2" [] p = "locks/a" -> "a" [] p = "own/--" -> "none stated"]
MCCopies == <<"locks/a-2">>
MCShipped == Doc("shipped", "none stated")
MCDocs == {MCShipped, Doc("shared", "a")}

\* To begin with there is what ships, or not, and a file that states its id, or
\* not.
MCBegun ==
  {[p \in {"locks/a-2", "locks/a", "own/--"} |->
      CASE p = "locks/a-2" -> Absent [] p = "locks/a" -> c [] p = "own/--" -> d] :
    c \in {Absent, MCShipped}, d \in {Absent, Doc("edited", "a")}}

Alike == Permutations(Procs)
=============================================================================
