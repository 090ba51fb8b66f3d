------------------------------- MODULE MCPool -------------------------------
(***************************************************************************)
(* Pool with a server and a `deadlocker run`, and where the callers live.  *)
(***************************************************************************)
EXTENDS Pool

CONSTANTS ui, cli, a, b

\* Two runs of the server race for a container.
BothServed == [x \in {a, b} |-> ui]

\* One each.
OneEach == [x \in {a, b} |-> IF x = b THEN cli ELSE ui]
=============================================================================
