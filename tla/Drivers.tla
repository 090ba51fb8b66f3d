------------------------------- MODULE Drivers -------------------------------
(***************************************************************************)
(* Who drives runs besides a person at the run's page: the background jobs *)
(* and the command line (Jobs), and the assistant (Chat).  Each drives     *)
(* runs of its own, and of the others it notices only that they make the   *)
(* manager close its run, which both modules have as a step.  So a         *)
(* behaviour is that of one of them.                                       *)
(***************************************************************************)
EXTENDS Jobs, Chat

VARIABLE driver   \* who drives

DriversInit == Init /\ ChatInit /\ driver \in {"player", "assistant"}

\* Someone's step that drives, as opposed to one of the user's.
PlayerStep == driver = "player" /\ Next /\ UNCHANGED <<chatVars, driver>>
AssistantStep == driver = "assistant" /\ ChatNext /\ UNCHANGED <<vars, driver>>

\* The conversation can always rest.
ConversationRests == driver = "assistant" /\ UNCHANGED <<vars, chatVars, driver>>

DriversNext == PlayerStep \/ AssistantStep \/ ConversationRests

driversVars == <<vars, chatVars, driver>>

DriversSpec ==
  /\ DriversInit /\ [][DriversNext]_driversVars
  /\ Fairness /\ ChatFairness
=============================================================================
