------------------------------ MODULE Playback ------------------------------
(***************************************************************************)
(* What playing a scenario promises, with none of the machinery: every     *)
(* step is submitted once, in the order the scenario lists them, and never *)
(* on a connection whose previous statement has not answered; a submitted  *)
(* statement may be seen to wait; an outcome, once there, never changes.   *)
(* Run.tla is shown to implement this module.                              *)
(***************************************************************************)
EXTENDS Integers

CONSTANTS
  NSteps,     \* number of steps in the scenario
  StepActor   \* StepActor[i]: the actor whose connection step i runs on

VARIABLES
  outcome,    \* outcome[i]: how far step i has come
  ended       \* the run has been closed: nothing more is submitted

Progress == {"pending", "running", "blocked", "settled"}

PlaybackVars == <<outcome, ended>>

PlaybackTypeOK ==
  /\ outcome \in [1..NSteps -> Progress]
  /\ ended \in BOOLEAN

PlaybackInit ==
  /\ outcome = [i \in 1..NSteps |-> "pending"]
  /\ ended = FALSE

\* The next step goes out, on a connection that has answered everything.
Submit(i) ==
  /\ ~ended
  /\ outcome[i] = "pending"
  /\ \A j \in 1..(i - 1) :
       /\ outcome[j] # "pending"
       /\ StepActor[j] = StepActor[i] => outcome[j] = "settled"
  /\ outcome' = [outcome EXCEPT ![i] = "running"]
  /\ UNCHANGED ended

\* The statement is seen to wait on a lock.
Block(i) ==
  /\ outcome[i] = "running"
  /\ outcome' = [outcome EXCEPT ![i] = "blocked"]
  /\ UNCHANGED ended

\* The statement answers: done, timed out, deadlock victim or killed.
Settle(i) ==
  /\ outcome[i] \in {"running", "blocked"}
  /\ outcome' = [outcome EXCEPT ![i] = "settled"]
  /\ UNCHANGED ended

End ==
  /\ ended' = TRUE
  /\ UNCHANGED outcome

PlaybackNext ==
  \/ \E i \in 1..NSteps : Submit(i) \/ Block(i) \/ Settle(i)
  \/ End

PlaybackSpec == PlaybackInit /\ [][PlaybackNext]_PlaybackVars
=============================================================================
