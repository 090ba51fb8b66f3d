------------------------------ MODULE Timeline ------------------------------
(***************************************************************************)
(* How the steps of a run reach its timeline (Step, execute, publishStep   *)
(* and publishState in internal/engine/run.go).                            *)
(*                                                                         *)
(* A result is cloned under the run's lock and published after the lock is *)
(* released, by two goroutines per step: the caller of Step, and execute.  *)
(* Of the bus, which Bus models, this module keeps what a page that loads  *)
(* and replays the history makes of it: the events about each step in the  *)
(* order they were published, and which states of the run were.  Lock      *)
(* snapshots and log lines are events too; nothing here tells them apart   *)
(* and they are left out.                                                  *)
(***************************************************************************)
EXTENDS Integers, Sequences

CONSTANTS
  NActors, NSteps,
  StepActor      \* StepActor[i]: the actor step i runs on

ASSUME StepsAssumption ==
  /\ NActors \in Nat \ {0} /\ NSteps \in Nat \ {0}
  /\ StepActor \in [1..NSteps -> 1..NActors]

Steps == 1..NSteps

StepStatus == {"pending", "running", "blocked", "done", "error"}
Settled == {"done", "error"}
RunStatus == {"ready", "running", "finished", "closed"}

\* The goroutines: per step its caller and its executor, and Close.
Caller(i) == <<"caller", i>>
Executor(i) == <<"executor", i>>
Closer == <<"closer", 0>>
Goroutines ==
  {Caller(i) : i \in Steps} \union {Executor(i) : i \in Steps} \union {Closer}

VARIABLES
  stat, cursor, status, runClosed,   \* the run, behind its lock
  pc,         \* pc[g]: where goroutine g stands
  held,       \* held[g]: the copy g made under the lock and is to publish
  told,       \* told[i]: the events published about step i
  toldStates, \* the run states published
  busClosed   \* Bus.Close has run: nothing more is published

runVars == <<stat, cursor, status, runClosed>>
busVars == <<told, toldStates, busClosed>>
vars == <<runVars, pc, held, busVars>>

TypeOK ==
  /\ stat \in [Steps -> StepStatus]
  /\ cursor \in 0..NSteps
  /\ status \in RunStatus
  /\ runClosed \in BOOLEAN
  /\ held \in [Goroutines -> StepStatus \union RunStatus \union {"none"}]
  /\ DOMAIN pc = Goroutines
  /\ told \in [Steps -> Seq(StepStatus)]
  /\ toldStates \subseteq RunStatus
  /\ busClosed \in BOOLEAN

Init ==
  /\ stat = [i \in Steps |-> "pending"]
  /\ cursor = 0 /\ status = "ready" /\ runClosed = FALSE
  /\ pc = [g \in Goroutines |-> "idle"]
  /\ held = [g \in Goroutines |-> "none"]
  /\ told = [i \in Steps |-> <<>>] /\ toldStates = {} /\ busClosed = FALSE

-----------------------------------------------------------------------------
\* Goroutine g goes on from one place to another.
Goto(g, from, to) ==
  /\ pc[g] = from
  /\ pc' = [pc EXCEPT ![g] = to]

\* publishStep: the clone made earlier, whatever has become of the step since.
\* A closed bus ignores what is published.
PublishStep(g, i, from, to) ==
  /\ Goto(g, from, to)
  /\ told' = IF busClosed THEN told ELSE [told EXCEPT ![i] = Append(@, held[g])]
  /\ held' = [held EXCEPT ![g] = "none"]
  /\ UNCHANGED <<runVars, toldStates, busClosed>>

\* publishState, first half: copy the state under the lock, unless closed.
ReadState(g, from, between, to) ==
  /\ Goto(g, from, IF runClosed THEN to ELSE between)
  /\ held' = [held EXCEPT ![g] = IF runClosed THEN @ ELSE status]
  /\ UNCHANGED <<runVars, busVars>>

\* publishState, second half: publish the copy.
PublishState(g, from, to) ==
  /\ Goto(g, from, to)
  /\ toldStates' = IF busClosed THEN toldStates ELSE toldStates \union {held[g]}
  /\ held' = [held EXCEPT ![g] = "none"]
  /\ UNCHANGED <<runVars, told, busClosed>>

Busy(a) == \E i \in Steps : StepActor[i] = a /\ stat[i] \in {"running", "blocked"}

-----------------------------------------------------------------------------
\* Step, under the lock: take the step at the cursor, unless it is refused.
Submit(i) ==
  /\ ~ runClosed
  /\ i = cursor + 1
  /\ ~ Busy(StepActor[i])
  /\ cursor' = i
  /\ stat' = [stat EXCEPT ![i] = "running"]
  /\ status' = "running"
  /\ held' = [held EXCEPT ![Caller(i)] = "running"]
  /\ Goto(Caller(i), "idle", "announce")
  /\ UNCHANGED <<runClosed, busVars>>

Announce(i) == PublishStep(Caller(i), i, "announce", "announceRead")

AnnounceState(i) ==
  \/ ReadState(Caller(i), "announceRead", "announceState", "spawn")
  \/ PublishState(Caller(i), "announceState", "spawn")

\* A fault to seed: the executor is started before the step is announced.
SpawnEarly(i) ==
  /\ pc[Caller(i)] \in {"announce", "spawn"} /\ pc[Executor(i)] = "idle"
  /\ pc' = [pc EXCEPT ![Caller(i)] = IF @ = "spawn" THEN "waiting" ELSE @,
                      ![Executor(i)] = "executing"]
  /\ UNCHANGED <<runVars, held, busVars>>

\* go r.execute(idx, done)
Spawn(i) ==
  /\ pc[Caller(i)] = "spawn" /\ pc[Executor(i)] = "idle"
  /\ pc' = [pc EXCEPT ![Caller(i)] = "waiting", ![Executor(i)] = "executing"]
  /\ UNCHANGED <<runVars, held, busVars>>

\* The caller wakes, takes the lock again, classifies and clones.
Classify(i) ==
  /\ Goto(Caller(i), "waiting", "report")
  /\ stat' = [stat EXCEPT ![i] = IF @ = "running" THEN "blocked" ELSE @]
  /\ held' = [held EXCEPT ![Caller(i)] = stat'[i]]
  /\ UNCHANGED <<cursor, status, runClosed, busVars>>

Report(i) ==
  \/ PublishStep(Caller(i), i, "report", "reportRead")
  \/ ReadState(Caller(i), "reportRead", "reportState", "returned")
  \/ PublishState(Caller(i), "reportState", "returned")

-----------------------------------------------------------------------------
\* runStatement returns on the executor: MySQL answered, or the connection or
\* the context is gone.
Return(i) ==
  /\ Goto(Executor(i), "executing", "record")
  /\ \E o \in Settled : held' = [held EXCEPT ![Executor(i)] = o]
  /\ UNCHANGED <<runVars, busVars>>

\* execute, under the lock: the result, and the clone of it to publish.
Record(i) ==
  /\ Goto(Executor(i), "record", "publish")
  /\ stat' = [stat EXCEPT ![i] = held[Executor(i)]]
  /\ status' = IF /\ cursor >= NSteps /\ status = "running"
                  /\ \A j \in Steps \ {i} : stat[j] \notin {"running", "blocked"}
               THEN "finished" ELSE status
  /\ UNCHANGED <<cursor, runClosed, held, busVars>>

\* A fault to seed: the outcome is left to the caller to publish, who may have
\* stopped waiting.
PublishOutcomeNever(i) ==
  /\ Goto(Executor(i), "publish", "stateRead")
  /\ held' = [held EXCEPT ![Executor(i)] = "none"]
  /\ UNCHANGED <<runVars, busVars>>

\* A deadlock victim's outcome is followed by a report, and the state.
PublishOutcome(i) ==
  \E to \in {"stateRead"} \union (IF held[Executor(i)] = "error" THEN {"deadlock"} ELSE {}) :
    PublishStep(Executor(i), i, "publish", to)

ReportDeadlock(i) ==
  \/ ReadState(Executor(i), "deadlock", "deadlockState", "stateRead")
  \/ PublishState(Executor(i), "deadlockState", "stateRead")

\* A fault to seed: the state is left to the caller to publish.
ConcludeSilently(i) ==
  /\ Goto(Executor(i), "stateRead", "over")
  /\ UNCHANGED <<runVars, held, busVars>>

\* The state again, at the end of every statement.
Conclude(i) ==
  \/ ReadState(Executor(i), "stateRead", "state", "over")
  \/ PublishState(Executor(i), "state", "over")

-----------------------------------------------------------------------------
\* Close, under the lock; then the teardown, which waits for the statements.
CloseRun ==
  /\ ~ runClosed
  /\ runClosed' = TRUE /\ status' = "closed"
  /\ Goto(Closer, "idle", "teardown")
  /\ UNCHANGED <<stat, cursor, held, busVars>>

Teardown ==
  /\ \A i \in Steps : pc[Executor(i)] # "executing"
  /\ Goto(Closer, "teardown", "closeBus")
  /\ UNCHANGED <<runVars, held, busVars>>

CloseBus ==
  /\ Goto(Closer, "closeBus", "over")
  /\ busClosed' = TRUE
  /\ UNCHANGED <<told, toldStates>>
  /\ UNCHANGED <<runVars, held>>

-----------------------------------------------------------------------------
CallerNext(i) == Announce(i) \/ AnnounceState(i) \/ Spawn(i) \/ Classify(i) \/ Report(i)

ExecutorNext(i) == Record(i) \/ PublishOutcome(i) \/ ReportDeadlock(i) \/ Conclude(i)

CloserNext == Teardown \/ CloseBus

\* Every goroutine is done, and so is the run.
AtRest == runClosed /\ \A g \in Goroutines : pc[g] \in {"idle", "returned", "over"}

Rest == AtRest /\ UNCHANGED vars

Next ==
  \/ \E i \in Steps : Submit(i) \/ CallerNext(i) \/ Return(i) \/ ExecutorNext(i)
  \/ CloseRun \/ CloserNext
  \/ Rest

Spec == Init /\ [][Next]_vars

\* Goroutines that can run do run.  Nobody has to press Step or close the run,
\* and MySQL need not answer.
Fairness ==
  /\ \A i \in Steps : WF_vars(CallerNext(i)) /\ WF_vars(ExecutorNext(i))
  /\ WF_vars(CloserNext)

FairSpec == Spec /\ Fairness

-----------------------------------------------------------------------------
(***************************************************************************)
(* Properties.                                                             *)
(***************************************************************************)

\* A step is announced as running before anything else is said of it, and
\* once only: a card that has shown more never goes back to running.
AnnouncedFirst ==
  \A i \in Steps : \A k \in DOMAIN told[i] : told[i][k] = "running" <=> k = 1

\* A blocked statement's outcome is published when it comes, long after Step
\* has returned, unless the run is closed first.
OutcomeReachesTimeline ==
  \A i \in Steps :
    stat[i] \in Settled ~> busClosed \/ \E k \in DOMAIN told[i] : told[i][k] = stat[i]

\* Once every executor is through, a finished run has been told to be so,
\* although the state is read and published in two steps.
FinishIsTold ==
  /\ status = "finished"
  /\ \A i \in Steps : pc[Executor(i)] = "over"
  => "finished" \in toldStates

\* A step is told of as it happens: the three above.
StepsAreTold == []AnnouncedFirst /\ []FinishIsTold /\ OutcomeReachesTimeline

\* README: when a blocked statement eventually returns, times out or is picked
\* as a deadlock victim, its card updates in place.  The card shows what was
\* published of the step last.
CardsShowOutcome ==
  \A i \in Steps :
    pc[Caller(i)] = "returned" /\ pc[Executor(i)] = "over" /\ ~ runClosed
      => told[i][Len(told[i])] = stat[i]
=============================================================================
