-------------------------------- MODULE Jobs --------------------------------
(***************************************************************************)
(* Scenarios played by the program itself (internal/agentapi/jobs.go, and   *)
(* `deadlocker run' in cmd/deadlocker/cli.go): a sweep plays one scenario   *)
(* per column of a matrix, a shrink plays it with ever fewer steps, the    *)
(* command line plays it once and reports.                                 *)
(*                                                                         *)
(* Each has a context that may end at any moment -- a job is cancelled, a   *)
(* command times out -- and Run.Step then returns at once, marking the      *)
(* statement in flight as blocked.  The run itself may be closed by others: *)
(* it is one of the manager's, and the oldest is evicted.                  *)
(***************************************************************************)
EXTENDS Integers, FiniteSets, Sequences, SequencesExt

CONSTANTS
  Players,      \* the jobs, and the scenarios of a command line
  Kinds,        \* what they may be: "sweep", "shrink", "cli"
  Targets,      \* what a shrink is asked to preserve; NoTarget: find out
  Steps,        \* how many steps the scenario has
  Columns,      \* how many columns a sweep has
  MaxAttempts   \* how many candidates a shrink tries (maxAttempts)

NoTarget == "find out"

\* What a run may show, and a shrink may preserve.
Shows == {"deadlock", "timeout", "blocks"}

ASSUME JobsAssumption ==
  /\ Kinds \subseteq {"sweep", "shrink", "cli"}
  /\ Targets \subseteq Shows \union {NoTarget}
  /\ Steps \in Nat \ {0} /\ Columns \in Nat
  /\ MaxAttempts \in Nat

VARIABLES
  registry,    \* the jobs on record
  status,      \* status[j]: Job.Status, or what the command line reports
  kind, target,
  pc,
  stoppable,   \* jobs that have handed the registry their cancel function
  over,        \* players whose context has ended
  column,      \* column[j]: columns a sweep has filled
  \* a shrink: steps still there, the one it will try without, and so on
  kept, cursor, changed, attempts,
  \* the run a player is playing
  open, played, seen, waiting, cut,
  \* what the properties remember
  doubtful     \* shrinks that dropped a step without having seen it spared

jobVars == <<registry, status, kind, stoppable>>
shrinkVars == <<target, kept, cursor, changed, attempts, doubtful>>
runVars == <<open, played, seen, waiting, cut>>
vars == <<jobVars, pc, over, column, shrinkVars, runVars>>

All == [n \in 1..Steps |-> n]

TypeOK ==
  /\ registry \subseteq Players
  /\ status \in [Players -> {"none", "running", "done", "failed", "cancelled"}]
  /\ kind \in [Players -> Kinds \union {"none"}]
  /\ target \in [Players -> Shows \union {NoTarget}]
  /\ pc \in [Players -> {"none", "begin", "next", "start", "play", "step", "settle",
                         "read", "gave up", "finish", "ended"}]
  /\ stoppable \subseteq Players /\ over \subseteq Players /\ doubtful \subseteq Players
  /\ column \in [Players -> 0..Columns]
  /\ kept \in [Players -> Seq(1..Steps)]
  /\ cursor \in [Players -> 0..Steps] /\ changed \in [Players -> BOOLEAN]
  /\ attempts \in [Players -> 0..MaxAttempts]
  /\ open \subseteq Players /\ waiting \subseteq Players /\ cut \subseteq Players
  /\ played \in [Players -> 0..Steps]
  /\ seen \in [Players -> SUBSET Shows]

Init ==
  /\ registry = {}
  /\ status = [j \in Players |-> "none"] /\ kind = [j \in Players |-> "none"]
  /\ target = [j \in Players |-> NoTarget]
  /\ pc = [j \in Players |-> "none"]
  /\ stoppable = {} /\ over = {} /\ doubtful = {}
  /\ column = [j \in Players |-> 0]
  /\ kept = [j \in Players |-> All]
  /\ cursor = [j \in Players |-> Steps] /\ changed = [j \in Players |-> FALSE]
  /\ attempts = [j \in Players |-> 0]
  /\ open = {} /\ waiting = {} /\ cut = {}
  /\ played = [j \in Players |-> 0] /\ seen = [j \in Players |-> {}]

-----------------------------------------------------------------------------
(***************************************************************************)
(* The registry of jobs.                                                   *)
(***************************************************************************)

OnRecord(j) == j \in registry

\* StartIsolationMatrix, StartVersionMatrix, StartShrink: the job is put on
\* record before its goroutine starts.
StartJob(j) ==
  /\ pc[j] = "none"
  /\ \E k \in Kinds \ {"cli"} : kind' = [kind EXCEPT ![j] = k]
  /\ \E t \in Targets : target' = [target EXCEPT ![j] = t]
  /\ registry' = registry \union {j}
  /\ status' = [status EXCEPT ![j] = "running"]
  /\ pc' = [pc EXCEPT ![j] = "begin"]
  /\ UNCHANGED <<stoppable, over, column, kept, cursor, changed, attempts, doubtful, runVars>>

\* Jobs.put of the fortieth job since: the oldest goes, whatever it is doing.
PushedOut(j) ==
  /\ OnRecord(j)
  /\ registry' = registry \ {j}
  /\ UNCHANGED <<status, kind, stoppable, pc, over, column, shrinkVars, runVars>>

\* playScenario: the command line's own.
StartCommand(j) ==
  /\ pc[j] = "none" /\ "cli" \in Kinds
  /\ kind' = [kind EXCEPT ![j] = "cli"]
  /\ status' = [status EXCEPT ![j] = "running"]
  /\ pc' = [pc EXCEPT ![j] = "start"]
  /\ UNCHANGED <<registry, stoppable, over, column, shrinkVars, runVars>>

\* The job's goroutine hands over its cancel function, if it is still on record.
Begin(j) ==
  /\ pc[j] = "begin"
  /\ stoppable' = IF OnRecord(j) THEN stoppable \union {j} ELSE stoppable
  /\ pc' = [pc EXCEPT ![j] = IF kind[j] = "shrink" /\ target[j] = NoTarget
                             THEN "start" ELSE "next"]
  /\ UNCHANGED <<registry, status, kind, over, column, shrinkVars, runVars>>

\* CancelJob.  Before its goroutine has begun a job is told to stop in vain.
Cancel(j) ==
  /\ OnRecord(j) /\ status[j] = "running"
  /\ j \in stoppable
  /\ over' = over \union {j}
  /\ UNCHANGED <<jobVars, pc, column, shrinkVars, runVars>>

\* -timeout, per scenario.
TimeOut(j) ==
  /\ kind[j] = "cli" /\ pc[j] # "ended"
  /\ over' = over \union {j}
  /\ UNCHANGED <<jobVars, pc, column, shrinkVars, runVars>>

\* What is written to a job no longer on record is lost.
End(j, s) ==
  /\ status' = [status EXCEPT ![j] = IF OnRecord(j) \/ kind[j] = "cli" THEN s ELSE @]
  /\ pc' = [pc EXCEPT ![j] = "ended"]
  /\ UNCHANGED <<registry, kind, stoppable, over, column, shrinkVars, runVars>>

-----------------------------------------------------------------------------
(***************************************************************************)
(* What to play next.                                                      *)
(***************************************************************************)

Probing(j) == kind[j] = "shrink" /\ target[j] = NoTarget

\* The steps of the run to be played.
Length(j) ==
  IF kind[j] = "shrink" /\ ~ Probing(j) THEN Len(kept[j]) - 1 ELSE Steps

\* runSweep: one column after the other, until the context ends.
NextColumn(j) ==
  /\ pc[j] = "next" /\ kind[j] = "sweep"
  /\ pc' = [pc EXCEPT ![j] = IF column[j] < Columns /\ j \notin over THEN "start" ELSE "finish"]
  /\ UNCHANGED <<jobVars, over, column, shrinkVars, runVars>>

\* runShrink: from the last step to the first, and again as long as that drops
\* any.  The last one left is never tried without, and a candidate that Validate
\* refuses is passed over without a run.
MayTry(j) == attempts[j] < MaxAttempts /\ j \notin over

\* A fault to seed: a round that dropped something is never forgotten.
NextCandidateForever(j) ==
  /\ pc[j] = "next" /\ kind[j] = "shrink"
  /\ \/ /\ cursor[j] > 0 /\ MayTry(j)
        /\ \/ /\ Len(kept[j]) > 1
              /\ attempts' = [attempts EXCEPT ![j] = @ + 1]
              /\ pc' = [pc EXCEPT ![j] = "start"]
              /\ UNCHANGED cursor
           \/ cursor' = [cursor EXCEPT ![j] = @ - 1] /\ UNCHANGED <<attempts, pc>>
     \/ /\ cursor[j] = 0 /\ MayTry(j) /\ changed[j]
        /\ cursor' = [cursor EXCEPT ![j] = Len(kept[j])]
        /\ UNCHANGED <<attempts, pc>>
     \/ /\ ~ MayTry(j) \/ (cursor[j] = 0 /\ ~ changed[j])
        /\ pc' = [pc EXCEPT ![j] = "finish"]
        /\ UNCHANGED <<attempts, cursor>>
  /\ UNCHANGED <<jobVars, over, column, target, kept, changed, doubtful, runVars>>

NextCandidate(j) ==
  /\ pc[j] = "next" /\ kind[j] = "shrink"
  /\ \/ /\ cursor[j] > 0 /\ MayTry(j) /\ Len(kept[j]) > 1
        /\ attempts' = [attempts EXCEPT ![j] = @ + 1]
        /\ pc' = [pc EXCEPT ![j] = "start"]
        /\ UNCHANGED <<cursor, changed>>
     \/ /\ cursor[j] > 0 /\ MayTry(j)
        /\ cursor' = [cursor EXCEPT ![j] = @ - 1]
        /\ UNCHANGED <<attempts, changed, pc>>
     \/ /\ cursor[j] = 0 /\ MayTry(j) /\ changed[j]
        /\ cursor' = [cursor EXCEPT ![j] = Len(kept[j])]
        /\ changed' = [changed EXCEPT ![j] = FALSE]
        /\ UNCHANGED <<attempts, pc>>
     \/ /\ ~ MayTry(j) \/ (cursor[j] = 0 /\ ~ changed[j])
        /\ pc' = [pc EXCEPT ![j] = "finish"]
        /\ UNCHANGED <<attempts, cursor, changed>>
  /\ UNCHANGED <<jobVars, over, column, target, kept, doubtful, runVars>>

\* Manager.Start gives the player a run of its own; not once its context is over.
StartRun(j) ==
  /\ pc[j] = "start" /\ j \notin over
  /\ open' = open \union {j}
  /\ played' = [played EXCEPT ![j] = 0] /\ seen' = [seen EXCEPT ![j] = {}]
  /\ waiting' = waiting \ {j} /\ cut' = cut \ {j}
  /\ pc' = [pc EXCEPT ![j] = "play"]
  /\ UNCHANGED <<jobVars, over, column, shrinkVars>>

\* Or it fails: a column with an error, a candidate passed over, a probe or a
\* command that ends there.
StartFails(j) ==
  /\ pc[j] = "start"
  /\ \/ /\ kind[j] = "cli" \/ Probing(j)
        /\ End(j, "failed")
     \/ /\ kind[j] = "sweep"
        /\ column' = [column EXCEPT ![j] = @ + 1]
        /\ pc' = [pc EXCEPT ![j] = "next"]
        /\ UNCHANGED <<jobVars, over, shrinkVars, runVars>>
     \/ /\ kind[j] = "shrink" /\ ~ Probing(j)
        /\ cursor' = [cursor EXCEPT ![j] = @ - 1]
        /\ pc' = [pc EXCEPT ![j] = "next"]
        /\ UNCHANGED <<jobVars, over, column, target, kept, changed, attempts, doubtful, runVars>>

-----------------------------------------------------------------------------
(***************************************************************************)
(* Playing a run to its end: playAll, and drive of the command line.       *)
(***************************************************************************)

\* Run.Step submits the next statement.  drive looks at its context first,
\* playAll does not.
Submit(j) ==
  /\ pc[j] = "play"
  /\ kind[j] = "cli" => j \notin over
  /\ j \in open /\ played[j] < Length(j)
  /\ played' = [played EXCEPT ![j] = @ + 1]
  /\ pc' = [pc EXCEPT ![j] = "step"]
  /\ UNCHANGED <<jobVars, over, column, shrinkVars, open, seen, waiting, cut>>

\* The errors that outcomeOfRun counts.
Errors == {"deadlock", "timeout"}

\* It returns with a result, or after the settle window with a statement that
\* waits ...
StepReturns(j) ==
  /\ pc[j] = "step"
  /\ pc' = [pc EXCEPT ![j] = "play"]
  /\ \/ UNCHANGED <<seen, waiting>>
     \/ /\ \E e \in Errors : seen' = [seen EXCEPT ![j] = @ \union {e}]
        /\ UNCHANGED waiting
     \/ seen' = [seen EXCEPT ![j] = @ \union {"blocks"}] /\ waiting' = waiting \union {j}
  /\ UNCHANGED <<jobVars, over, column, shrinkVars, open, played, cut>>

\* ... or at once when the context is over: a statement that was merely running
\* goes down as one that was blocked.
StepCut(j) ==
  /\ pc[j] = "step" /\ j \in over
  /\ pc' = [pc EXCEPT ![j] = "play"]
  /\ cut' = cut \union {j} /\ waiting' = waiting \union {j}
  /\ UNCHANGED <<jobVars, over, column, shrinkVars, open, played, seen>>

\* A statement that waits gets its lock, is chosen to break a deadlock, or has
\* waited too long.
Resolve(j) ==
  /\ j \in waiting
  /\ waiting' = waiting \ {j}
  /\ \/ UNCHANGED seen
     \/ \E e \in Errors : seen' = [seen EXCEPT ![j] = @ \union {e}]
  /\ UNCHANGED <<jobVars, pc, over, column, shrinkVars, open, played, cut>>

\* A fault to seed: the command line loops the way the jobs do, and never looks
\* at its context.
PlayedOutUnchecked(j) ==
  /\ pc[j] = "play" /\ j \in open
  /\ played[j] = Length(j) \/ (kind[j] # "cli" /\ j \in waiting)
  /\ pc' = [pc EXCEPT ![j] = IF kind[j] = "cli" THEN "settle" ELSE "read"]
  /\ UNCHANGED <<jobVars, over, column, shrinkVars, runVars>>

\* All steps submitted; or, for playAll, stuck behind an actor that waits for
\* good, which it reports as what did happen.  drive calls that an error.
PlayedOut(j) ==
  /\ pc[j] = "play" /\ j \in open
  /\ \/ /\ played[j] = Length(j)
        /\ kind[j] = "cli" => j \notin over
     \/ kind[j] # "cli" /\ j \in waiting
  /\ pc' = [pc EXCEPT ![j] = IF kind[j] = "cli" THEN "settle" ELSE "read"]
  /\ UNCHANGED <<jobVars, over, column, shrinkVars, runVars>>

\* The run was closed under the player, its time is up, it waits for good or
\* is cancelled while it waits.
GiveUp(j) ==
  /\ pc[j] = "play"
  /\ j \notin open \/ played[j] < Length(j) \/ (kind[j] = "cli" /\ j \in over)
  /\ pc' = [pc EXCEPT ![j] = "gave up"]
  /\ UNCHANGED <<jobVars, over, column, shrinkVars, runVars>>

\* settleAfterLastStep: wait for what still waits, for so long.
Settle(j) ==
  /\ pc[j] = "settle"
  /\ pc' = [pc EXCEPT ![j] = "read"]
  /\ UNCHANGED <<jobVars, over, column, shrinkVars, runVars>>

\* Others start runs, and the manager closes the oldest to make room.
Evicted(j) ==
  /\ j \in open
  /\ open' = open \ {j} /\ waiting' = waiting \ {j}
  /\ UNCHANGED <<jobVars, pc, over, column, shrinkVars, played, seen, cut>>

-----------------------------------------------------------------------------
(***************************************************************************)
(* What came of it.  The run is closed whatever it was.                    *)
(***************************************************************************)

CloseRun(j) == open' = open \ {j} /\ waiting' = waiting \ {j} /\ UNCHANGED <<played, seen, cut>>

\* A column is filled, with an error or without.
FillColumn(j) ==
  /\ pc[j] \in {"read", "gave up"} /\ kind[j] = "sweep"
  /\ column' = [column EXCEPT ![j] = @ + 1]
  /\ CloseRun(j)
  /\ pc' = [pc EXCEPT ![j] = "next"]
  /\ UNCHANGED <<jobVars, over, shrinkVars>>

\* outcomeOfRun: a statement that was cut off counts as one that blocked.
Shown(j) == seen[j] \union (IF j \in cut THEN {"blocks"} ELSE {})

\* What a probe found worth preserving, the rarest first.
Foremost(shown) ==
  IF "deadlock" \in shown THEN "deadlock"
  ELSE IF "timeout" \in shown THEN "timeout" ELSE "blocks"

\* The probe of a shrink without a target.
\* playAll's error is ignored here.
ProbeShows(j) ==
  /\ pc[j] \in {"read", "gave up"} /\ Probing(j)
  /\ CloseRun(j)
  /\ IF Shown(j) = {}
     THEN /\ status' = [status EXCEPT ![j] = IF OnRecord(j) THEN "done" ELSE @]
          /\ pc' = [pc EXCEPT ![j] = "ended"]
          /\ UNCHANGED target
     ELSE /\ target' = [target EXCEPT ![j] = Foremost(Shown(j))]
          /\ pc' = [pc EXCEPT ![j] = "next"]
          /\ UNCHANGED status
  /\ UNCHANGED <<registry, kind, stoppable, over, column, kept, cursor, changed, attempts, doubtful>>

\* A fault to seed: any wait reproduces a deadlock.
ReproducesAny(j) == pc[j] = "read" /\ Shown(j) # {}

\* reproduces: the candidate was played to its end and showed the target.
Reproduces(j) == pc[j] = "read" /\ target[j] \in Shown(j)

\* The candidate takes the place of what it was made from, or the step stays.
Judge(j) ==
  /\ pc[j] \in {"read", "gave up"} /\ kind[j] = "shrink" /\ ~ Probing(j)
  /\ CloseRun(j)
  /\ cursor' = [cursor EXCEPT ![j] = @ - 1]
  /\ \/ /\ Reproduces(j)
        /\ kept' = [kept EXCEPT ![j] = RemoveAt(@, cursor[j])]
        /\ changed' = [changed EXCEPT ![j] = TRUE]
        /\ doubtful' = IF target[j] \in seen[j] THEN doubtful ELSE doubtful \union {j}
     \/ ~ Reproduces(j) /\ UNCHANGED <<kept, changed, doubtful>>
  /\ pc' = [pc EXCEPT ![j] = "next"]
  /\ UNCHANGED <<jobVars, over, column, target, attempts>>

\* The job's last word.
Finish(j) ==
  /\ pc[j] = "finish"
  /\ End(j, IF j \in over THEN "cancelled" ELSE "done")

\* A fault to seed: the command leaves a run it gave up on to itself.
ReportOnly(j) ==
  /\ pc[j] \in {"read", "gave up"} /\ kind[j] = "cli"
  /\ status' = [status EXCEPT ![j] = IF pc[j] = "read" THEN "done" ELSE "failed"]
  /\ IF pc[j] = "read" THEN CloseRun(j) ELSE UNCHANGED runVars
  /\ pc' = [pc EXCEPT ![j] = "ended"]
  /\ UNCHANGED <<registry, kind, stoppable, over, column, shrinkVars>>

\* The command's report of the scenario.
Report(j) ==
  /\ pc[j] \in {"read", "gave up"} /\ kind[j] = "cli"
  /\ status' = [status EXCEPT ![j] = IF pc[j] = "read" THEN "done" ELSE "failed"]
  /\ CloseRun(j)
  /\ pc' = [pc EXCEPT ![j] = "ended"]
  /\ UNCHANGED <<registry, kind, stoppable, over, column, shrinkVars>>

-----------------------------------------------------------------------------
\* The player's goroutine.
Play(j) ==
  \/ Begin(j) \/ NextColumn(j) \/ NextCandidate(j) \/ StartRun(j) \/ StartFails(j)
  \/ Submit(j) \/ StepReturns(j) \/ StepCut(j) \/ PlayedOut(j) \/ GiveUp(j) \/ Settle(j)
  \/ FillColumn(j) \/ ProbeShows(j) \/ Judge(j) \/ Finish(j) \/ Report(j)

AtRest == \A j \in Players : pc[j] = "ended"
Rest == AtRest /\ UNCHANGED vars

Next ==
  \/ \E j \in Players :
       \/ StartJob(j) \/ PushedOut(j) \/ StartCommand(j) \/ Cancel(j) \/ TimeOut(j)
       \/ Play(j) \/ Resolve(j) \/ Evicted(j)
  \/ Rest

Spec == Init /\ [][Next]_vars

\* A goroutine goes on: a step returns after the settle window at the latest,
\* and playing has a budget of time.
Fairness == \A j \in Players : WF_vars(Play(j))

FairSpec == Spec /\ Fairness

-----------------------------------------------------------------------------
(***************************************************************************)
(* Properties.                                                             *)
(***************************************************************************)

\* A shrink drops a step only after a run without it has shown what is to be
\* preserved.  When it is asked for a deadlock that holds whatever interrupts
\* it; when it is asked for a wait, as long as it is not cancelled.
ReductionVerified ==
  \A j \in doubtful : target[j] = "blocks" /\ j \in over

\* What ApplyShrink's comment says of it, "what is saved is exactly what was
\* verified", and runShrink's of a cancelled one: "every step it dropped was
\* verified to be unnecessary before it was dropped".
EveryDropVerified == doubtful = {}

\* A command that reports no error has submitted every step, and none was cut
\* short by its timeout: a green run in CI is a run that happened.
CleanMeansPlayed ==
  \A j \in Players : kind[j] = "cli" /\ status[j] = "done" =>
    played[j] = Steps /\ j \notin cut

\* Between two runs, and once it has ended, a player holds no run: whatever
\* became of a run, it was closed.
NoRunLeft ==
  \A j \in open : pc[j] \in {"play", "step", "settle", "read", "gave up"}

\* What is played is accounted for: both of the above.
RunsAccounted == CleanMeansPlayed /\ NoRunLeft

\* Every job and every command ends, with its one word unless it was pushed out
\* of the registry: greedy or cancelled, a shrink runs out of steps to try.
JobEnds ==
  \A j \in Players : pc[j] # "none" ~>
    (pc[j] = "ended" /\ (status[j] # "running" \/ ~ OnRecord(j)))
=============================================================================
