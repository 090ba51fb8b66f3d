------------------------------ MODULE Reports -------------------------------
(***************************************************************************)
(* What is computed from scenarios, runs and lock waits for a reader: the  *)
(* comparison of two runs (internal/engine/diff.go), the summary of a      *)
(* sweep (internal/agentapi/jobs.go), the cycle among waits and the        *)
(* warnings about a scenario (internal/agentapi/api.go), its validation    *)
(* (internal/casedef/case.go) and the progress of a pull                   *)
(* (internal/dockerctl/client.go).                                         *)
(***************************************************************************)
EXTENDS Naturals, FiniteSets, Sequences, SequencesExt

-----------------------------------------------------------------------------
(***************************************************************************)
(* Comparing two runs.  A record is its setup and its steps; of a step,    *)
(* whatever is compared as it is, is one value, `facts'.                   *)
(***************************************************************************)

\* The bands durations are compared in.
DurationBucket(ms) ==
  Cardinality({bound \in {50, 500, 2000, 10000} : bound <= ms})

NoStep == [facts |-> 0, status |-> "none", wasBlocked |-> FALSE, ms |-> 0]
StepAt(record, i) == IF i <= Len(record.steps) THEN record.steps[i] ELSE NoStep

Waited(step) == step.wasBlocked \/ step.status = "blocked"

\* The labels under which two steps differ.
StepDiffs(a, b) ==
  IF a = NoStep \/ b = NoStep
  THEN IF a = b THEN {} ELSE {"Present"}
  ELSE UNION {
    IF a.facts # b.facts THEN {"Facts"} ELSE {},
    IF a.status # b.status THEN {"Outcome"} ELSE {},
    IF Waited(a) # Waited(b) THEN {"Hit a lock wait"} ELSE {},
    IF DurationBucket(a.ms) # DurationBucket(b.ms) THEN {"Duration"} ELSE {}}

\* A fault to seed: as many rows as the first run has steps.
AlignedFirst(a, b) == Len(a.steps)

\* Steps are aligned by index, as many as the longer run has.
Aligned(a, b) == IF Len(a.steps) < Len(b.steps) THEN Len(b.steps) ELSE Len(a.steps)

Diff(a, b) ==
  LET steps == [i \in 1..Aligned(a, b) |-> StepDiffs(StepAt(a, i), StepAt(b, i))]
  IN [sameCase |-> a.case = b.case, setup |-> a.setup # b.setup, steps |-> steps,
      changed |-> Cardinality({i \in DOMAIN steps : steps[i] # {}})]

-----------------------------------------------------------------------------
(***************************************************************************)
(* A sweep.  A column is what became of one variant of the scenario: the   *)
(* outcome of each step, and whether its run failed.                       *)
(***************************************************************************)

OutcomeOfCell(cell) ==
  IF cell.error \in {"deadlock", "timeout"} THEN cell.error
  ELSE IF cell.error # "none" THEN "error"
  ELSE IF cell.blocked THEN "blocked"
  ELSE IF cell.status = "pending" THEN "not reached"
  ELSE "ok"

Reached(column, i) == i <= Len(column.cells)

\* A fault to seed: the first column speaks for the others.
OutcomesFirst(columns, i) ==
  {OutcomeOfCell(columns[1].cells[i]) : c \in {c \in {1} : Reached(columns[1], i)}}

\* The outcomes of a step over the columns that have it.
Outcomes(columns, i) ==
  {OutcomeOfCell(columns[c].cells[i]) : c \in {c \in DOMAIN columns : Reached(columns[c], i)}}

Failed(column) == column.failed \/ column.cells = <<>>

SummariseMatrix(steps, columns) ==
  LET differing == {i \in 1..steps : Cardinality(Outcomes(columns, i)) > 1}
      failed == {c \in DOMAIN columns : Failed(columns[c])}
  IN [differing |-> differing, failed |-> failed,
      says |-> IF differing # {} THEN "outcomes differ"
               ELSE IF failed = DOMAIN columns THEN "nothing could be compared"
               ELSE "changes nothing"]

\* The one word for a run in the list of runs.
OutcomeOf(r) ==
  IF r.mismatches > 0 THEN "mismatch"
  ELSE IF r.deadlocks > 0 THEN "deadlock"
  ELSE IF r.timeouts > 0 THEN "timeout"
  ELSE IF r.errors > 0 THEN "error"
  ELSE IF r.submitted = 0 THEN "not-started"
  ELSE "clean"

-----------------------------------------------------------------------------
(***************************************************************************)
(* Waits.  edges[n] is the sequence of those n waits for.  The search is   *)
(* depth first; it goes on call by call.                                   *)
(***************************************************************************)

\* Who is on the path and who is done; of each how many edges were looked at;
\* and the calls of visit that have not returned, innermost last.
NewSearch(nodes) ==
  [mark |-> [n \in nodes |-> "new"], at |-> [n \in nodes |-> 0], path |-> <<>>, found |-> FALSE]

\* A fault to seed: coming back to where one has been is a cycle.
VisitSeen(search, n) ==
  CASE search.mark[n] # "new" -> [search EXCEPT !.found = TRUE]
    [] OTHER -> [search EXCEPT !.mark[n] = "on path", !.path = Append(@, n)]

\* visit is called for n.
Visit(search, n) ==
  CASE search.mark[n] = "done" -> search
    [] search.mark[n] = "on path" -> [search EXCEPT !.found = TRUE]
    [] OTHER -> [search EXCEPT !.mark[n] = "on path", !.path = Append(@, n)]

\* The innermost call goes on: with its next edge, or back.
SearchOn(search, edges) ==
  LET n == Last(search.path)
      i == search.at[n] + 1
  IN IF i \in DOMAIN edges[n] THEN Visit([search EXCEPT !.at[n] = i], edges[n][i])
     ELSE [search EXCEPT !.mark[n] = "done", !.path = Front(@)]

-----------------------------------------------------------------------------
(***************************************************************************)
(* Scenarios: who acts in them and their steps.                            *)
(***************************************************************************)

\* Names of actors that are no name are skipped, the others counted.
Seen(actors) == {a \in Range(actors) : a # "none"}

Duplicated(actors) ==
  \E i, j \in DOMAIN actors : i < j /\ actors[i] = actors[j] /\ actors[i] # "none"

\* Validate: no problem found.
Valid(actors, steps) ==
  /\ actors # <<>> /\ steps # <<>>
  /\ "none" \notin Range(actors) /\ ~ Duplicated(actors)
  /\ \A i \in DOMAIN steps : steps[i].actor \in Seen(actors)

Releases(step) == step.sql \in {"COMMIT", "ROLLBACK"}

\* lintCase before its loop, with `at' steps behind it.
LintStart == [at |-> 0, warned |-> {}, blocked |-> {}]

\* A fault to seed: a statement that waits is not waited for after a warning.
LintStepOnce(lint, step) ==
  LET stuck == step.actor \in lint.blocked
      waits == step.expect = "blocks" /\ ~ stuck
  IN [at |-> lint.at + 1,
      warned |-> lint.warned \union (IF stuck THEN {lint.at + 1} ELSE {}),
      blocked |-> IF Releases(step) THEN {}
                  ELSE lint.blocked \union (IF waits THEN {step.actor} ELSE {})]

\* One turn of it: a step of an actor whose last one is expected to be waiting
\* still.
LintStep(lint, step) ==
  LET stuck == step.actor \in lint.blocked
      waits == step.expect = "blocks"
  IN [at |-> lint.at + 1,
      warned |-> lint.warned \union (IF stuck THEN {lint.at + 1} ELSE {}),
      blocked |-> IF Releases(step) THEN {}
                  ELSE (lint.blocked \ {step.actor}) \union (IF waits THEN {step.actor} ELSE {})]

-----------------------------------------------------------------------------
(***************************************************************************)
(* A pull.  Of every layer the bytes downloaded and extracted, of their    *)
(* totals; a layer whose messages have not come has none.                  *)
(***************************************************************************)

NoBytes == [current |-> 0, total |-> 0]
NoProgress(layers) ==
  [download |-> [l \in layers |-> NoBytes], extract |-> [l \in layers |-> NoBytes],
   done |-> {}, phase |-> "none"]

Full(bytes) == [bytes EXCEPT !.current = bytes.total]

\* A fault to seed: a layer that is complete keeps its last figures.
CompleteAsIs(agg, l) == [agg EXCEPT !.done = @ \union {l}]

Complete(agg, l) ==
  [agg EXCEPT !.done = @ \union {l}, !.download[l] = Full(@), !.extract[l] = Full(@)]

\* record: one message of Docker's about a layer.
Record(agg, l, status, current, total) ==
  CASE status = "Downloading" ->
         [agg EXCEPT !.phase = "downloading", !.download[l] = [current |-> current, total |-> total]]
    [] status = "Extracting" ->
         [agg EXCEPT !.phase = "extracting", !.extract[l] = [current |-> current, total |-> total]]
    [] status = "Download complete" -> [agg EXCEPT !.download[l] = Full(@)]
    [] status \in {"Pull complete", "Already exists"} -> Complete(agg, l)

\* What is shown: the bytes of the phase, all layers together.
Counts(agg) == IF agg.phase = "extracting" THEN agg.extract ELSE agg.download
SumOf(counts, field) == FoldFunction(LAMBDA b, sum : b[field] + sum, 0, counts)
Total(agg) == SumOf(Counts(agg), "total")
Percent(agg) ==
  LET share == (SumOf(Counts(agg), "current") * 100) \div Total(agg)
  IN IF share > 100 THEN 100 ELSE share
=============================================================================
