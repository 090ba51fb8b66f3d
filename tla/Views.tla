------------------------------- MODULE Views --------------------------------
(***************************************************************************)
(* What LockView and Reports compute, for every input of small bounds: a   *)
(* behaviour begins with an input.  What is computed at one go is there in *)
(* the first state; a loop over a scenario's steps, a search among waits   *)
(* and a pull go on turn by turn and message by message.                   *)
(***************************************************************************)
EXTENDS LockView, Reports

CONSTANTS
  MaxRows,    \* bound: rows and their keys
  MaxLetters, \* bound: letters of a string in LOCK_DATA
  MaxSteps,   \* bound: steps of a scenario
  Actors,     \* who acts in scenarios
  MaxOutcomes,\* bound: steps of a run
  Durations,  \* how long a step takes, in milliseconds
  Columns,    \* the variants of a sweep
  MaxWaiting, \* transactions that wait for each other
  Layers,     \* the layers of an image
  Sizes       \* how many bytes a layer may have

ASSUME ViewsAssumption ==
  /\ MaxRows \in Nat /\ MaxLetters \in Nat /\ MaxSteps \in Nat /\ MaxOutcomes \in Nat
  /\ MaxWaiting \in Nat
  /\ Durations \subseteq Nat /\ Sizes \subseteq Nat
  /\ IsFiniteSet(Columns) /\ IsFiniteSet(Layers)
  /\ "none" \notin Actors

VARIABLES
  sample,     \* the input
  lint,       \* how far the warnings about a scenario are
  search,     \* how far the search for a cycle is
  pull,       \* the aggregator's state
  heard       \* heard[l]: how many messages about layer l came

viewsVars == <<sample, lint, search, pull, heard>>

\* The sequences of at most n elements.
UpTo(S, n) == UNION {[1..k -> S] : k \in 0..n}

-----------------------------------------------------------------------------
(***************************************************************************)
(* Inputs.                                                                 *)
(***************************************************************************)

Object(partition) == [table |-> "t", partition |-> partition]
Rows == [id : 1..MaxRows, v : 1..2]

\* The contents of a table: one row to an id.
Contents == {rows \in SUBSET Rows : \A r, s \in rows : r.id = s.id => r = s}

Modes == {{}, {"REC_NOT_GAP"}, {"GAP"}, {"GAP", "INSERT_INTENTION"}}

IndexNames == {"PRIMARY", "by_v", "by_expr"}

LockSamples ==
  [kind : {"lock"}, hasPK : BOOLEAN, rows : Contents, index : IndexNames, limit : {1, MaxRows},
   on : Rows, onIndex : IndexNames, mode : Modes, spelled : {"plain", "padded", "hex", "stored"},
   partition : 0..1, supremum : BOOLEAN]

\* The lock of a sample.  InnoDB reports the entry's own columns and the primary
\* key's, or a row id of its own where there is none.
LockOf(s) ==
  LET own == CASE s.onIndex = "PRIMARY" -> <<>> [] s.onIndex = "by_v" -> <<s.on.v>>
               [] OTHER -> <<ValueIn(s.on, Expr)>>
      key == own \o (IF s.hasPK THEN <<s.on.id>> ELSE <<MaxRows + s.on.id>>)
  IN [type |-> "RECORD", object |-> Object(s.partition), index |-> s.onIndex, mode |-> s.mode,
      supremum |-> s.supremum,
      key |-> [i \in DOMAIN key |-> [value |-> key[i], spelled |-> s.spelled]]]

Components ==
  {[string |-> TRUE, text |-> t] : t \in UpTo({Quote, Comma, Space, "a"}, MaxLetters)}
  \union {[string |-> FALSE, text |-> <<"1">>]}

RunSteps == [facts : {1}, status : {"done", "blocked"}, wasBlocked : BOOLEAN, ms : Durations]
RunRecords == [case : {"c"}, setup : {1}, steps : UpTo(RunSteps, MaxOutcomes)]

Cells ==
  [error : {"none"}, blocked : BOOLEAN, status : {"done"}]
  \union [error : {"deadlock"}, blocked : {TRUE}, status : {"error"}]
  \union [error : {"none"}, blocked : {FALSE}, status : {"pending"}]
Variants == [failed : BOOLEAN, cells : UpTo(Cells, MaxOutcomes)]

CaseSteps == [actor : Actors, sql : {"COMMIT", "UPDATE"}, expect : {"ok", "blocks"}]
Casts == UpTo(Actors \union {"none"}, 2)

\* Whom each waits for, in any order and nobody twice.
Waiting == 1..MaxWaiting
Edges == [Waiting -> {s \in UpTo(Waiting, MaxWaiting) : IsInjective(s)}]

\* What Docker says of a layer it has to fetch, and of one it has.
Scripts == {<<"Downloading", "Downloading", "Download complete", "Extracting", "Pull complete">>,
            <<"Already exists">>}

Samples ==
  LockSamples
  \union [kind : {"key"}, key : UpTo(Components, 2)]
  \union [kind : {"runs"}, a : RunRecords, b : RunRecords]
  \union [kind : {"sweep"}, columns : [Columns -> Variants]]
  \union [kind : {"case"}, cast : Casts, steps : UpTo(CaseSteps, MaxSteps)]
  \union [kind : {"waits"}, edges : Edges]
  \union [kind : {"pull"}, script : [Layers -> Scripts], size : [Layers -> Sizes]]

-----------------------------------------------------------------------------
ViewsInit ==
  /\ sample \in Samples
  /\ lint = LintStart
  /\ search = NewSearch(Waiting)
  /\ pull = NoProgress(Layers)
  /\ heard = [l \in Layers |-> 0]

\* lintCase looks at the next step.
Lint ==
  /\ sample.kind = "case" /\ lint.at < Len(sample.steps)
  /\ lint' = LintStep(lint, sample.steps[lint.at + 1])
  /\ UNCHANGED <<sample, search, pull, heard>>

\* hasCycle starts from the nodes in their order, unless it has been there.
SearchFrom(n) ==
  /\ sample.kind = "waits"
  /\ ~ search.found /\ search.path = <<>>
  /\ search.mark[n] = "new" /\ \A m \in 1..(n - 1) : search.mark[m] # "new"
  /\ search' = Visit(search, n)
  /\ UNCHANGED <<sample, lint, pull, heard>>

SearchGoesOn ==
  /\ sample.kind = "waits"
  /\ ~ search.found /\ search.path # <<>>
  /\ search' = SearchOn(search, sample.edges)
  /\ UNCHANGED <<sample, lint, pull, heard>>

\* A message about a layer.  One layer's come in order, the layers' among each
\* other in any; a download or an extraction may be anywhere.
Hear(l) ==
  /\ sample.kind = "pull" /\ heard[l] < Len(sample.script[l])
  /\ \E current \in 0..sample.size[l] :
       pull' = Record(pull, l, sample.script[l][heard[l] + 1], current, sample.size[l])
  /\ heard' = [heard EXCEPT ![l] = @ + 1]
  /\ UNCHANGED <<sample, lint, search>>

ViewsNext ==
  \/ Lint
  \/ SearchGoesOn \/ \E n \in Waiting : SearchFrom(n)
  \/ \E l \in Layers : Hear(l)

ViewsSpec == ViewsInit /\ [][ViewsNext]_viewsVars

-----------------------------------------------------------------------------
\* The entries of two rows in an index are texts that differ in the blanks at
\* their end, if at all.
AlikeIn(index, r, s) ==
  /\ TrimRight(r.id) = TrimRight(s.id)
  /\ index # "PRIMARY" => TrimRight(r.v) = TrimRight(s.v)

(***************************************************************************)
(* A lock is drawn where it is.  None of the table's is left out, a        *)
(* partition's neither; one whose entry is on screen is drawn on it and on *)
(* no other row, rows that share a secondary key included; and whether it  *)
(* is drawn on the record, before it or both is what the sentence beside   *)
(* it says.  It may be drawn on another row only if LOCK_DATA has it as    *)
(* text and that row's key differs in trailing blanks alone, which under   *)
(* a NO PAD collation is another key, and it is listed as unmatched if     *)
(* LOCK_DATA has the bytes InnoDB stores.  For tables with a primary key   *)
(* read in the order of columns: without, a key's prefix may name another  *)
(* row.                                                                    *)
(***************************************************************************)
LocksDrawnRight ==
  sample.kind = "lock" =>
    \A view \in {FetchTable(sample.rows, sample.hasPK, sample.index, sample.limit)} :
    \A drawn \in {Annotate(view, Object(0), {LockOf(sample)})} :
      LET s == sample
          marked == {i \in DOMAIN view.rows : drawn.rows[i].locks \union drawn.rows[i].gapLocks # {}}
          its == {i \in DOMAIN view.rows :
                    IF s.onIndex = "PRIMARY" THEN view.rows[i].row.id = s.on.id
                    ELSE view.rows[i].row = s.on}
          said == ExplainLockMode(LockOf(s))
      IN /\ marked # {} \/ drawn.supremum \union drawn.unmatched \union drawn.otherIndex # {}
         /\ s.hasPK /\ view.index # "by_expr" /\ s.onIndex = view.index /\ ~ s.supremum =>
              \/ marked = its
              \/ s.spelled = "stored" /\ marked = {}
              \/ /\ s.spelled \in {"plain", "padded"}
                 /\ \E i \in DOMAIN view.rows \ its :
                      marked = {i} /\ AlikeIn(s.onIndex, view.rows[i].row, s.on)
         /\ \A i \in marked :
              /\ drawn.rows[i].locks # {} <=> said \in {"record", "next-key"}
              /\ drawn.rows[i].gapLocks # {} <=> said # "record"

\* "every lock lands on the row it locks" (data.go:387): not beside a row whose
\* key has a blank more, nor if LOCK_DATA has the stored bytes.
LocksOnTheirRows ==
  sample.kind = "lock" /\ sample.hasPK /\ sample.index = sample.onIndex
  /\ sample.onIndex # "by_expr" /\ ~ sample.supremum =>
    \A view \in {FetchTable(sample.rows, sample.hasPK, sample.index, sample.limit)} :
    \A drawn \in {Annotate(view, Object(0), {LockOf(sample)})} :
    \A i \in DOMAIN view.rows :
      (view.rows[i].row.id = sample.on.id
         /\ (sample.onIndex = "PRIMARY" \/ view.rows[i].row.v = sample.on.v))
      <=> drawn.rows[i].locks \union drawn.rows[i].gapLocks # {}

(***************************************************************************)
(* A key that InnoDB writes into LOCK_DATA is read back component by       *)
(* component, with the quotes, commas and spaces its strings have.         *)
(***************************************************************************)
KeysReadBack ==
  sample.kind = "key" =>
    SplitLockData(WrittenKey(sample.key)) = [i \in DOMAIN sample.key |-> sample.key[i].text]

(***************************************************************************)
(* What a page shows of InnoDB's locks is so: both of the above.           *)
(***************************************************************************)
LocksRight == LocksDrawnRight /\ KeysReadBack

(***************************************************************************)
(* Comparing two runs is fair: it does not matter which comes first, a run *)
(* does not differ from itself, and no step that only one of them has goes *)
(* unreported.                                                             *)
(***************************************************************************)
ComparisonFair ==
  sample.kind = "runs" =>
    LET d == Diff(sample.a, sample.b)
        e == Diff(sample.b, sample.a)
    IN /\ d.steps = e.steps /\ d.changed = e.changed /\ d.setup = e.setup
       /\ sample.a = sample.b => d.changed = 0
       /\ \A i \in (DOMAIN sample.a.steps \union DOMAIN sample.b.steps)
                   \ (DOMAIN sample.a.steps \intersect DOMAIN sample.b.steps) : d.steps[i] # {}

(***************************************************************************)
(* A sweep is said to change nothing only on evidence (jobs.go:473): some  *)
(* column ran, and no two that ran differ in the outcome of a step.        *)
(***************************************************************************)
SummaryHonest ==
  sample.kind = "sweep" =>
    LET columns == sample.columns
        ran == {c \in Columns : ~ columns[c].failed /\ columns[c].cells # <<>>}
    IN SummariseMatrix(MaxOutcomes, columns).says = "changes nothing" =>
         /\ ran # {}
         /\ \A c, d \in ran : \A i \in DOMAIN columns[c].cells \intersect DOMAIN columns[d].cells :
              OutcomeOfCell(columns[c].cells[i]) = OutcomeOfCell(columns[d].cells[i])

\* Of the first n steps the actor's last is expected to wait, and neither it nor
\* one after it commits or rolls back.
StillWaits(steps, n, actor) ==
  \E j \in 1..n :
    /\ steps[j].actor = actor /\ steps[j].expect = "blocks"
    /\ \A k \in (j + 1)..n : steps[k].actor # actor
    /\ \A k \in j..n : ~ Releases(steps[k])

\* Some who each wait for one of them.
Deadlocked(edges, S) == S # {} /\ \A n \in S : Range(edges[n]) \intersect S # {}

(***************************************************************************)
(* A reader is warned of what is so.  However far the loop is, exactly the *)
(* steps are warned of that cannot run, their actor waiting still.  A      *)
(* cycle is reported only if some transactions each wait for one of them,  *)
(* and none reported only if there are none such.  And a scenario that     *)
(* validates leaves no doubt who takes a step.                             *)
(***************************************************************************)
WarningsRight ==
  /\ sample.kind = "case" =>
       /\ lint.warned = {i \in 1..lint.at : StillWaits(sample.steps, i - 1, sample.steps[i].actor)}
       /\ Valid(sample.cast, sample.steps) =>
            \A i \in DOMAIN sample.steps :
              Cardinality({a \in DOMAIN sample.cast : sample.cast[a] = sample.steps[i].actor}) = 1
  /\ sample.kind = "waits" =>
       LET dead == {S \in SUBSET Waiting : Deadlocked(sample.edges, S)}
           ended == search.path = <<>> /\ \A n \in Waiting : search.mark[n] # "new"
       IN /\ search.found => dead # {}
          /\ ended /\ ~ search.found => dead = {}

(***************************************************************************)
(* A pull's figures add up whichever order the layers' messages come in:   *)
(* a percentage is one, and when the last layer is complete it is 100.     *)
(***************************************************************************)
PullAddsUp ==
  sample.kind = "pull" /\ Total(pull) > 0 =>
    Percent(pull) \in 0..100 /\ (pull.done = Layers => Percent(pull) = 100)

(***************************************************************************)
(* What a reader is told of scenarios, runs, sweeps and pulls is so: the   *)
(* four properties above, each of the samples it is about.                 *)
(***************************************************************************)
ReportsRight == ComparisonFair /\ SummaryHonest /\ WarningsRight /\ PullAddsUp
=============================================================================
