# Deadlocker: specifications, model checks and proofs

Deadlocker plays scenarios of several database sessions step by step against a
real MySQL, so that one can watch statements wait for locks, time out and
deadlock. Around that core of concurrent Go stand a register of runs, background
analyses, an assistant that drives runs by itself, a proxy that decodes the
traffic, a library of scenario files, a small database and an editor that saves
as one types. This directory holds TLA+ models of these parts, TLC
configurations that check them on small instances, and TLAPS proofs of what
matters most for every instance.

`src/` below is the repository's root; paths without it are relative to
`src/internal/`. `PROJECT.json` names the source lines behind every definition.

Contents: 1 the system - 2 the models - 3 the runs - 4 fairness - 5 what is
proved - 6 disagreements with the documentation - 7 what is not modelled - 8 what
is left to do

## 1. The system

| part | state it keeps | operations | talks to | what makes it right |
|---|---|---|---|---|
| **Run** `engine/run.go`, `engine/console.go` | one record behind `r.mu`: status, cursor, steps, actors, console sessions, `closed`, `ready` | `Setup`, `WaitReady`, `Step`/`execute`, `OpenSession`, `CloseSession`, `Console`/`executeConsole`, `Close` | pool, MySQL (through one wire proxy per session), bus, manager's state hook | one statement at a time per connection; a registered session's packets tagged with the statement on the wire; outcomes and verdicts final; finished means all settled; closing gives everything back and ends |
| **Bus** `engine/bus.go`, the SSE handler in `web/server.go` | sequence number, bounded history, subscriber channels | `Publish`, `Subscribe`, cancel, `Close`; the handler's replay and live loop | runs publish, pages read | nothing missed or repeated between backlog and channel; history unbroken; streams end |
| **Timeline** `Step`, `execute`, `publishStep`, `publishState`, `web/static/run.js` | a page's card per step | clone under the lock, publish after it | bus | a card announces, never goes back, shows the outcome |
| **Pool and Owner** `mysqlbox/box.go`, `owner.go` | containers by key, starts under way; a lock file per process | `Acquire`, `start`, `Close`, `ReapStale`; `NewOwner`, `Close`, `ownerAlive` | Docker, file locks | one server per key; none forgotten; litter reaped; a live instance's servers spared |
| **Manager and History** `engine/manager.go`, `history.go`, handlers in `web/server.go` | live runs in order, at most `maxRuns`; records, at most `historyLimitRuns` | `Start`, `StartAsync`, eviction, `CloseRun`, `CloseAll`, the state hook; `Put`, `Forget` | runs, web, agents, CLI | no open run out of reach; cap respected; records current, and gone once forgotten |
| **Inspection** `engine/inspect.go`, `data.go`, `diff.go` | none | the views of locks, rows and indexes; comparison of runs | MySQL's admin connection | a lock is drawn on the row it covers, as far as LOCK_DATA tells; differences shown are differences |
| **Wire** `wire/` | per connection: two pumps, one decoder | forward, decode, emit | MySQL driver and server | packets labelled as what they are and attributed to their statement; the end reported last |
| **Jobs** `agentapi/jobs.go`, the command line's `playOne` | registry of jobs, capped; per job a run | sweep, shrink, play; cancel, timeout | manager, library | what a shrink drops was seen to be spared; clean means played; jobs end and hold no run |
| **Chat** `chat/`, handlers in `web/api.go`, `web/static/chatcore.js`, `assistant.js`, operations of `agentapi/api.go` | sessions with their history; the page's queue; the draft | messages, turns, tools, stop, apply, save | language model, library, store, a run | a conversation in order; messages heard; a stop heeded; one scenario, never saved back to an older text |
| **Library** `casedef/`, `store/scenarios.go` | scenarios by id and broken files, over a directory; revisions | `Load`, `Save`, update, restore, import, `Seed`, `RemoveBuiltIns` | files, store | loaded is what is on disk; revisions kept; an import that finds a free path adds one |
| **Store** `store/store.go`, `drafts.go`, `web/static/playground.js`, settings handlers | configuration versions; drafts | `Save`, `Restore`; `SaveDraft`, `DeleteDraft`, autosave, discard, leave | editor, settings page | a version names one configuration; an older text never replaces a newer one; what is discarded with no save under way stays gone |
| **CLI and server** `src/cmd/deadlocker` | none | start, play scenarios, shut down | all of the above | every scenario ends with a report |

**How the parts interact.** `StartAsync` makes a run and starts `Setup` in a
goroutine; it acquires a server from the pool, creates a scratch database and
dials a connection per actor, each through a wire proxy that reports packets to
the run. `Step` marks the next statement running under the lock, publishes, and
starts `execute` in a goroutine; the caller waits for it at most for the *settle
window*, then takes the lock again and calls the statement blocked if it has not
answered. `execute` takes the lock when MySQL answers, perhaps minutes later.
Both publish to the bus copies they made under the lock. Pages read the bus over
SSE. `Close` may be called at any time, by users, eviction, shutdown or a failed
`Setup`. The manager's hook turns a run's state into a record in the history
whenever the run says that it changed. Besides a person at a page, runs are
driven by jobs, by the command line and by the assistant, each with a context
that may end while a statement is out. Scenarios live in files that anyone may
edit; the library rereads them on every page, and revisions, drafts and settings
live in a database whose transactions are the only locks between requests.

**Where it is hard.** Goroutines that race for `r.mu` after unlocked work
(settle timer against answer, `Close` against `Setup`, `OpenSession` against
`Close`); copies made under a lock and used after it (bus channels, results,
states, records); make room in one critical section and register in another;
statements that never answer, which teardown must not wait for; contexts that
end between two steps, so that "blocked" means "not waited for"; pumps that
forward before they decode; channels, histories and caps that are full; starts
that fail half-way or whose answer is lost; requests that are refused, reordered
or answered to nobody; files that change under a walk; processes that are killed
and leave locks and containers behind. `PROJECT.json` lists these as hazards,
each at its line, with the properties that would catch it going wrong.

## 2. The models

### Run (`Run.tla`, `MCRun.tla`), `Playback.tla`

An action is one critical section of `r.mu`, or one stretch of unlocked work
between two.

| code | actions |
|---|---|
| `Setup`, `setup`, `openActor`, `dial` | `SetupAcquire`, `SetupCreateDatabase`, `SetupOpenDB`, `SetupSchema`, then `SetupConnect`/`SetupConfigure` per actor; `SetupFails` at each; `SetupConclude` writes the verdict, `SetupCleanup` closes after a failure |
| `Close` | `Close` (all that is under the lock), `CloseKill`, `CloseRelease`, `CloseDrop` |
| `OpenSession`, `CloseSession` | `OpenSession`, `OpenDial`, `OpenConfigure`, `OpenRefused`, `OpenRegister`; `CloseSession`, `CloseSessionKill`, `CloseSessionRelease` |
| `Step`, `Console` | `Step`, `Console` (up to the unlock), `Classify` (after the wait) |
| `execute`, `executeConsole` | `MySQLAnswers`, `StatementAborted` |

Sessions are numbered, the actors first, then the console sessions in the order
of `consoleSeq`; statements likewise, steps first, then console entries in the
order of `entrySeq`. `wasBlocked`, `fault` and `verdict` are the fields of a
step result that properties are about; result rows, plans, timings, hints and
messages are left out. `conn[s]` stands for a session's proxy, `sql.DB` and
`sql.Conn` together, from the server's side: `none`, `open`, `killed`,
`released`. `sql.Conn.Close` waits for the statement running on it: that is the
guard `Quiet`. `PacketTag(s)` is what `onWire` finds when it looks up session s: it
looks in `r.actors` and `r.consoles`, so a session that `CloseSession` took out
has no entry's tag, even while its last statement is in flight.

*Environment.* MySQL may answer a statement on a healthy connection at any time,
with any answer of `Answers`, or never. A killed connection or a cancelled
context makes its statement return with an error. MySQL obeys `KILL CONNECTION`
and `DROP DATABASE`; the 15 seconds `Close` allows itself for both are not
modelled.

`Playback` is the abstract specification: every step is submitted once, in
order, on a connection that has answered everything before, and goes from
running through perhaps blocked to settled, where it stays. Under the refinement
mapping (`PlaybackOf`) a step that is done or failed is *settled* and the run
has *ended* when `closed` is set; sessions, setup, console and teardown are
stutters.

### Bus (`Bus.tla`)

`Publish` is `Stamp` (under the lock) followed by one `Send` per subscriber
copied; `Subscribe`, `Cancel` and `Close` are critical sections of their own and
may fall in between. The SSE handler is `Replay` and `Receive`. A page opens
streams one after the other, asking for everything or for what follows the last
event it got. A send to a closed channel sets `panicked`, which stops the
process.

### Timeline (`Timeline.tla`, `MCTimeline.tla`)

Per step two goroutines, its caller and its executor, each with a program
counter and the copy it made under the lock; one more for `Close`. `told[i]` is
what the bus was given about step i in that order, and the card shows its last
element. Run has the state that is guarded by the lock; this module has what
happens to copies of it after the lock, so the two abstract the same functions
from different sides. `Teardown` stands for the killing and releasing that Run
models in full.

### Pool (`Pool.tla`, `MCPool.tla`), `SingleFlight.tla`

Processes come up (`Claim`; `List` or `SkipReaping`), reap (`Keep`, `Condemn`,
`TryLock`/`DropLock`, `Reap`), serve callers, shut down (`ClosePool`,
`RemoveBox`, `CloseOwner`, `Exit`) or are `Killed` at any point. A caller's
`Acquire` looks under the lock, waits, or starts a container (`Create`,
`CreateFails`, `Boot`, `BootFails`, `Conclude`, `Announce`). A lock file is
absent, held by its process, or left; `trying` says who holds a left one to find
out that its owner is gone. *Environment*: Docker does what it is asked, except
that the answer to a create may be lost; containers do not die by themselves;
process ids are never used twice (they are 64 random bits).

`SingleFlight` is what callers may count on, without Docker, locks or reaping: in
a process one caller at a time makes the value of a key, and only while there is
none; the others wait for that caller, ask again once it is through, however it
ended, and are given what there is; no value is given under two keys, by two
processes or again. `Pool` refines it with its boxes as the cached values,
`starting` as the flights, and each caller's program counter read as `At` (a
caller is "making" from the start it wins until the pool knows how it ended). A value is
`Spent` once nobody is at work on the container: it is in a pool, was, or failed.

### Registry (`Registry.tla`, `MCRegistry.tla`)

The *hands* are goroutines: starters, users, steppers, and for each run that was
started asynchronously the one its `Setup` runs in. A hand has a program counter
`pc`, the run it is at (`job`), the record it carries (`carried`), and for
`CloseAll` the list it took (`todo`).

| code | actions |
|---|---|
| `evictIfNeeded` | `Evict`, and the closing of the evicted run |
| `Start`, `StartAsync`, `register` | `StartAsync`, `Start`, `Hook`, `Register`, with `SetupReturns`, `Setup` |
| the state hook, `snapshotRecord`, `History.Put` | `Publish`, `Snapshot`, `Put`: three critical sections |
| `CloseRun`, `Forget` and its handler, clearing the log | `CloseRun`/`Unregister`; `ForgetRun`, `ForgetCloses`, `Forget`; `ClearRuns`, `ClearLists` |
| `CloseAll` | `CloseAll`, then `Retire` run by run; `Close` |

A run is its status and `news[r]`, how much happened to it: two snapshots can be
told apart by age, which is all a record needs to be. `Run.Close` may report an
error, after which the handler that was to forget the run does not (`AfterClose`).

### Jobs (`Jobs.tla`), Chat (`Chat.tla`), composed in `Drivers.tla`

`Jobs`: `StartJob`, `PushedOut` (the fortieth job since pushes this
one out of the registry), `StartCommand`, `Begin`, `Cancel`, `TimeOut`; a sweep's `NextColumn`, a shrink's
`NextCandidate`; the drive loop `StartRun`/`StartFails`, `Submit`,
`StepReturns`/`StepCut`, `Resolve`, `PlayedOut`, `GiveUp`, `Settle`; `Evicted`
when the manager closes its run, `CloseRun`; what is made of the run:
`FillColumn`, `ProbeShows`, `Reproduces`, `Judge`, `Finish`, `Report`, `End`.
What MySQL does with a candidate is arbitrary: any subset of steps may block,
deadlock, time out or answer. A candidate may be one that does not validate, which
`NextCandidate` passes over without a run.

`Chat`: the composer's queue and stream (`Compose`, `ReadEnd`,
`LoseConnection`, `CloseBuilder`), the service (`ForgetSession`, `Send`,
`Answer`, `Returns`, `Fails`), the draft and its saves (`SetDraft`,
`ApplyDraft`, `SaveDraft`/`Saved`, `UserSave`/`UserSaved`), and the run
(`RunDraft`, `StepRun`, `Look`, `Step`, `StepRunStops`, `CloseTheRun`,
`StopRun`). The language model is any model: a turn calls tools in any order.

Both drive runs of their own and meet other users only where the manager closes
their run, which each has as a step; so a behaviour of `Drivers` is a behaviour
of one of them.

### Wire (`Wire.tla`)

The pumps are modelled as they are written: `Forward`, then `Decode`, then
`Emit`, per direction, and `PumpEnds`. The decoder is a function of its state and
a packet (`Decode...`, one operator per handler). A packet has the fields the
decoder looks at, and beside them what it truly is and which statement it is
about, known to client and server but not to the decoder; so a property can
compare. Client and server are external and speak the protocol: logins, text
queries, several result sets, prepared statements with reused ids, errors at any
point, both ways of ending a block, and connections that end at any point. A row of
text may start with an empty value or a NULL (`RowStarts`), which matters when the
decoder takes it for something else; `OkReads` is the id that is read in an OK that
has none, when it is taken for the answer to a prepare (`DecodeShortOK`). A second
result set is there as the OK in its place. The client executes only statements it has not closed (`Open`): an earlier version let
it execute any it had prepared, which no driver does, and the attempt to prove
`RightStatement` for any number of commands showed it; TLC's two commands are too
few to prepare, close and execute.

### Library (`Library.tla`, `MCLibrary.tla`)

A disk of files, the catalogue in memory, the revisions in the database, and per
request a program counter: `Load` is a walk file by file (`WalkFile`,
`WalkStops`) and an `Install` under the lock; every writer is its check, its
write to the file (`Truncate`, `Fill` where the file is not replaced
atomically), its reload and its `RecordScenario`. `SaveScenario`, `Update`,
`RestoreRevision`, `Import` with `FreePath`, `Seed` and `RemoveBuiltIns` are the
operations; `LibrarySpec` is the specification. A request that another one
disturbed carries `disturbed`, which properties use as their exception. A walk
lists a directory before it reads the files in it: one that is new since may be
passed over, and one that is gone since is an error like that of a file that does
not parse (`Meets`). A writer may find that its file was removed while it had it
open (`FillRemoved`), or was written by another, and then the two may be mixed.
`FreePath` tries the suggested path, then the `Copies` in their order, the code's
suffixes 2 to 99, and when all are taken returns the suggested path after all. A
path may have no id (`NoId`): `slugify` leaves nothing of a name without letters
and digits, and `RecordScenario` refuses the empty id.

### Drafts (`Drafts.tla`), Settings (`Settings.tla`), composed in `Store.tla`

A tab is one editor page: what is typed, what is in flight, which id it has;
`wire` holds the requests and answers under way, which are taken in any order,
refused or lost. Actions are the page's handlers (opening, typing, the autosave
timer, discard, file save, leaving with a beacon) and the server's. `Settings` has the two
transactions of a form's save, with other saves and restores in between. `Store`
puts them in one database: a tab shows an editor or the settings.

### Views (`LockView.tla`, `Reports.tla`, `Views.tla`)

`LockView` translates the reading of indexes, `SplitLockData` and the drawing of
locks on rows; `Reports` translates the comparison of two runs, a sweep's summary,
a scenario's warnings, lock cycles in the graph of waits, and the adding up of an
image pull. `Views` picks every input within its bounds, one per initial state, and
states what the answers should be by definitions that do not follow the code. What
is computed at one go is there in the first state; the loop over a scenario's steps
(`Lint`), the search for a cycle of waits (`SearchFrom`, `SearchGoesOn`) and a pull
(`Hear`) go on turn by turn and message by message. Both modules are written to be
proved about: loops are recursive functions (`Loop`), an order is given by how many
come before (`RowsInOrder`), and the search has a stack of its own in place of the
code's recursion. Values come in pairs that differ only in a blank at the end, and
`ComponentMatches` trims both sides as the code does; `LOCK_DATA` may have a value as
text, padded or not, in hex of the text, or in hex of the bytes InnoDB stores, as
it does for DATETIME and DECIMAL. A LOCK_DATA text has five letters; a string with the word
"supremum" in it, which `SplitLockData` takes for no key at all, is not among them.

## 3. The runs

| run | module, cfg | bounds | states | question |
|---|---|---|---|---|
| `run_play` | MCRun, RunPlay | 2 actors, steps on actors 1-2-1 expecting blocks/error/ok, 1 console session, 1 typed statement, answers ok and deadlock | 903,326 | is what is in flight, tagged while its session is registered, judged and finished right, and is Playback implemented? |
| `run_close` | MCRun, RunClose | 2 actors, one step each, 1 console session, 1 typed statement, answer ok; with fairness | 49,964 | does Close end, release what a run that was up had, and is a played run finished? |
| `run_bus` | Bus, BusStreams | 2 publishers, 5 events, history 4, channels of 2, 2 streams; with fairness | 602,392 | is nothing missed or repeated, and do streams end? |
| `bus_panic` | Bus, BusPanic | the same with 2 events | - | section 6 |
| `run_timeline` | MCTimeline, TimelineSteps | 2 actors, one step each; with fairness | 348,988 | are steps announced first, outcomes and the end published? |
| `run_pool` | MCPool, PoolShared | a server with 2 callers, a command-line process, 1 key, 2 containers; with fairness | 75,040 | is SingleFlight implemented, is no server forgotten, are live ones spared, is litter reaped? |
| `run_registry` | MCRegistry, RegistryRuns | 2 runs, 2 starters, a user, a stepper, 1 resident run, 1 record, 1 change of a run beside its setup | 1,432,438 | is no open run out of reach, the cap kept, the log current, the forgotten gone? |
| `run_drivers` | Drivers, Drivers.cfg | 1 player of any kind, 3 steps, 2 columns, 3 attempts, three targets; 2 messages, 1 tool call each, 1 new text, runs of 2 steps; with fairness | 309,888 | do those who drive runs by themselves tell the truth, stop and end? |
| `run_wire` | Wire, WirePumps | 2 commands, result sets of up to 1 row that starts with a value, an empty one or NULL; with fairness | 661,505 | is what is shown of a connection decoded in order what went over it, but for what follows a classic EOF with more results? |
| `run_library` | MCLibrary, LibraryWrites | 2 requests at a time, 3 operations, 3 files in 2 directories, one of them without an id, 1 copy to try, 2 documents | 2,322,794 | is what is loaded on disk, what is written kept, what is imported added? |
| `run_store` | MCStore, StorePages | 2 tabs, 2 changes of text, 2 drafts of which 1 is kept, 2 messages under way, 1 fault; 3 versions | 2,820,166 | does a page know what is stored, and is a newer text or version never lost? |
| `run_views` | Views, ViewsInputs | up to 3 rows, keys of 2 components of 2 letters, 3 steps, 3 transactions waiting, 2 layers of 1 or 2 bytes, 2 outcomes | 427,887 | is what is shown of locks, runs, sweeps, scenarios and pulls so? |

*Why these bounds are enough.* Three steps on two actors is the smallest
scenario where an actor is submitted to again after it waited while another
went on, so that `Step` can be refused and the last step submitted need not be
the last to answer. One console session and one typed statement make a step and
typed SQL contend for a connection, and `CloseSession` race the statement on its
session. `Answers` tells apart success, an error of a kind of its own, and (from
an abort) any other error; `timeout` behaves as `deadlock` does. The liveness
run has fewer steps because its properties are about teardown.

On the bus, five events pass the history limit of four, two per channel overflow
it, and the second stream resumes within the trimmed history. In the pool two
callers race for a start, one of them may fail, and a second process reaps while
the first starts, serves, ends or is killed; two containers allow a second start
after a failed or lost one. `LitterIsReaped` excepts overlapping reapings, which
takes a third process to matter (two reapers and a dead owner); `run_pool` has
two, so that clause is not exercised by it. One key is enough for callers to race;
that a server is not given out under two, `PoolImplementsSingleFlight` shows for
any number.

In the register two runs and a cap of one make every second start evict, two
starters pass the check for room together, a log of one record drops one, and a
user and a stepper are the two other hands that write records. The theorems of
section 5 say that the safety properties need no bound.

A shrink of three steps has a second pass over what is left after a step was
dropped, and three attempts are fewer than it may want; targets are a wait, an error
and none, which the shrink then finds out; two columns make a sweep
go on after a failure. Two messages make a queue; with one tool call per turn
every tool meets every other across the two turns, and runs of two steps allow a
stop between the first and the second. Players of different jobs share only the
registry of jobs and its cap, which is why one suffices: what the others do to it
is `PushedOut`, which may happen to a job at any moment.

On the wire, two commands are the least that can be confused with each other:
the second may be decoded before the end of the first, or execute what the first
prepared. In the library three files make a clash of ids, a path without an id, and a
free and a taken path; with one copy to try instead of the code's 98 an import soon
finds all of them taken. Two requests are a writer and another, and three operations a write, its
undoing and a third that meets both. In the editor two texts are an older and a
newer one, one draft kept of two makes the limit bite, two messages under way can
overtake each other, and after one fault the page tries again. Three versions
are the first, the one a request read and the one that came in between. Three rows
are two whose keys differ in a blank and one beside them.

*The properties.* Each is stated, with a comment, in the module it belongs to.
Those that are a conjunction name their parts:

- Run: `StatementsRight` (`OneStatementPerConnection`, `TagsNameTheStatement`),
  `FinishedMeansSettled`, `ReadyRight` (`ReadyMeansConnected`,
  `ReadyClosedOnce`); the action properties `OutcomeIsFinal` and
  `BlocksClaimStands`; the refinement `ImplementsPlayback`; the temporal
  `UpRunIsReleased`, `ClosedComesToRest` and `PlayedToTheEnd`. The last excepts
  runs where something was typed into the console, because `executeConsole` does
  not ask whether the run is finished: a run whose last step answers while the
  console keeps an actor busy stays "running".
  `TagsNameTheStatement` is about registered sessions: the packets of a statement
  still in flight on a closed session carry no tags, which is `EveryFlightIsTagged`
  in section 6.
- Bus: `DeliveryRight` (`HistoryUnbroken`, `NoEventTwice`, `NothingMissed`,
  `PublisherOrderKept`), `StreamsEnd`. Order across publishers is not kept by
  the code and is not claimed.
- Timeline: `StepsAreTold` (always `AnnouncedFirst`, always `FinishIsTold`, and
  `OutcomeReachesTimeline`). That "finished" is told last is not claimed: an
  older "running" may follow it.
- Pool: `LiveContainersSpared` (of a registered instance, when every process
  knows the lock directory), the refinement `ImplementsSingleFlight`, `NoneForgotten`
  (but for a lost answer), `WaitersWake`, `LitterIsReaped`.
- Registry: `CapKept` (the cap is passed by at most the starts that are under
  way beside one), `NothingDropped` (an open run is in the register, with the
  starter that made it, or with somebody about to close it),
  `ForgottenStaysForgotten`, and `RecordKeepsUp`, which excepts runs whose newer
  record a late writer replaced by an older one: the code reads the run under one
  lock and writes its record under another, and that does happen.
- Jobs: `ReductionVerified` (what a shrink drops, a run without it was seen to
  show what is preserved; for waits only while the shrink is not cancelled, see
  section 6), `RunsAccounted` (`CleanMeansPlayed`, `NoRunLeft`), `JobEnds`.
- Chat: `ConversationInOrder`, `StopHeeded`, `SavesUpdate`, `MessagesHeard`.
- Wire: `LabelledRight` and `RightStatement`, both as long as packets were
  decoded in the order they were forwarded (`LabelledRight` again from the next
  command that was decoded by itself); `ClosedComesLast`, `CloseReturns`.
  `LabelledRight` says two things beside: after a classic EOF that announced another
  result the rest of the answer, errors apart, is called unsolicited, in order or
  not; and of a connection without EOFs whose login was decoded out of order, so
  that the decoder never learns of the agreement, nothing is claimed any more.
- Library: `LoadedRight`, `RevisionsKept` (`WriteRecorded`, `HistoryGrows`),
  `ImportAddsOne`; each excepts what a concurrent request disturbed. A write is
  recorded if it has an id, and an import adds one if it found a free path.
- Drafts and Settings: `DraftKnown` (`StoredIsStored`, `DiscardedStaysGone`),
  `NeverOlder`, `SettingsKept`. `DiscardedStaysGone` is about drafts given up, by
  discarding them or by saving their file, with no save of theirs in flight.
- Views: `LocksRight` (`LocksDrawnRight`, `KeysReadBack`), `ReportsRight`
  (`ComparisonFair`, `SummaryHonest`, `WarningsRight`, `PullAddsUp`). A lock may be
  drawn on a row whose key differs from its own in trailing blanks alone, and may be
  listed as unmatched when `LOCK_DATA` has the stored bytes; nothing else.

Type invariants stand in the modules; proofs take what they need of them into the
inductive invariants.

Definitions marked *a fault to seed* are plausible bugs in one definition; with
the fault in place of the original, TLC finds the property violated. They show
that a property can fail, and are used nowhere else.

`run_registry` and `run_store` do not check for deadlock, because users may have
used up what the bounds allow them; `run_views` ends with each input. In the
others a step that changes nothing (`Rest`) says where the system may stop.

## 4. Fairness

Weak fairness only, on work the Go scheduler, Docker or the kernel finish by
themselves: `Setup`, the opening and closing of a console session, `Classify`
(the settle timer fires), `StatementAborted` (a killed statement returns),
`Close`'s teardown; a publisher in its send loop and a stream's handler; callers
and executors on the timeline; a process that reaps or closes, and a caller that
starts or was woken (every start has a deadline); a job's goroutine, whose steps
return after the settle window at the latest and which gives up after its budget
of time; a turn of the assistant, which a deadline of fifteen minutes and a
number of tool calls end, and the page that reads its stream; the two pumps of a
connection once there is something to read or the connection is gone. Users owe
nothing: nobody has to press Step, type, open a page, close a run or start a
process. MySQL does not have to answer: `ClosedComesToRest`,
`OutcomeReachesTimeline`, `JobEnds` and `CloseReturns` hold without it, and
`PlayedToTheEnd` states that it answers as its hypothesis. The runs of Registry,
Library, Store and Views check safety only and assume no fairness.

## 5. What is proved

**`RunProofs.tla`**, for every scenario, cap and number of console sessions and
typed statements (`SizesAssumption`, `ScenarioAssumption` and
`AnswersAssumption` in `Run.tla`: sizes are naturals, at least one actor and one
step, steps run on actors of the scenario, answers are the four kinds the code
knows):

| theorem | statement |
|---|---|
| `TypeCorrect` | `Spec => []TypeOK` |
| `StatementsInvariant`, `StatementsAreRight`, `FinishedIsSettled` | the invariants of `run_play` about what is in flight, the tags of registered sessions, and the end |
| `SetupInvariant`, `ReadyIsRight` | the ready channel, and the connections behind it |
| `OutcomesAreFinal`, `BlocksClaimsStand` | the action properties |
| `RunImplementsPlayback` | `Spec => ImplementsPlayback`, the refinement |

*Argument.* The invariants about statements are not inductive alone.
`StatementInv` conjoins them with what they need: `SubmittedInOrder` (a step is
pending exactly when it is beyond the cursor, a console entry exactly when its
number has not been given out, and one that was names a session), without which
a new statement could be one already in flight; `IdleSessionsUntagged` (an idle
session carries no entry's tag), without which a step would go out under the tag
of an old entry; and `VerdictsEarned` (no verdict before a step waited or ended,
and a blocked step is one that waited). `StatementFootprint` shows that every
step of the run either leaves the statements alone and finishes no run, or is a
`Step`, a `Console`, a `Classify` or an answer of a statement in flight; each of
these has a lemma that it keeps the invariant. `FinishedMeansSettled` is kept
because `Finishes` sees the cursor at the end and no busy actor, and by
`OneStatementPerConnection` a statement in flight makes its actor busy. The
action properties follow one step at a time: by the invariant the only actions
that write a result write that of a statement that is pending or in flight.
`SetupInv` relates how far setup has come, as long as the run is open, to the
connections that exist and to `ready` and `setupErr`: whoever closes the ready
channel found it open, and a setup that succeeded has connected every actor. The
refinement shows each action to be a step of `Playback` or a stutter; the guard
of `Submit` comes from the busy flags through `StatementInv`.

**`RegistryProofs.tla`**, for any finite number of runs and starters, any users
and steppers, and any caps (`RegistryAssumption`):

| theorem | statement |
|---|---|
| `RegistryInvariant` | types, and what a hand's program counter says of the run, record and list it holds |
| `CapIsKept` | `Spec => []CapKept` |
| `NothingIsDropped` | `Spec => []NothingDropped` |
| `ForgottenIsForgotten` | `Spec => ForgottenStaysForgotten` |
| `RecordKeepsUpAlways` | `Spec => []RecordKeepsUp` |

*Argument.* Every action moves one hand, so each invariant has one lemma per
action about the hand that moves and one general one about the others. The
inductive invariant is `TypeOK` with `HandsFit` (whoever is past `idle` holds
what that point needs: a starter past `Make` its run, a hand at a snapshot, a
put or a close a run), `KnownAreMade` (what anybody lists, holds or writes about
was made) and `ClosedAreMade`. `CapKept` counts: a starter joins the starts
under way only after it saw room or made some, which takes an entry out of the
register, and `Register` exchanges a start under way for an entry; what remains
is arithmetic on cardinalities. `NothingDropped` follows entry and exit: only
`Unregister`, eviction and `CloseAll` remove runs, and each hands the run to a
hand that will close it. `ForgottenStaysForgotten` shows that no action makes a
hand a writer of a run that is closed and in neither list, since every way to
begin writing goes through the register or an open run. `RecordKeepsUp` follows
the age of records: `RecordInv` says that a snapshot is never newer than its run,
that a starter writes its run's first record before it registers it (`Prepared`),
that nobody else holds the run until then (`Unregistered`), and that of every
registered run whatever is missing in its record is still in some hand that will
write it (`Settled`). The case that needs care is a hand that puts an older
record over a newer one: there the run is marked as overwritten, which is the
exception the property makes.

**`PoolProofs.tla`**, for any processes, callers and keys, and any bound on
containers (`PoolAssumption`):

| theorem | statement |
|---|---|
| `PoolInvariant` | callers and the pool fit together |
| `PoolTypesHold` | `Spec => []PoolTypeOK` |
| `OneServer` | `Spec => []OneServerPerKey`: no two callers of a process are given different servers for one key |
| `WaitersInvariant` | who waits, waits for a start of the same key in the same process that is under way |
| `PoolImplementsSingleFlight` | `Spec => ImplementsSingleFlight`, the refinement |
| `NoneIsForgotten` | `Spec => []NoneForgotten` |
| `LiveContainersAreSpared` | `Spec => []LiveContainersSpared` |

*Argument.* Three layers, each proved on top of the one before. `PoolInv` is the
types with `CallerFits` (whoever starts a server is on record for its key, and
knows a container only while it boots one) and `PoolFits` (the pool has no entry
for a key somebody is starting, and what callers were given is the entry until
the pool is closed), which gives `OneServerPerKey`. `ContainersInv` says that a
container is labelled by its maker, that nobody works with a container somebody
else made, and that a reaper's lists hold only containers that were there.
`LocksInv` says that an up process which claimed holds its lock, that a lock a
reaper tries is one its owner has left, and that whoever knows the lock directory
condemns only containers without an owner's label or of owners that are gone. The exception in
`LiveContainersSpared`, processes whose `NewOwner` failed, is exactly where the
last fact is missing. The refinement has a step for each action: a turn of the loop
is a `Hit`, a `Join` or a `TakeOff`; `Create`, `Boot` and their failures change
nothing but what is wasted; `Conclude` lands or fails; `Announce` is a stutter; a
kill ends the process. What it needs beyond `PoolInv` is
`WaitsFit`: without it, a waiter could be woken by a start that is not the one it
joined, or wait for one that is over. That what lands is new follows from
`ContainersInv`: no two callers work on one container.

**`DriversProofs.tla`**, for any players, steps, columns, attempts, messages,
calls and texts (`JobsAssumption`, `ChatAssumption`):

| theorem | statement |
|---|---|
| `DriversInvariant` | players and the conversation are as they should be between two steps |
| `PlaysAreAccounted` | `DriversSpec => []RunsAccounted` |
| `ReductionIsVerified` | `DriversSpec => []ReductionVerified` |
| `StopIsHeeded` | `DriversSpec => []StopHeeded` |
| `SavesAreUpdates` | `DriversSpec => []SavesUpdate` |
| `ConversationStaysOne` | `DriversSpec => []ConversationInOrder` |

*Argument.* `PlayerFits` follows a player: what is cut off was cut off by the end
of the context, which never comes back; a command that goes on to settle has
submitted everything and was in time, so nothing of it was cut; and a drop that
was not seen to be spared can only come from a wait that was cut off. `OneTurn`
is the session's busy flag: one turn at a time holds it. With it `StopFits` is
inductive: after a statement beyond a stop the only turn there is looks for the
stop again before it submits. `SavesFit` holds as long as no two saves
overlapped: there is one save at a time, it creates only if no scenario exists,
and its text lies between the file's and the draft's. `ConversationInOrder`
relates three sequences that grow at different times. `TalkInv` adds that while a
turn is unanswered its message is the last thing said (`LastSaid`), that the
queue's messages differ and have not been sent (`QueueFits`), and that what was
said was sent (`SaidFits`), so that no message is said twice; what remains is
counting the answers in a prefix.

**`TimelineProofs.tla`**, for any number of steps and actors
(`StepsAssumption`): `AnnouncedFirstHolds` and `FinishIsToldHolds`, the two
safety parts of `StepsAreTold`, from `TimelineInvariant`. `StepFits` relates each
goroutine's place to the copy it holds and to what was published: nothing before
the announcement, and the executor is started after it, so that no copy but the
first says "running". `WillTell` names the executors that will still read and
publish the state: the one that recorded the end of the run is among them, and
what makes it leave is publishing "finished" or a run that was closed.

**`BusProofs.tla`**, for any publishers, events, streams, capacity and limit
(`BusAssumption`), and for Views with any number of rows, letters, steps, outcomes,
transactions and layers (`ViewsAssumption`: the bounds are naturals, and what
scenarios, sweeps and pulls are made of is finite):

| theorem | statement |
|---|---|
| `HistoryIsUnbroken` | what is retained is the unbroken end of what was published, and enough of it, also where a quarter of the limit is nothing (`TrimmedIsTheEnd`) |
| `DeliveryIsRight` | `Spec => []DeliveryRight`: no event twice, none missed, each publisher's in order |
| `ReportsAreRight` | `ViewsSpec => []ReportsRight` |
| `LocksAreRight` | `ViewsSpec => []LocksRight` |

*Argument.* A number is given out under the lock and sent after it, so events
reach a channel in any order across publishers. `SenderFits` says that two
publishers in their send loops hold different numbers, `CarriedFits` that what a
stream has written, queued and still to replay is in each publisher's order and
that whatever a publisher holds for it may follow, and `NothingMissedBy` that
every event retained since the stream's beginning is carried, in the hand of a
publisher that has the stream among its receivers, or was dropped because the
channel was full. The step that joins both halves is `Subscribe`: replay and
registration are one critical section, so an event is in the backlog or its
publisher copied the subscriber.

Of Views, `ViewsInv` says of each loop what it has seen so far. `LintFits`: the
steps warned of are those looked at whose actor waited still, and the actors held
to be waiting are those who are. `SearchFits`: nobody is on the search's path
twice and each waits for the next; everyone looked at from a node is done, but for
the next on the path; and whoever is done is in no deadlocked set (`DoneAreFree`),
so that an end without a cycle means there is none. `PullFits`: a layer is done
exactly when its last message came, and then all of it has. Every step changes one
of them (`ViewsInvStep`). That a percentage is one needs sums over the layers,
which exist by induction on their number (`SumsExist`).

What is shown of locks is computed at one go, and the proof follows its loops.
`LoopExists` gives a recursive function its values, and `LoopInduction`, from
`LeastNumber`, lets a statement be carried from turn to turn. A quoted string is
read to its closing quote and not beyond (`StringIsRead`): after each letter the
reader holds exactly what was written of it, two letters for a quote, and the
letter after the last is a comma or the end (`NoQuote`). So each component is read
where it was written (`ComponentIsRead`, `KeyIsRead`), and undoubling what was
doubled gives the text back (`UndoubledDoubled`). For the rows, keys that differ
are totally ordered by `Precedes`, hence the ranks of n rows are the numbers below n,
each once, and `RowsInOrder` has another row in every place
(`RowsInOrderAre`); an entry's key matches a lock's if the lock is on that
entry, and if it is on another only if the two are alike once trimmed (`KeysMatch`),
where the appended primary key is needed; and the two ways in
which the code takes a lock mode apart agree (`KindIsSaid`).

**`WireProofs.tla`**, for any number of commands and rows (`WireAssumption`):

| theorem | statement |
|---|---|
| `ClosedIsLast` | `FairSpec => ClosedComesLast`: both pumps have ended when a connection is reported closed |
| `LabelsAreRight` | `FairSpec => []LabelledRight`, with the exceptions named in section 3 |
| `StatementsAreRight` | `FairSpec => []RightStatement` |

*Argument.* What the pumps hold and what is on its way are a queue of packets the
decoder has yet to see. `Leads(S, q, T)` says that from every state of S the
packets of q are read right one after the other and end in T; appending a packet
at the end, which is what client and server do, and decoding the first, which is
what a pump does, are lemmas about it, and there is a lemma for each kind of
answer the protocol has. `InStep` says that, as long as nothing was decoded out of
order, the decoder leads through everything pending to a state that whoever
speaks next counts on (`Final`). After a disorder `InStep` says nothing;
`Recovers` says that a command which will be decoded by itself leads back, from
any state, and that is why `LabelledRight` holds again. The rest (`Dialog`,
`Phases`, `IdsFit`, `OrderFits`, `LoginKnown`) is who may speak, which numbers
the decoder has a place for and which packet was forwarded first.

**`StoreProofs.tla`**. For any tabs, texts, identifiers and limits
(`DraftsAssumption`, `StoreAssumption`), any keys and forms (`SettingsAssumption`):

| theorem | statement |
|---|---|
| `SettingsInvariant`, `SettingsAreKept` | the version in force is always the newest; a save, whose number is the current one plus one, overwrites no version |
| `DraftsAreKnownAlways` | `Spec => []DraftKnown`: what a page takes to be stored was stored, and a draft given up with no save in flight stays gone |
| `NoOlderText` | `Spec => NeverOlder`: no older text of a page replaces a newer one of its own |

*Argument.* `DraftsInv` relates three copies of a text: the row (`RowFits`), the
message (`MessageFits`) and the tab (`TabFits`). A page has at most one request or
answer under way that can change its draft (`OneUnderWay`; the autosave's flight
flag is up for as long), so a save that is still to be handled is at least as new
as the row it will replace and, unless the text was put back to the file's, no
newer than the tab. The exceptions are the ones the code makes: a page that is
left sends its beacon although nothing waits for it, and it is no longer open.

For any requests, any file names, any documents and any files there may be to
begin with (`LibraryAssumption`: the walk visits every path once, copies are paths,
begun files are documents or absent; a path's id may be the empty one):

| theorem | statement |
|---|---|
| `LibraryInvariant` | `LibrarySpec => []LibraryInv` |
| `FreshLoadIsRight` | `LibrarySpec => []LoadedRight` |
| `RevisionsAreKept` | `LibrarySpec => RevisionsKept`, of writes that have an id |
| `ImportsAreAdded` | `LibrarySpec => ImportAddsOne`, of imports that found a free path |

*Argument.* `Loaded(files, found, n)` says that `found` is what the first n files
amount to: every id has the first of them that is of it, and the others, with
those that do not parse, are broken. One file more keeps it (`ReadFile`); n files
are all files when the walk is over. `WalksRight` is that statement of every walk
no writer disturbed, and `fresh` of the catalogue. `WriteStands` follows an
undisturbed writer: its file holds what it wrote, and its walk takes that up or
calls it broken, so that what `Record` reads by the file's id is what was written.
`ImportsAlone` says that an undisturbed import of a free path is alone since it looked: no other
file has the id of its path, and what was held before is still first. That the
catalogue gives an id the *first* file of it needs a least element, which
`LeastNumber` takes from the well-foundedness of inclusion among finite sets.

*Only model-checked.* All liveness: this prover has no support for fairness. Every
safety invariant, every action property and every refinement that the runs check
are theorems; of `StepsAreTold` the two safety parts are.

## 6. Disagreements with the documentation

`bus_panic` is a run that expects TLC to find the documented statement violated
by what the code does: `Publish` sends, after unlocking, on channels that a
cancel or `Close` may have closed (`engine/bus.go:79-81`, `113-114`).

The others are stated as definitions beside the properties; each can be added to
the configuration named and TLC shows how the code departs from it.

| definition (configuration) | what happens | what is said |
|---|---|---|
| `Run.ClosedRunHoldsNothing` (RunClose) | a run closed while `Setup` works keeps the database and connections made after `Close` looked: `Setup` never reads `r.closed` | `engine/run.go:1387-1388` |
| `Run.ConsoleCapHolds` (RunPlay with two opens) | the cap is compared before the dial and not again at registration | `engine/console.go:125-129` |
| `Run.EveryFlightIsTagged` (RunPlay) | `CloseSession` takes the session out of `r.consoles` while its statement is in flight, and `onWire` finds no tags for its packets | `engine/run.go:687-688` |
| `Timeline.CardsShowOutcome` (TimelineSteps) | `Step` publishes "blocked" after `execute` published the outcome, and the card stays blocked | `src/README.md:221-224` |
| `Pool.ReapsConservatively` (PoolShared) | a CLI process whose `NewOwner` failed does not know the lock directory and reaps a live server's containers | `mysqlbox/box.go:251-253`, `608-609` |
| `Jobs.EveryDropVerified` (Drivers) | `Step` under a cancelled context calls the statement blocked (`engine/run.go:930-943`), which a shrink that preserves waits reads as a wait (`agentapi/jobs.go:572-582`) | `agentapi/jobs.go:714-715` |
| `Wire.Serialised` (WirePumps) | pumps forward before they decode, so the decoder may see a command before the end of the answer that let the client send it | `wire/decode.go:137-140` |
| `Wire.LabelledInOrder` (WirePumps) | `MORE_RESULTS` is not looked at in a classic EOF (`wire/decode.go:586-591`), and the rest of the answer is called unsolicited although it is decoded in order | `wire/decode.go:674-676`: after an OK with the same flag the next result is expected |
| `Library.ImportNeverOverwrites` (LibraryWrites) | two imports may be given the same path, a file may appear between the look and the write, and when every suffix is taken `freePath` returns the taken path (`web/api.go:544`) | `web/api.go:461-463` |
| `Library.PreviousContentKept` (LibraryWrites) | seeding writes files without recording a revision (`casedef/seed.go:147`), and so does a save whose id clashes | `agentapi/api.go:282-286` |
| `Drafts.GoneStaysGone` (StorePages) | an autosave in flight when its draft is discarded, or its file saved, is handled afterwards and stores the draft again (`store/drafts.go:63`) | `web/static/playground.js:141` |
| `Drafts.LeavingKeepsTheBuffer` (StorePages) | leaving sends no beacon while an autosave is in flight, and that save holds an older text; and what is typed while a file is being saved is taken for saved (`playground.js:231-237`) | `web/static/playground.js:349-352` |
| `Views.LocksOnTheirRows` (ViewsInputs) | blanks at the end are trimmed from a lock's key and from a row's (`engine/data.go:538`), so under a NO PAD collation a lock may be drawn on the row whose key has a blank less; hex of stored bytes matches no row | `engine/data.go:387-389` |

Met while modelling, without a run of their own: a stop flag that nobody took
ends the next call (`engine/run.go:766`); a scenario whose name has neither
letters nor digits gets no id and no revisions (`casedef/case.go:288`,
`store/scenarios.go:78`); a document imported with an id of its own
takes over a scenario of that id; a load of a directory that disappears installs
what it found so far (`casedef/case.go:387`); `RemoveBuiltIns` removes a file
that was edited after it was compared (`casedef/seed.go:72-94`), and
fails on one that is gone by then, with the others not looked at
(`casedef/seed.go:87`); a settings save read before another page's save undoes that page's API key (`web/api.go:152-194`); "at most one"
draft per scenario is not enforced (`store/drafts.go:181`); an index on an
expression loses that column from a row's key, and a table without a primary key
may have a lock drawn on another row of the same key (`engine/data.go:296`,
`357`, `509`); a sweep's failed column is compared although the summary says it
was not (`agentapi/jobs.go:470-485`); layers that exist already are complete
without being counted (`dockerctl/client.go:330-350`); a message queued by a page
that lost its connection is refused while the turn goes on; and two who drive
one run share one stop flag. The models do what the code does in each of these,
and the properties are stated so as to hold beside them.

## 7. What is not modelled, and why

- Interrupts of a run as its page uses them, the deadlock report, Docker log
  lines, lock snapshots, explain plans and transaction tracking: they feed
  displays and do not guard any of the modelled transitions. The stop flag is
  modelled where the assistant consumes it.
- Attributing a wait to its blocker: it is a query against `performance_schema`,
  whose semantics are MySQL's.
- Pruning of configuration versions and of revisions, at limits of hundreds; the
  limit on drafts is modelled.
- The activity hub (`agentapi/hub.go`): it repeats the bus's protocol without a
  history and without `Close`, and shares its hazard.
- Clocks: the settle window and deadlines may fire at any moment, which covers
  every length; that `Close` may run out of its 15 seconds before the drop is
  not covered.
- A container that dies under a serving process: the code has no handling.
- TLS, compressed connections and packets of 16 MB and more on the wire, where
  the decoder gives up; the text a packet is summarised with. The server never
  asks for a local file, which MySQL refuses unless it is configured to allow it:
  only the decoder's branch for it is there, since a NULL may be taken for it. A
  further result is modelled by the OK in its place.
- A LOCK_DATA text that reads as the hex of another value.
- Prompts, streamed text and the list of models in Chat; that a user steps the
  assistant's run at the same time.
- Listings, pages, MCP adapters, tags, YAML, Markdown, rendering, packaging and
  the probes under `src/hack`: they keep no state, or are not part of the running
  system.

## 8. What is left to do

1. **An abstract specification of the library** (a map from ids to documents
   with their revisions) that what undisturbed requests do refines.
2. **The activity hub**, as a second instance of the bus with its differences.
