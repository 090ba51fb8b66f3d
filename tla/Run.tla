-------------------------------- MODULE Run --------------------------------
(***************************************************************************)
(* One run of a scenario (internal/engine/run.go, console.go).             *)
(*                                                                         *)
(* A run is a record behind one mutex, touched by many goroutines at once: *)
(* Setup, one caller and one executor per submitted statement, the openers *)
(* and closers of console sessions, and Close.  Every action below is one  *)
(* critical section of that mutex, or one stretch of unlocked work between *)
(* two of them, so every interleaving the mutex allows is a behaviour.     *)
(*                                                                         *)
(* Sessions are numbered: 1..NActors are the scenario's actors, and the    *)
(* n-th console session is NActors + n (consoleSeq).  Statements likewise: *)
(* 1..NSteps are the steps and console entry n is NSteps + n (entrySeq).   *)
(* MySQL is the environment: it answers a statement when and how it likes, *)
(* unless the connection has been killed or the run's context cancelled.   *)
(***************************************************************************)
EXTENDS Integers, FiniteSets

CONSTANTS
  NActors,             \* actors in the scenario
  NSteps,              \* steps in the scenario
  StepActor,           \* StepActor[i]: the actor step i runs on
  Expect,              \* Expect[i]: what the author claims step i does
  Answers,             \* how MySQL may answer a statement
  MaxConsoleSessions,  \* the cap on open console sessions (8 in the code)
  MaxOpens,            \* bound: calls of OpenSession that reach the dial
  MaxEntries           \* bound: console statements submitted

Expectations == {"any", "blocks", "ok", "deadlock", "timeout", "error"}

ASSUME SizesAssumption ==
  /\ NActors \in Nat \ {0}
  /\ NSteps \in Nat \ {0}
  /\ MaxConsoleSessions \in Nat
  /\ MaxOpens \in Nat
  /\ MaxEntries \in Nat
ASSUME ScenarioAssumption ==
  /\ StepActor \in [1..NSteps -> 1..NActors]
  /\ Expect \in [1..NSteps -> Expectations]
ASSUME AnswersAssumption == Answers \subseteq {"ok", "deadlock", "timeout", "other"}

Actors == 1..NActors
Consoles == (NActors + 1)..(NActors + MaxOpens)
Sessions == 1..(NActors + MaxOpens)
Steps == 1..NSteps
Entries == (NSteps + 1)..(NSteps + MaxEntries)
Statements == 1..(NSteps + MaxEntries)

StepStatus == {"pending", "running", "blocked", "done", "error"}
InFlightStatus == {"running", "blocked"}
Settled == {"done", "error"}

VARIABLES
  \* the run's public state
  status, closed, cursor,
  ready,        \* how often the ready channel has been closed
  setupErr,     \* what WaitReady reports: "nil", "setup" or "closed"
  \* results: one per step, one per console entry
  stat, wasBlocked, fault, verdict,
  target,       \* target[x]: the session console entry x was sent to, else 0
  entrySeq,
  \* sessions
  busy, stepIndex, consoleID,
  consoles,     \* console sessions in r.consoles
  consoleSeq,
  \* what the process holds outside its own memory
  box, database, setupDB, conn,
  \* where each goroutine stands
  setup,        \* Setup
  opening,      \* opening[c]: OpenSession, then CloseSession, of session c
  call,         \* call[x]: the Step or Console call that submitted x
  closing,      \* Close
  collected, sawBox, sawSetupDB,  \* what Close copied under the lock
  execCancelled

lifeVars == <<status, closed, cursor, ready, setupErr>>
resultVars == <<stat, wasBlocked, fault, verdict, target, entrySeq>>
sessionVars == <<busy, stepIndex, consoleID, consoles, consoleSeq>>
heldVars == <<box, database, setupDB, conn>>
closeVars == <<closing, collected, sawBox, sawSetupDB, execCancelled>>
vars == <<lifeVars, resultVars, sessionVars, heldVars, setup, opening, call,
          closeVars>>

\* What each variable ranges over: the truth-valued ones, and all others.
FlagTypes ==
  /\ {closed, box, database, sawBox, sawSetupDB, execCancelled} \subseteq BOOLEAN
  /\ wasBlocked \in [Statements -> BOOLEAN]
  /\ busy \in [Sessions -> BOOLEAN]

ValueTypes ==
  /\ status \in {"preparing", "ready", "running", "finished", "failed", "closed"}
  /\ cursor \in 0..NSteps
  /\ ready \in Nat
  /\ setupErr \in {"nil", "setup", "closed"}
  /\ stat \in [Statements -> StepStatus]
  /\ fault \in [Statements -> {"none", "deadlock", "timeout", "other"}]
  /\ verdict \in [Steps -> {"none", "match", "mismatch"}]
  /\ target \in [Entries -> Sessions \union {0}]
  /\ entrySeq \in 0..MaxEntries
  /\ stepIndex \in [Actors -> 0..NSteps]
  /\ consoleID \in [Sessions -> 0..MaxEntries]
  /\ consoles \subseteq Consoles
  /\ consoleSeq \in 0..MaxOpens
  /\ setupDB \in {"none", "open", "released"}
  /\ conn \in [Sessions -> {"none", "open", "killed", "released"}]
  /\ setup \in {"acquire", "createdb", "opendb", "schema", "connect", "configure",
                "succeeded", "failing", "failed", "over"}
  /\ opening \in [Consoles -> {"none", "dialling", "configuring", "dialled", "open",
                               "killing", "releasing", "gone", "refused"}]
  /\ call \in [Statements -> {"idle", "waiting", "returned"}]
  /\ closing \in {"no", "killing", "releasing", "dropping", "over"}
  /\ collected \subseteq Sessions

TypeOK == ValueTypes /\ FlagTypes

\* New: the steps and actors are laid out before anything is connected.
Init ==
  /\ status = "preparing" /\ closed = FALSE /\ cursor = 0
  /\ ready = 0 /\ setupErr = "nil"
  /\ stat = [x \in Statements |-> "pending"]
  /\ wasBlocked = [x \in Statements |-> FALSE]
  /\ fault = [x \in Statements |-> "none"]
  /\ verdict = [i \in Steps |-> "none"]
  /\ target = [x \in Entries |-> 0]
  /\ entrySeq = 0
  /\ busy = [s \in Sessions |-> FALSE]
  /\ stepIndex = [s \in Actors |-> 0]
  /\ consoleID = [s \in Sessions |-> 0]
  /\ consoles = {} /\ consoleSeq = 0
  /\ box = FALSE /\ database = FALSE /\ setupDB = "none"
  /\ conn = [s \in Sessions |-> "none"]
  /\ setup = "acquire"
  /\ opening = [c \in Consoles |-> "none"]
  /\ call = [x \in Statements |-> "idle"]
  /\ closing = "no" /\ collected = {}
  /\ sawBox = FALSE /\ sawSetupDB = FALSE /\ execCancelled = FALSE

\* The session a statement was submitted on.
SessionOf(x) == IF x \in Steps THEN StepActor[x] ELSE target[x]

InFlight(x) == stat[x] \in InFlightStatus

-----------------------------------------------------------------------------
(***************************************************************************)
(* Setup: acquire a container, create the scratch database, apply the      *)
(* schema, open a connection per actor.  None of it looks at r.closed.     *)
(***************************************************************************)

\* The phases of setup that run outside the lock, and change what is held.
SetupFails ==
  /\ setup \in {"acquire", "createdb", "opendb", "schema", "connect", "configure"}
  /\ setup' = "failing"
  /\ UNCHANGED heldVars

SetupAcquire ==
  /\ setup = "acquire"
  /\ box' = TRUE
  /\ setup' = "createdb"
  /\ UNCHANGED <<database, setupDB, conn>>

SetupCreateDatabase ==
  /\ setup = "createdb"
  /\ database' = TRUE
  /\ setup' = "opendb"
  /\ UNCHANGED <<box, setupDB, conn>>

SetupOpenDB ==
  /\ setup = "opendb"
  /\ setupDB' = "open"
  /\ setup' = "schema"
  /\ UNCHANGED <<box, database, conn>>

SetupSchema ==
  /\ setup = "schema"
  /\ setupDB = "open" /\ database
  /\ setup' = "connect"
  /\ UNCHANGED heldVars

\* dial as far as CONNECTION_ID(): the DSN names the scratch database.
Dial(s) ==
  /\ box /\ database
  /\ conn' = [conn EXCEPT ![s] = "open"]
  /\ UNCHANGED <<box, database, setupDB>>

\* Actors connect in the order the scenario lists them.
NextActor(a) ==
  /\ conn[a] = "none"
  /\ \A b \in Actors : b < a => conn[b] # "none"

SetupConnect ==
  /\ setup = "connect"
  /\ \E a \in Actors : NextActor(a) /\ Dial(a)
  /\ setup' = "configure"

\* A fault to seed: the loop over the actors ends one too early.
MoreActorsButOne == Cardinality({a \in Actors : conn[a] = "none"}) > 1

MoreActors == \E a \in Actors : conn[a] = "none"

\* The session variables of the actor just connected.
SetupConfigure ==
  /\ setup = "configure"
  /\ \E a \in Actors :
       /\ conn[a] = "open"
       /\ \A b \in Actors : b > a => conn[b] = "none"
  /\ setup' = IF MoreActors THEN "connect" ELSE "succeeded"
  /\ UNCHANGED heldVars

SetupWork ==
  /\ \/ SetupFails \/ SetupAcquire \/ SetupCreateDatabase \/ SetupOpenDB
     \/ SetupSchema \/ SetupConnect \/ SetupConfigure
  /\ UNCHANGED <<lifeVars, resultVars, sessionVars, opening, call, closeVars>>

\* A fault to seed: the ready channel closed without looking whether it is.
CloseReadyBlindly == ready' = ready + 1

\* select { case <-r.ready: default: close(r.ready) }
CloseReady == ready' = IF ready = 0 THEN 1 ELSE ready

\* The end of Setup: its verdict is written over whatever status says now.
SetupConclude ==
  /\ setup \in {"succeeded", "failing"}
  /\ setupErr' = IF setup = "failing" THEN "setup" ELSE "nil"
  /\ status' = IF setup = "failing" THEN "failed" ELSE "ready"
  /\ CloseReady
  /\ setup' = IF setup = "failing" THEN "failed" ELSE "over"
  /\ UNCHANGED <<closed, cursor, resultVars, sessionVars, heldVars, opening,
                 call, closeVars>>

-----------------------------------------------------------------------------
(***************************************************************************)
(* Close, in four parts: everything under the lock, KILL and cancel,       *)
(* release the connections, drop the database.                             *)
(***************************************************************************)

\* A fault to seed: the console sessions are forgotten.
ActorsOnly == Actors

\* The sessions of r.actors and r.consoles, where sessionLocked finds them
\* and which Close tears down.
Registered == Actors \union consoles

CloseBegin ==
  /\ ~ closed
  /\ closed' = TRUE
  /\ status' = "closed"
  /\ setupErr' = IF ready = 0 /\ setupErr = "nil" THEN "closed" ELSE setupErr
  /\ CloseReady
  /\ collected' = Registered
  /\ sawBox' = box
  /\ sawSetupDB' = (setupDB = "open")
  /\ closing' = "killing"
  /\ UNCHANGED <<cursor, execCancelled>>

\* CloseRun, eviction, the CLI and shutdown may all close a run at any time.
Close ==
  /\ CloseBegin
  /\ UNCHANGED <<resultVars, sessionVars, heldVars, setup, opening, call>>

\* Setup cleans up after itself when it failed; a second Close does nothing.
SetupCleanup ==
  /\ setup = "failed"
  /\ setup' = "over"
  /\ IF closed THEN UNCHANGED <<lifeVars, closeVars>> ELSE CloseBegin
  /\ UNCHANGED <<resultVars, sessionVars, heldVars, opening, call>>

\* KILL CONNECTION for the sessions of S that have a connection id.
Kill(S) ==
  conn' = [s \in Sessions |-> IF s \in S /\ conn[s] = "open" THEN "killed" ELSE conn[s]]

\* conn, db and proxy of the sessions of S, those that have them.
Release(S) ==
  conn' = [s \in Sessions |-> IF s \in S /\ conn[s] # "none" THEN "released" ELSE conn[s]]

\* sql.Conn.Close waits for the statement on that connection to return.  The
\* instant between its return and the executor recording it is in the wait:
\* releasing and recording touch nothing of each other's.
Quiet(S) == \A x \in Statements : InFlight(x) => SessionOf(x) \notin S

\* A fault to seed: the polite teardown, which neither kills nor cancels.
CloseKillForgotten ==
  /\ closing = "killing"
  /\ closing' = "releasing"
  /\ UNCHANGED <<lifeVars, resultVars, sessionVars, heldVars, setup, opening, call,
                 collected, sawBox, sawSetupDB, execCancelled>>

CloseKill ==
  /\ closing = "killing"
  /\ IF sawBox THEN Kill(collected) ELSE UNCHANGED conn
  /\ execCancelled' = TRUE
  /\ closing' = "releasing"
  /\ UNCHANGED <<lifeVars, resultVars, sessionVars, box, database, setupDB, setup,
                 opening, call, collected, sawBox, sawSetupDB>>

CloseRelease ==
  /\ closing = "releasing"
  /\ Quiet(collected)
  /\ Release(collected)
  /\ setupDB' = IF sawSetupDB THEN "released" ELSE setupDB
  /\ closing' = "dropping"
  /\ UNCHANGED <<lifeVars, resultVars, sessionVars, box, database, setup, opening,
                 call, collected, sawBox, sawSetupDB, execCancelled>>

CloseDrop ==
  /\ closing = "dropping"
  /\ database' = IF sawBox THEN FALSE ELSE database
  /\ closing' = "over"
  /\ UNCHANGED <<lifeVars, resultVars, sessionVars, box, setupDB, conn, setup,
                 opening, call, collected, sawBox, sawSetupDB, execCancelled>>

-----------------------------------------------------------------------------
(***************************************************************************)
(* Console sessions.  OpenSession checks the run, dials without the lock,  *)
(* and registers the session without checking the run again.               *)
(***************************************************************************)

OpenSession(c) ==
  /\ ~ closed
  /\ box
  /\ Cardinality(consoles) < MaxConsoleSessions
  /\ consoleSeq < MaxOpens
  /\ c = NActors + consoleSeq + 1
  /\ consoleSeq' = consoleSeq + 1
  /\ opening' = [opening EXCEPT ![c] = "dialling"]
  /\ UNCHANGED <<lifeVars, resultVars, busy, stepIndex, consoleID, consoles,
                 heldVars, setup, call, closeVars>>

OpenDial(c) ==
  /\ opening[c] = "dialling"
  /\ Dial(c)
  /\ opening' = [opening EXCEPT ![c] = "configuring"]
  /\ UNCHANGED <<lifeVars, resultVars, sessionVars, setup, call, closeVars>>

OpenConfigure(c) ==
  /\ opening[c] = "configuring"
  /\ opening' = [opening EXCEPT ![c] = "dialled"]
  /\ UNCHANGED <<lifeVars, resultVars, sessionVars, heldVars, setup, call, closeVars>>

\* A dial that fails reports the error and forgets the session; what it had
\* connected before a session variable was refused stays connected.
OpenRefused(c) ==
  /\ opening[c] \in {"dialling", "configuring"}
  /\ opening' = [opening EXCEPT ![c] = "refused"]
  /\ UNCHANGED <<lifeVars, resultVars, sessionVars, heldVars, setup, call, closeVars>>

OpenRegister(c) ==
  /\ opening[c] = "dialled"
  /\ consoles' = consoles \union {c}
  /\ opening' = [opening EXCEPT ![c] = "open"]
  /\ UNCHANGED <<lifeVars, resultVars, busy, stepIndex, consoleID, consoleSeq,
                 heldVars, setup, call, closeVars>>

CloseSession(c) ==
  /\ c \in consoles
  /\ consoles' = consoles \ {c}
  /\ opening' = [opening EXCEPT ![c] = "killing"]
  /\ UNCHANGED <<lifeVars, resultVars, busy, stepIndex, consoleID, consoleSeq,
                 heldVars, setup, call, closeVars>>

CloseSessionKill(c) ==
  /\ opening[c] = "killing"
  /\ Kill({c})
  /\ opening' = [opening EXCEPT ![c] = "releasing"]
  /\ UNCHANGED <<lifeVars, resultVars, sessionVars, box, database, setupDB, setup,
                 call, closeVars>>

CloseSessionRelease(c) ==
  /\ opening[c] = "releasing"
  /\ Quiet({c})
  /\ Release({c})
  /\ opening' = [opening EXCEPT ![c] = "gone"]
  /\ UNCHANGED <<lifeVars, resultVars, sessionVars, box, database, setupDB, setup,
                 call, closeVars>>

-----------------------------------------------------------------------------
(***************************************************************************)
(* Submitting a statement: Step takes the next step of the scenario,       *)
(* Console takes what was typed and a session to run it on.                *)
(***************************************************************************)

\* A fault to seed: the connection's busy flag is not looked at.
StepRefusedUnlessIdle(i) == closed \/ status \in {"preparing", "failed"} \/ cursor >= NSteps

\* The early returns of Step, for the step at the cursor.
StepRefused(i) ==
  \/ closed
  \/ status \in {"preparing", "failed"}
  \/ cursor >= NSteps
  \/ busy[StepActor[i]]

Step(i) ==
  /\ i = cursor + 1
  /\ ~ StepRefused(i)
  /\ cursor' = i
  /\ stat' = [stat EXCEPT ![i] = "running"]
  /\ fault' = [fault EXCEPT ![i] = "none"]
  /\ verdict' = [verdict EXCEPT ![i] = "none"]
  /\ busy' = [busy EXCEPT ![StepActor[i]] = TRUE]
  /\ stepIndex' = [stepIndex EXCEPT ![StepActor[i]] = i]
  /\ status' = "running"
  /\ call' = [call EXCEPT ![i] = "waiting"]
  /\ UNCHANGED <<closed, ready, setupErr, wasBlocked, target, entrySeq, consoleID,
                 consoles, consoleSeq, heldVars, setup, opening, closeVars>>

\* A fault to seed: typed SQL is let through while the connection is in use.
ConsoleRefusedUnlessIdle(s) ==
  \/ closed
  \/ status = "preparing"
  \/ s \notin Actors \union consoles
  \/ conn[s] = "none"

\* The early returns of Console, for the session it names.
ConsoleRefused(s) ==
  \/ closed
  \/ status = "preparing"
  \/ s \notin Actors \union consoles
  \/ conn[s] = "none"
  \/ busy[s]

Console(s) ==
  LET x == NSteps + entrySeq + 1 IN
  /\ entrySeq < MaxEntries
  /\ ~ ConsoleRefused(s)
  /\ entrySeq' = entrySeq + 1
  /\ target' = [target EXCEPT ![x] = s]
  /\ stat' = [stat EXCEPT ![x] = "running"]
  /\ busy' = [busy EXCEPT ![s] = TRUE]
  /\ consoleID' = [consoleID EXCEPT ![s] = entrySeq + 1]
  /\ call' = [call EXCEPT ![x] = "waiting"]
  /\ UNCHANGED <<lifeVars, wasBlocked, fault, verdict, stepIndex, consoles,
                 consoleSeq, heldVars, setup, opening, closeVars>>

-----------------------------------------------------------------------------
(***************************************************************************)
(* The two goroutines of a statement: the caller, which waits out the      *)
(* settle window and classifies, and the executor.                         *)
(***************************************************************************)

\* What an outcome counts as (classify).
Observed(s, f) ==
  CASE s \in InFlightStatus -> "blocks"
    [] s = "done" -> "ok"
    [] s = "error" /\ f \in {"deadlock", "timeout"} -> f
    [] s = "error" /\ f \notin {"deadlock", "timeout"} -> "error"
    [] OTHER -> "any"

\* "error" is the general case of deadlock and timeout.
MatchesExpectation(want, got) ==
  \/ want = got
  \/ want = "error" /\ got \in {"deadlock", "timeout"}

\* A fault to seed: "blocks" is held against what the step ended as.
EvaluateFinalOnly(i, s, f, waited) ==
  IF Expect[i] = "any" THEN "none"
  ELSE IF MatchesExpectation(Expect[i], Observed(s, f)) THEN "match"
  ELSE "mismatch"

\* evaluateLocked: "blocks" holds of a step that waited, however it ended.
Evaluate(i, s, f, waited) ==
  IF Expect[i] = "any" THEN "none"
  ELSE IF \/ MatchesExpectation(Expect[i], Observed(s, f))
          \/ Expect[i] = "blocks" /\ waited
       THEN "match"
       ELSE "mismatch"

\* A fault to seed: the caller trusts that it woke because of the timer.
StillRunningUnchecked(x) == TRUE

\* The caller takes the lock again: has the statement answered meanwhile?
StillRunning(x) == stat[x] = "running"

\* The caller wakes - the statement answered, the settle window is over, or
\* the request was abandoned - and looks at the locks, all without the lock.
\* Then it calls the statement blocked if it has not answered, and clones the
\* result to publish.  The timer may fire at any moment, so may this.
Classify(x) ==
  /\ call[x] = "waiting"
  /\ IF StillRunning(x)
     THEN /\ stat' = [stat EXCEPT ![x] = "blocked"]
          /\ wasBlocked' = [wasBlocked EXCEPT ![x] = TRUE]
          /\ verdict' = IF x \in Steps
                        THEN [verdict EXCEPT ![x] = Evaluate(x, "blocked", fault[x], TRUE)]
                        ELSE verdict
     ELSE UNCHANGED <<stat, wasBlocked, verdict>>
  /\ call' = [call EXCEPT ![x] = "returned"]
  /\ UNCHANGED <<lifeVars, fault, target, entrySeq, sessionVars, heldVars, setup,
                 opening, closeVars>>

\* A connection on which a statement runs to an answer of its own.
Usable(s) == conn[s] = "open" /\ ~ execCancelled

FaultOf(a) == IF a = "ok" THEN "none" ELSE a

\* Record answer a under the lock; the connection is free from here on.
RecordAnswer(x, a) ==
  /\ stat' = [stat EXCEPT ![x] = IF a = "ok" THEN "done" ELSE "error"]
  /\ fault' = [fault EXCEPT ![x] = FaultOf(a)]
  /\ busy' = [busy EXCEPT ![SessionOf(x)] = FALSE]
  /\ UNCHANGED <<closed, cursor, ready, setupErr, wasBlocked, target, entrySeq,
                 stepIndex, consoles, consoleSeq, heldVars, setup, opening, call,
                 closeVars>>

\* A fault to seed: the last step finishes the run though another still waits.
FinishesAtLastStep(a) == cursor >= NSteps /\ status = "running"

\* A fault to seed: the question is asked before busy is cleared.
FinishesBeforeRelease(a) ==
  /\ cursor >= NSteps
  /\ \A b \in Actors : ~ busy[b]
  /\ status = "running"

\* The run is finished once nothing is left to submit and no actor is busy.
Finishes(a) ==
  /\ cursor >= NSteps
  /\ \A b \in Actors \ {a} : ~ busy[b]
  /\ status = "running"

\* execute: the end of a step's statement.
StepAnswered(i, a) ==
  /\ RecordAnswer(i, a)
  /\ verdict' = [verdict EXCEPT ![i] = Evaluate(i, stat'[i], fault'[i], wasBlocked[i])]
  /\ status' = IF Finishes(StepActor[i]) THEN "finished" ELSE status
  /\ UNCHANGED consoleID

\* A fault to seed: the session keeps the tag of a statement that is over.
EntryAnsweredKeepsTag(x, a) ==
  /\ RecordAnswer(x, a)
  /\ UNCHANGED <<verdict, status, consoleID>>

\* executeConsole: the same without a verdict, and without a look at the end.
EntryAnswered(x, a) ==
  /\ RecordAnswer(x, a)
  /\ consoleID' = [consoleID EXCEPT ![SessionOf(x)] = 0]
  /\ UNCHANGED <<verdict, status>>

Answered(x, a) ==
  IF x \in Steps THEN StepAnswered(x, a) ELSE EntryAnswered(x, a)

\* MySQL answers: done, deadlock victim, lock wait timeout, any other error.
MySQLAnswers(x) ==
  /\ InFlight(x)
  /\ Usable(SessionOf(x))
  /\ \E a \in Answers : Answered(x, a)

\* A killed or released connection, or a cancelled context, is an error.
StatementAborted(x) ==
  /\ InFlight(x)
  /\ ~ Usable(SessionOf(x))
  /\ Answered(x, "other")

\* onWire: the tags of a packet decoded on session s now.  A session that is
\* in neither map gives none.
PacketTag(s) ==
  [step |-> IF s \in Actors THEN stepIndex[s] ELSE 0,
   entry |-> IF s \in Registered THEN consoleID[s] ELSE 0]

-----------------------------------------------------------------------------
\* Everything has come to rest behind a closed run.
AtRest ==
  /\ closing = "over" /\ setup = "over"
  /\ \A c \in Consoles : opening[c] \in {"none", "open", "gone", "refused"}
  /\ \A x \in Statements : call[x] # "waiting" /\ ~ InFlight(x)

\* A closed run takes no further step.
Rest == AtRest /\ UNCHANGED vars

Teardown == CloseKill \/ CloseRelease \/ CloseDrop

SessionNext(c) ==
  \/ OpenSession(c) \/ OpenDial(c) \/ OpenConfigure(c) \/ OpenRefused(c)
  \/ OpenRegister(c)
  \/ CloseSession(c) \/ CloseSessionKill(c) \/ CloseSessionRelease(c)

StatementNext(x) ==
  Classify(x) \/ MySQLAnswers(x) \/ StatementAborted(x)

Next ==
  \/ SetupWork \/ SetupConclude \/ SetupCleanup
  \/ Close \/ Teardown
  \/ \E c \in Consoles : SessionNext(c)
  \/ \E i \in Steps : Step(i)
  \/ \E s \in Sessions : Console(s)
  \/ \E x \in Statements : StatementNext(x)
  \/ Rest

Spec == Init /\ [][Next]_vars

(***************************************************************************)
(* Fairness.  Goroutines that are runnable run, the settle timer fires and *)
(* a killed or cancelled statement returns.  Users owe nothing: nobody has *)
(* to press Step, type, open, close or stop a run.  Nor does MySQL have to *)
(* answer a statement on a healthy connection: it may wait on a lock for   *)
(* as long as the session's timeout says.                                  *)
(***************************************************************************)
Fairness ==
  /\ WF_vars(SetupWork) /\ WF_vars(SetupConclude) /\ WF_vars(SetupCleanup)
  /\ WF_vars(Teardown)
  /\ \A c \in Consoles :
       /\ WF_vars(OpenDial(c) \/ OpenConfigure(c) \/ OpenRefused(c) \/ OpenRegister(c))
       /\ WF_vars(CloseSessionKill(c) \/ CloseSessionRelease(c))
  /\ \A x \in Statements :
       WF_vars(Classify(x)) /\ WF_vars(StatementAborted(x))

FairSpec == Spec /\ Fairness

-----------------------------------------------------------------------------
(***************************************************************************)
(* Properties.                                                             *)
(***************************************************************************)

\* A session is busy exactly while one statement is in flight on it, whether
\* a step or typed SQL: the wire allows a connection one statement at a time.
OneStatementPerConnection ==
  /\ \A x, y \in Statements :
       InFlight(x) /\ InFlight(y) /\ SessionOf(x) = SessionOf(y) => x = y
  /\ \A s \in Sessions : busy[s] <=> \E x \in Statements : InFlight(x) /\ SessionOf(x) = s

\* A session in r.actors or r.consoles tags its packets with the statement in
\* flight on it, and with no entry that is over or runs elsewhere; a step tag
\* is the last step its actor submitted, answered or not.  CloseSession takes
\* a session out at once: the packets of a statement still in flight on it
\* get no tags, which is why the first part asks for a registered session.
TagsNameTheStatement ==
  /\ \A x \in Statements : InFlight(x) /\ SessionOf(x) \in Registered =>
       LET tag == PacketTag(SessionOf(x)) IN
         IF x \in Steps THEN tag.entry = 0 /\ tag.step = x ELSE tag.entry = x - NSteps
  /\ \A s \in Sessions :
       LET tag == PacketTag(s) IN
         /\ tag.entry # 0 => \E x \in Entries :
                               InFlight(x) /\ target[x] = s /\ tag.entry = x - NSteps
         /\ tag.step # 0 =>
              /\ StepActor[tag.step] = s /\ tag.step <= cursor
              /\ \A j \in Steps : StepActor[j] = s /\ j <= cursor => j <= tag.step

\* "tags a decoded packet with the step that was in flight for that session,
\* or with the console statement": of a session closed meanwhile it does not
\* hold.
EveryFlightIsTagged ==
  \A x \in Entries : InFlight(x) => PacketTag(target[x]).entry = x - NSteps

\* Both: what is in flight and what its packets are tagged with.
StatementsRight == OneStatementPerConnection /\ TagsNameTheStatement

\* A run is only reported finished when every step has its outcome.
FinishedMeansSettled ==
  status = "finished" => \A i \in Steps : stat[i] \in Settled

\* Setup and Close both close the ready channel; a second close would panic.
ReadyClosedOnce == ready <= 1

\* Whoever WaitReady sends on finds a connection behind every actor.
ReadyMeansConnected ==
  ready = 1 /\ setupErr = "nil" /\ ~ closed => \A a \in Actors : conn[a] = "open"

\* Both: the channel is closed once, and to those who can use the run.
ReadyRight == ReadyClosedOnce /\ ReadyMeansConnected

\* Step's classification and the executor race for the result; whoever is
\* second, an outcome and its verdict are never revised.
OutcomeIsFinal ==
  [][\A i \in Steps : stat[i] \in Settled =>
       stat'[i] = stat[i] /\ fault'[i] = fault[i] /\ verdict'[i] = verdict[i]]_vars

\* "blocks" claims the step hit a lock wait, not that it is still waiting: a
\* claim once met stays met however the statement ends.
BlocksClaimStands ==
  [][\A i \in Steps : Expect[i] = "blocks" /\ verdict[i] = "match" =>
       verdict'[i] = "match"]_vars

\* Playing a scenario keeps the promises of Playback.
PlaybackOf == INSTANCE Playback WITH
  outcome <- [i \in Steps |-> IF stat[i] \in Settled THEN "settled" ELSE stat[i]],
  ended <- closed
ImplementsPlayback == PlaybackOf!PlaybackSpec

\* What a run holds outside its own memory.
NothingHeld ==
  /\ ~ database
  /\ setupDB # "open"
  /\ \A s \in Sessions : conn[s] \in {"none", "released"}

\* A run that is closed once it was up gives back the scratch database and
\* every session it ever had registered, whatever was in flight on them.
UpRunIsReleased ==
  /\ []((setup = "over" /\ ~ closed) => [](AtRest => ~ database /\ setupDB # "open"))
  /\ \A s \in Sessions :
       []((setup = "over" /\ ~ closed /\ s \in Actors \union consoles) =>
            [](AtRest => conn[s] \in {"none", "released"}))

\* Close always completes, and leaves no goroutine behind, although MySQL may
\* never answer the statements that wait on a lock.
ClosedComesToRest == closed ~> AtRest

\* If MySQL answers, a scenario stepped to its end is reported finished, as
\* long as nobody typed into the console.
PlayedToTheEnd ==
  (\A x \in Statements : WF_vars(MySQLAnswers(x)))
    => (cursor = NSteps ~> status \in {"finished", "closed"} \/ entrySeq > 0)

\* Close: releases connections and proxies, and drops the scratch database.
ClosedRunHoldsNothing == AtRest => NothingHeld

\* The cap on console sessions, as its comment states it.
ConsoleCapHolds == Cardinality(consoles) <= MaxConsoleSessions
=============================================================================
