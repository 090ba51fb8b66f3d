----------------------------- MODULE RunProofs -----------------------------
(***************************************************************************)
(* Theorems about Run, for scenarios of any size and any number of console *)
(* sessions and statements.                                                *)
(***************************************************************************)
EXTENDS Run, TLAPS

\* Everything MySQL may answer; Answers is a subset of it.
AllAnswers == {"ok", "deadlock", "timeout", "other"}

\* The part of the state that submitting and answering statements is about.
statementVars == <<cursor, resultVars, busy, stepIndex, consoleID>>

-----------------------------------------------------------------------------
(***************************************************************************)
(* The inductive invariant of the statements.  OneStatementPerConnection   *)
(* is not inductive by itself: a statement number must be fresh when it is *)
(* handed out, and an idle session must have been left without a tag.      *)
(***************************************************************************)

\* Statements are numbered in the order they are submitted.
SubmittedInOrder ==
  /\ \A i \in Steps : stat[i] = "pending" <=> i > cursor
  /\ \A x \in Entries : stat[x] = "pending" <=> x > NSteps + entrySeq
  /\ \A x \in Entries : stat[x] # "pending" => target[x] \in Sessions

\* Nothing of a console statement sticks to the session it ran on.
IdleSessionsUntagged == \A s \in Sessions : ~ busy[s] => consoleID[s] = 0

\* A session names the statement in flight on it, registered or not.
SessionsNameTheStatement ==
  \A x \in Statements : InFlight(x) =>
    LET s == SessionOf(x) IN
      IF x \in Steps THEN consoleID[s] = 0 /\ stepIndex[s] = x
      ELSE consoleID[s] = x - NSteps

\* An actor points at the last step it submitted.
LastStepsKnown ==
  \A s \in Actors : stepIndex[s] # 0 =>
    /\ StepActor[stepIndex[s]] = s /\ stepIndex[s] <= cursor
    /\ \A j \in Steps : StepActor[j] = s /\ j <= cursor => j <= stepIndex[s]

\* A verdict is only given to a step that waited or has its outcome.
VerdictsEarned ==
  \A i \in Steps :
    /\ stat[i] \in {"pending", "running"} => verdict[i] = "none"
    /\ stat[i] = "blocked" => wasBlocked[i]

StatementInv ==
  /\ SubmittedInOrder
  /\ OneStatementPerConnection
  /\ SessionsNameTheStatement
  /\ LastStepsKnown
  /\ IdleSessionsUntagged
  /\ VerdictsEarned
  /\ FinishedMeansSettled

(***************************************************************************)
(* The inductive invariant of setup: how far it has come, against what is  *)
(* connected.  It says nothing of a run that has been closed meanwhile.    *)
(***************************************************************************)
SetupInv ==
  /\ closing # "no" <=> closed
  /\ ready \in {0, 1}
  /\ ~ closed =>
       /\ ready = 0 <=> setup \notin {"failed", "over"}
       /\ \A a \in Actors : conn[a] \in {"none", "open"}
       /\ setup = "failed" => setupErr = "setup"
       /\ setup \in {"succeeded", "over"} => \A a \in Actors : conn[a] = "open"

-----------------------------------------------------------------------------
(***************************************************************************)
(* Types.                                                                  *)
(***************************************************************************)

\* Session and statement numbers are where the sets say they are.
LEMMA NumbersInRange ==
  /\ Actors \subseteq Sessions
  /\ Consoles \subseteq Sessions
  /\ Actors \intersect Consoles = {}
  /\ Steps \subseteq Statements
  /\ Entries \subseteq Statements
  /\ Steps \union Entries = Statements
  /\ Steps \intersect Entries = {}
  /\ \A i \in Steps : StepActor[i] \in Actors /\ i \in 1..NSteps
  /\ 0 \in 0..MaxEntries
BY SizesAssumption, ScenarioAssumption
DEF Actors, Consoles, Sessions, Steps, Entries, Statements

\* Evaluate only ever gives one of the three verdicts.
LEMMA EvaluateRange ==
  ASSUME NEW i, NEW s, NEW f, NEW w
  PROVE  Evaluate(i, s, f, w) \in {"none", "match", "mismatch"}
BY DEF Evaluate

\* A new run is of its type.
LEMMA InitTypeOK == Init => TypeOK
<1> SUFFICES ASSUME Init PROVE TypeOK
  OBVIOUS
<1>1. ValueTypes
  BY SizesAssumption DEF Init, ValueTypes, StepStatus
<1>2. FlagTypes
  BY DEF Init, FlagTypes
<1> QED
  BY <1>1, <1>2 DEF TypeOK

\* Setup keeps the types.
LEMMA SetupTypeOK ==
  ASSUME TypeOK, SetupWork \/ SetupConclude \/ SetupCleanup
  PROVE  TypeOK'
<1> USE NumbersInRange DEF TypeOK, lifeVars, resultVars, sessionVars, heldVars, closeVars
<1>1. CASE SetupWork
  <2> USE <1>1 DEF SetupWork, SetupFails, SetupAcquire, SetupCreateDatabase, SetupOpenDB,
                   SetupSchema, SetupConnect, SetupConfigure, Dial
  <2>1. ValueTypes'
    BY DEF ValueTypes
  <2>2. FlagTypes'
    BY DEF FlagTypes
  <2> QED
    BY <2>1, <2>2
<1>2. CASE SetupConclude
  <2> USE <1>2 DEF SetupConclude, CloseReady
  <2>1. ValueTypes'
    BY DEF ValueTypes
  <2>2. FlagTypes'
    BY DEF FlagTypes
  <2> QED
    BY <2>1, <2>2
<1>3. CASE SetupCleanup
  <2> USE <1>3 DEF SetupCleanup, CloseBegin, CloseReady, Registered
  <2>1. ValueTypes'
    BY DEF ValueTypes
  <2>2. FlagTypes'
    BY DEF FlagTypes
  <2> QED
    BY <2>1, <2>2
<1> QED
  BY <1>1, <1>2, <1>3

\* Close keeps the types.
LEMMA CloseTypeOK ==
  ASSUME TypeOK, Close \/ Teardown
  PROVE  TypeOK'
<1> USE NumbersInRange DEF TypeOK, lifeVars, resultVars, sessionVars, heldVars, closeVars
<1>1. CASE Close
  <2> USE <1>1 DEF Close, CloseBegin, CloseReady, Registered
  <2>1. ValueTypes'
    BY DEF ValueTypes
  <2>2. FlagTypes'
    BY DEF FlagTypes
  <2> QED
    BY <2>1, <2>2
<1>2. CASE CloseKill
  <2> USE <1>2 DEF CloseKill, Kill
  <2>1. ValueTypes'
    BY DEF ValueTypes
  <2>2. FlagTypes'
    BY DEF FlagTypes
  <2> QED
    BY <2>1, <2>2
<1>3. CASE CloseRelease
  <2> USE <1>3 DEF CloseRelease, Release
  <2>1. ValueTypes'
    BY DEF ValueTypes
  <2>2. FlagTypes'
    BY DEF FlagTypes
  <2> QED
    BY <2>1, <2>2
<1>4. CASE CloseDrop
  <2> USE <1>4 DEF CloseDrop
  <2>1. ValueTypes'
    BY DEF ValueTypes
  <2>2. FlagTypes'
    BY DEF FlagTypes
  <2> QED
    BY <2>1, <2>2
<1> QED
  BY <1>1, <1>2, <1>3, <1>4 DEF Teardown

\* Opening and closing a console session keeps the types.
LEMMA SessionTypeOK ==
  ASSUME TypeOK, NEW c \in Consoles, SessionNext(c)
  PROVE  TypeOK'
<1> USE NumbersInRange, SizesAssumption
    DEF TypeOK, lifeVars, resultVars, sessionVars, heldVars, closeVars
<1>1. CASE OpenSession(c) \/ OpenConfigure(c) \/ OpenRefused(c) \/ OpenRegister(c)
  <2> USE <1>1 DEF OpenSession, OpenConfigure, OpenRefused, OpenRegister
  <2>1. consoles' \subseteq Consoles /\ consoleSeq' \in 0..MaxOpens
    BY DEF ValueTypes
  <2>2. opening' \in [Consoles -> {"none", "dialling", "configuring", "dialled", "open",
                                  "killing", "releasing", "gone", "refused"}]
    BY DEF ValueTypes
  <2>3. ValueTypes'
    BY <2>1, <2>2 DEF ValueTypes
  <2>4. FlagTypes'
    BY DEF FlagTypes
  <2> QED
    BY <2>3, <2>4
<1>2. CASE OpenDial(c)
  <2> USE <1>2 DEF OpenDial, Dial
  <2>1. ValueTypes'
    BY DEF ValueTypes
  <2>2. FlagTypes'
    BY DEF FlagTypes
  <2> QED
    BY <2>1, <2>2
<1>3. CASE CloseSession(c) \/ CloseSessionKill(c) \/ CloseSessionRelease(c)
  <2> USE <1>3 DEF CloseSession, CloseSessionKill, CloseSessionRelease, Kill, Release
  <2>1. ValueTypes'
    BY DEF ValueTypes
  <2>2. FlagTypes'
    BY DEF FlagTypes
  <2> QED
    BY <2>1, <2>2
<1> QED
  BY <1>1, <1>2, <1>3 DEF SessionNext

\* Submitting a statement keeps the types.
LEMMA SubmitTypeOK ==
  ASSUME TypeOK, (\E i \in Steps : Step(i)) \/ (\E s \in Sessions : Console(s))
  PROVE  TypeOK'
<1> USE DEF TypeOK, lifeVars, heldVars, closeVars
<1>1. ASSUME NEW i \in Steps, Step(i) PROVE TypeOK'
  <2> USE <1>1 DEF Step
  <2>1. cursor' \in 0..NSteps /\ i \in 0..NSteps
    BY SizesAssumption DEF Steps
  <2>2. stepIndex' \in [Actors -> 0..NSteps]
    BY <2>1 DEF ValueTypes
  <2>3. stat' \in [Statements -> StepStatus]
    BY DEF ValueTypes, StepStatus
  <2>4. ValueTypes'
    BY <2>1, <2>2, <2>3 DEF ValueTypes
  <2>5. FlagTypes'
    BY DEF FlagTypes
  <2> QED
    BY <2>4, <2>5
<1>2. ASSUME NEW s \in Sessions, Console(s) PROVE TypeOK'
  <2> USE <1>2 DEF Console
  <2>1. entrySeq' \in 0..MaxEntries /\ entrySeq + 1 \in 0..MaxEntries
    BY SizesAssumption DEF ValueTypes
  <2>2. consoleID' \in [Sessions -> 0..MaxEntries]
    BY <2>1 DEF ValueTypes
  <2>3. target' \in [Entries -> Sessions \union {0}]
    BY DEF ValueTypes
  <2>4. stat' \in [Statements -> StepStatus]
    BY DEF ValueTypes, StepStatus
  <2>5. ValueTypes'
    BY <2>1, <2>2, <2>3, <2>4 DEF ValueTypes
  <2>6. FlagTypes'
    BY DEF FlagTypes
  <2> QED
    BY <2>5, <2>6
<1> QED
  BY <1>1, <1>2

\* The caller's classification keeps the types.
LEMMA ClassifyTypeOK ==
  ASSUME TypeOK, NEW x \in Statements, Classify(x)
  PROVE  TypeOK'
<1> USE DEF TypeOK, lifeVars, sessionVars, heldVars, closeVars
<1>1. verdict' \in [Steps -> {"none", "match", "mismatch"}]
  <2> DEFINE v == Evaluate(x, "blocked", fault[x], TRUE)
  <2>1. v \in {"none", "match", "mismatch"}
    BY EvaluateRange
  <2>2. verdict' = verdict \/ verdict' = [verdict EXCEPT ![x] = v]
    BY DEF Classify
  <2> HIDE DEF v
  <2> QED
    BY <2>1, <2>2 DEF ValueTypes
<1>2. stat' \in [Statements -> StepStatus]
  BY DEF Classify, ValueTypes, StepStatus
<1>3. call' \in [Statements -> {"idle", "waiting", "returned"}]
  BY DEF Classify, ValueTypes
<1>4. UNCHANGED <<lifeVars, fault, target, entrySeq, sessionVars, heldVars, setup,
                  opening, closeVars>>
  BY DEF Classify
<1>5. ValueTypes'
  BY <1>1, <1>2, <1>3, <1>4 DEF ValueTypes
<1>6. FlagTypes'
  BY DEF Classify, FlagTypes
<1> QED
  BY <1>5, <1>6

\* Recording an answer keeps the types, whatever was answered.
LEMMA AnsweredTypeOK ==
  ASSUME TypeOK, NEW x \in Statements, NEW a \in AllAnswers, Answered(x, a)
  PROVE  TypeOK'
<1> USE NumbersInRange
    DEF TypeOK, heldVars, closeVars, Answered, StepAnswered, EntryAnswered, RecordAnswer
<1>1. verdict' \in [Steps -> {"none", "match", "mismatch"}]
  BY EvaluateRange DEF ValueTypes
<1>2. stat' \in [Statements -> StepStatus]
  BY DEF ValueTypes, StepStatus
<1>3. fault' \in [Statements -> {"none", "deadlock", "timeout", "other"}]
  BY DEF ValueTypes, FaultOf, AllAnswers
<1>4. consoleID' \in [Sessions -> 0..MaxEntries]
  BY DEF ValueTypes
<1>5. status' \in {"preparing", "ready", "running", "finished", "failed", "closed"}
  BY DEF ValueTypes
<1>6. ValueTypes'
  BY <1>1, <1>2, <1>3, <1>4, <1>5 DEF ValueTypes
<1>7. FlagTypes'
  BY DEF FlagTypes
<1> QED
  BY <1>6, <1>7

\* A statement step is a classification or an answer to a statement in flight.
LEMMA StatementCases ==
  ASSUME NEW x \in Statements, StatementNext(x)
  PROVE  Classify(x) \/ (InFlight(x) /\ \E a \in AllAnswers : Answered(x, a))
BY AnswersAssumption DEF StatementNext, MySQLAnswers, StatementAborted, AllAnswers

\* Every step keeps the types.
LEMMA NextTypeOK == TypeOK /\ [Next]_vars => TypeOK'
<1> SUFFICES ASSUME TypeOK, [Next]_vars PROVE TypeOK'
  OBVIOUS
<1>1. CASE SetupWork \/ SetupConclude \/ SetupCleanup
  BY <1>1, SetupTypeOK
<1>2. CASE Close \/ Teardown
  BY <1>2, CloseTypeOK
<1>3. CASE \E c \in Consoles : SessionNext(c)
  BY <1>3, SessionTypeOK
<1>4. CASE (\E i \in Steps : Step(i)) \/ (\E s \in Sessions : Console(s))
  BY <1>4, SubmitTypeOK
<1>5. CASE \E x \in Statements : StatementNext(x)
  BY <1>5, StatementCases, ClassifyTypeOK, AnsweredTypeOK
<1>6. CASE UNCHANGED vars
  <2> USE <1>6 DEF vars, lifeVars, resultVars, sessionVars, heldVars, closeVars
  <2>1. ValueTypes'
    BY DEF TypeOK, ValueTypes
  <2>2. FlagTypes'
    BY DEF TypeOK, FlagTypes
  <2> QED
    BY <2>1, <2>2 DEF TypeOK
<1> QED
  BY <1>1, <1>2, <1>3, <1>4, <1>5, <1>6 DEF Next, Rest

\* Every variable of a run keeps its type in every behaviour.
THEOREM TypeCorrect == Spec => []TypeOK
<1>1. Init => TypeOK
  BY InitTypeOK
<1>2. TypeOK /\ [Next]_vars => TypeOK'
  BY NextTypeOK
<1> QED
  BY <1>1, <1>2, PTL DEF Spec

-----------------------------------------------------------------------------
(***************************************************************************)
(* The statement invariant.                                                *)
(***************************************************************************)

\* Only submitting, classifying and answering touch the statements, and
\* nothing else reports a run finished.
LEMMA StatementFootprint ==
  ASSUME [Next]_vars
  PROVE  \/ UNCHANGED statementVars /\ (status' = "finished" => status = "finished")
         \/ \E i \in Steps : Step(i)
         \/ \E s \in Sessions : Console(s)
         \/ \E x \in Statements : Classify(x)
         \/ \E x \in Statements : InFlight(x) /\ \E a \in AllAnswers : Answered(x, a)
<1> USE DEF statementVars, lifeVars, sessionVars, resultVars
<1>1. CASE SetupWork \/ SetupConclude \/ SetupCleanup
  BY <1>1 DEF SetupWork, SetupConclude, SetupCleanup, CloseBegin
<1>2. CASE Close \/ Teardown
  BY <1>2 DEF Close, CloseBegin, Teardown, CloseKill, CloseRelease, CloseDrop
<1>3. CASE \E c \in Consoles : SessionNext(c)
  BY <1>3 DEF SessionNext, OpenSession, OpenDial, OpenConfigure, OpenRefused, OpenRegister,
              CloseSession, CloseSessionKill, CloseSessionRelease
<1>4. CASE UNCHANGED vars
  BY <1>4 DEF vars
<1>5. CASE \E x \in Statements : StatementNext(x)
  BY <1>5, StatementCases
<1> QED
  BY <1>1, <1>2, <1>3, <1>4, <1>5 DEF Next, Rest

\* Nothing is in flight before the first step.
LEMMA InitStatementInv == Init => StatementInv
<1> SUFFICES ASSUME Init PROVE StatementInv
  OBVIOUS
<1>1. \A x \in Statements : stat[x] = "pending" /\ ~ InFlight(x)
  BY DEF Init, InFlight, InFlightStatus
<1>2. SubmittedInOrder
  BY <1>1, NumbersInRange, SizesAssumption DEF Init, SubmittedInOrder, Steps, Entries
<1>3. OneStatementPerConnection /\ SessionsNameTheStatement /\ LastStepsKnown
  BY <1>1 DEF Init, OneStatementPerConnection, SessionsNameTheStatement, LastStepsKnown
<1>4. IdleSessionsUntagged /\ VerdictsEarned /\ FinishedMeansSettled
  BY <1>1, NumbersInRange
  DEF Init, IdleSessionsUntagged, VerdictsEarned, FinishedMeansSettled
<1> QED
  BY <1>2, <1>3, <1>4 DEF StatementInv

\* A step that changes no statement, and finishes no run, keeps the invariant.
LEMMA IdleKeepsStatementInv ==
  ASSUME StatementInv, UNCHANGED statementVars, status' = "finished" => status = "finished"
  PROVE  StatementInv'
BY DEF StatementInv, statementVars, resultVars, SubmittedInOrder, OneStatementPerConnection,
       SessionsNameTheStatement, LastStepsKnown, IdleSessionsUntagged, VerdictsEarned,
       FinishedMeansSettled,
       InFlight, SessionOf

\* Submitting a step keeps the invariant.
LEMMA StepKeepsStatementInv ==
  ASSUME TypeOK, StatementInv, NEW i \in Steps, Step(i)
  PROVE  StatementInv'
<1> DEFINE s == StepActor[i]
<1>1. s \in Sessions /\ s \in Actors /\ ~ busy[s] /\ SessionOf(i) = s /\ i \in Statements
  BY NumbersInRange DEF Step, StepRefused, SessionOf
<1>2. /\ i = cursor + 1 /\ cursor' = i /\ status' = "running"
      /\ stat' = [stat EXCEPT ![i] = "running"]
      /\ verdict' = [verdict EXCEPT ![i] = "none"]
      /\ busy' = [busy EXCEPT ![s] = TRUE]
      /\ stepIndex' = [stepIndex EXCEPT ![s] = i]
      /\ UNCHANGED <<wasBlocked, target, entrySeq, consoleID>>
  BY DEF Step
<1>3. /\ InFlight(i)'
      /\ \A y \in Statements \ {i} : InFlight(y)' = InFlight(y)
      /\ \A y \in Statements : SessionOf(y)' = SessionOf(y)
  BY <1>1, <1>2 DEF TypeOK, ValueTypes, InFlight, InFlightStatus, SessionOf
<1>4. \A y \in Statements : InFlight(y) => SessionOf(y) # s
  BY <1>1 DEF StatementInv, OneStatementPerConnection
<1> HIDE DEF s
<1>5. SubmittedInOrder'
  BY <1>2, NumbersInRange DEF StatementInv, SubmittedInOrder, TypeOK, ValueTypes, Steps
<1>6. OneStatementPerConnection'
  <2>1. \A x, y \in Statements :
          InFlight(x)' /\ InFlight(y)' /\ SessionOf(x)' = SessionOf(y)' => x = y
    BY <1>1, <1>3, <1>4 DEF StatementInv, OneStatementPerConnection
  <2>2. \A t \in Sessions : busy'[t] <=> \E x \in Statements : InFlight(x)' /\ SessionOf(x)' = t
    <3> TAKE t \in Sessions
    <3>1. CASE t = s
      <4>1. busy'[t]
        BY <1>1, <1>2, <3>1 DEF TypeOK, FlagTypes
      <4> QED
        BY <4>1, <1>1, <1>3, <3>1
    <3>2. CASE t # s
      <4>1. busy'[t] = busy[t]
        BY <1>1, <1>2, <3>2 DEF TypeOK, FlagTypes
      <4> QED
        BY <4>1, <1>1, <1>3, <3>2 DEF StatementInv, OneStatementPerConnection
    <3> QED
      BY <3>1, <3>2
  <2> QED
    BY <2>1, <2>2 DEF OneStatementPerConnection
<1>7. SessionsNameTheStatement'
  <2>1. ASSUME NEW x \in Statements, InFlight(x)', x # i
        PROVE  InFlight(x) /\ SessionOf(x) # s
    BY <2>1, <1>3, <1>4
  <2>2. consoleID[s] = 0
    BY <1>1 DEF StatementInv, IdleSessionsUntagged
  <2>3. ASSUME NEW x \in Statements, InFlight(x)', x # i, x \in Steps
        PROVE  consoleID'[SessionOf(x)'] = 0 /\ stepIndex'[SessionOf(x)'] = x
    <3>1. SessionOf(x) \in Actors
      BY <2>3, NumbersInRange DEF SessionOf
    <3> QED
      BY <3>1, <2>1, <2>3, <1>1, <1>2, <1>3
      DEF StatementInv, SessionsNameTheStatement, TypeOK, ValueTypes
  <2>4. ASSUME NEW x \in Statements, InFlight(x)', x # i, x \notin Steps
        PROVE  consoleID'[SessionOf(x)'] = x - NSteps
    BY <2>1, <2>4, <1>2, <1>3 DEF StatementInv, SessionsNameTheStatement
  <2>5. consoleID'[SessionOf(i)'] = 0 /\ stepIndex'[SessionOf(i)'] = i
    BY <2>2, <1>1, <1>2, <1>3 DEF TypeOK, ValueTypes
  <2> QED
    BY <2>3, <2>4, <2>5 DEF SessionsNameTheStatement
<1>8. IdleSessionsUntagged'
  <2> SUFFICES ASSUME NEW t \in Sessions, ~ busy'[t] PROVE consoleID'[t] = 0
    BY DEF IdleSessionsUntagged
  <2>1. ~ busy[t]
    BY <1>1, <1>2 DEF TypeOK, FlagTypes
  <2> QED
    BY <2>1, <1>2 DEF StatementInv, IdleSessionsUntagged
<1>8a. LastStepsKnown'
  <2> SUFFICES ASSUME NEW t \in Actors, stepIndex'[t] # 0
               PROVE  /\ StepActor[stepIndex'[t]] = t /\ stepIndex'[t] <= cursor'
                      /\ \A j \in Steps : StepActor[j] = t /\ j <= cursor' => j <= stepIndex'[t]
    BY DEF LastStepsKnown
  <2>1. CASE t = s
    <3>1. stepIndex'[t] = i /\ StepActor[i] = s
      BY <2>1, <1>1, <1>2 DEF TypeOK, ValueTypes, s
    <3> QED
      BY <3>1, <2>1, <1>2
  <2>2. CASE t # s
    <3>1. stepIndex'[t] = stepIndex[t] /\ StepActor[i] # t
      BY <2>2, <1>2 DEF TypeOK, ValueTypes, s
    <3>2. stepIndex[t] \in 0..NSteps /\ cursor \in 0..NSteps
      BY DEF TypeOK, ValueTypes
    <3> QED
      BY <3>1, <3>2, <1>2, NumbersInRange, SizesAssumption DEF StatementInv, LastStepsKnown, Steps
  <2> QED
    BY <2>1, <2>2
<1>9. VerdictsEarned'
  BY <1>1, <1>2, NumbersInRange DEF StatementInv, VerdictsEarned, TypeOK, ValueTypes
<1>10. FinishedMeansSettled'
  BY <1>2 DEF FinishedMeansSettled
<1> QED
  BY <1>8a, <1>5, <1>6, <1>7, <1>8, <1>9, <1>10 DEF StatementInv

\* Submitting typed SQL keeps the invariant.
LEMMA ConsoleKeepsStatementInv ==
  ASSUME TypeOK, StatementInv, NEW s \in Sessions, Console(s)
  PROVE  StatementInv'
<1>0. PICK e \in Entries : e = NSteps + entrySeq + 1
  BY SizesAssumption DEF Console, TypeOK, ValueTypes, Entries
<1>1. e \in Entries /\ e \in Statements /\ e \notin Steps /\ e - NSteps = entrySeq + 1
  BY <1>0, SizesAssumption, NumbersInRange DEF TypeOK, ValueTypes
<1>2. /\ entrySeq' = entrySeq + 1
      /\ target' = [target EXCEPT ![e] = s]
      /\ stat' = [stat EXCEPT ![e] = "running"]
      /\ busy' = [busy EXCEPT ![s] = TRUE]
      /\ consoleID' = [consoleID EXCEPT ![s] = entrySeq + 1]
      /\ UNCHANGED <<cursor, status, wasBlocked, verdict, stepIndex>>
  BY <1>0 DEF Console, lifeVars
<1>3. ~ busy[s]
  BY DEF Console, ConsoleRefused
<1>4. /\ InFlight(e)' /\ SessionOf(e)' = s
      /\ \A y \in Statements \ {e} : InFlight(y)' = InFlight(y)
      /\ \A y \in Statements \ {e} : SessionOf(y)' = SessionOf(y)
  BY <1>1, <1>2, NumbersInRange DEF TypeOK, ValueTypes, InFlight, InFlightStatus, SessionOf
<1>5. \A y \in Statements : InFlight(y) => SessionOf(y) # s
  BY <1>3 DEF StatementInv, OneStatementPerConnection
<1>6. SubmittedInOrder'
  <2>1. \A j \in Steps : stat'[j] = stat[j]
    BY <1>1, <1>2, NumbersInRange DEF TypeOK, ValueTypes
  <2>2. \A x \in Entries : stat'[x] = "pending" <=> x > NSteps + entrySeq'
    BY <1>0, <1>1, <1>2, NumbersInRange, SizesAssumption
    DEF StatementInv, SubmittedInOrder, TypeOK, ValueTypes, Entries
  <2>3. \A x \in Entries : stat'[x] # "pending" => target'[x] \in Sessions
    BY <1>1, <1>2, NumbersInRange DEF StatementInv, SubmittedInOrder, TypeOK, ValueTypes
  <2> QED
    BY <2>1, <2>2, <2>3, <1>2 DEF StatementInv, SubmittedInOrder
<1>7. OneStatementPerConnection'
  <2>1. \A x, y \in Statements :
          InFlight(x)' /\ InFlight(y)' /\ SessionOf(x)' = SessionOf(y)' => x = y
    BY <1>1, <1>4, <1>5 DEF StatementInv, OneStatementPerConnection
  <2>2. \A t \in Sessions : busy'[t] <=> \E x \in Statements : InFlight(x)' /\ SessionOf(x)' = t
    <3> TAKE t \in Sessions
    <3>1. CASE t = s
      <4>1. busy'[t]
        BY <1>2, <3>1 DEF TypeOK, FlagTypes
      <4> QED
        BY <4>1, <1>1, <1>4, <3>1
    <3>2. CASE t # s
      <4>1. busy'[t] = busy[t]
        BY <1>2, <3>2 DEF TypeOK, FlagTypes
      <4>2. ~ InFlight(e)
        BY <1>0, <1>1, SizesAssumption
        DEF StatementInv, SubmittedInOrder, InFlight, InFlightStatus, TypeOK, ValueTypes
      <4> QED
        BY <4>1, <4>2, <1>1, <1>4, <3>2 DEF StatementInv, OneStatementPerConnection
    <3> QED
      BY <3>1, <3>2
  <2> QED
    BY <2>1, <2>2 DEF OneStatementPerConnection
<1>8. SessionsNameTheStatement'
  <2>1. ASSUME NEW x \in Statements, InFlight(x)', x # e
        PROVE  /\ InFlight(x) /\ SessionOf(x) # s
               /\ consoleID'[SessionOf(x)'] = consoleID[SessionOf(x)]
               /\ stepIndex'[SessionOf(x)'] = stepIndex[SessionOf(x)]
    <3>1. InFlight(x) /\ SessionOf(x) # s /\ SessionOf(x)' = SessionOf(x)
      BY <2>1, <1>4, <1>5
    <3> QED
      BY <3>1, <1>2 DEF TypeOK, ValueTypes
  <2>2. consoleID'[SessionOf(e)'] = e - NSteps
    BY <1>1, <1>2, <1>4 DEF TypeOK, ValueTypes
  <2> QED
    BY <2>1, <2>2, <1>1 DEF StatementInv, SessionsNameTheStatement
<1>9. IdleSessionsUntagged'
  <2> SUFFICES ASSUME NEW t \in Sessions, ~ busy'[t] PROVE consoleID'[t] = 0
    BY DEF IdleSessionsUntagged
  <2>1. ~ busy[t] /\ t # s
    BY <1>2 DEF TypeOK, FlagTypes
  <2> QED
    BY <2>1, <1>2 DEF StatementInv, IdleSessionsUntagged, TypeOK, ValueTypes
<1>9a. LastStepsKnown'
  BY <1>2 DEF StatementInv, LastStepsKnown
<1>10. \A j \in Steps : stat'[j] = stat[j]
  BY <1>1, <1>2, NumbersInRange DEF TypeOK, ValueTypes
<1>11. VerdictsEarned' /\ FinishedMeansSettled'
  BY <1>2, <1>10 DEF StatementInv, VerdictsEarned, FinishedMeansSettled
<1> QED
  BY <1>9a, <1>6, <1>7, <1>8, <1>9, <1>11 DEF StatementInv

\* Classifying a statement as blocked keeps the invariant.
LEMMA ClassifyKeepsStatementInv ==
  ASSUME TypeOK, StatementInv, NEW x \in Statements, Classify(x)
  PROVE  StatementInv'
<1>1. UNCHANGED <<cursor, status, target, entrySeq, busy, stepIndex, consoleID>>
  BY DEF Classify, lifeVars, sessionVars
<1>2. CASE ~ StillRunning(x)
  <2>1. UNCHANGED statementVars
    BY <1>1, <1>2 DEF Classify, statementVars, resultVars
  <2> QED
    BY <2>1, <1>1, IdleKeepsStatementInv
<1>3. CASE StillRunning(x)
  <2>1. /\ stat[x] = "running"
        /\ stat' = [stat EXCEPT ![x] = "blocked"]
        /\ wasBlocked' = [wasBlocked EXCEPT ![x] = TRUE]
        /\ \A i \in Steps \ {x} : verdict'[i] = verdict[i]
    BY <1>3 DEF Classify, StillRunning, TypeOK, ValueTypes
  <2>2. /\ stat'[x] = "blocked"
        /\ \A y \in Statements \ {x} : stat'[y] = stat[y]
    BY <2>1 DEF TypeOK, ValueTypes
  <2>3. wasBlocked'[x]
    BY <2>1 DEF TypeOK, FlagTypes
  <2>4. \A y \in Statements \ {x} : wasBlocked'[y] = wasBlocked[y]
    BY <2>1 DEF TypeOK, FlagTypes
  <2>5. \A y \in Statements : InFlight(y)' = InFlight(y) /\ SessionOf(y)' = SessionOf(y)
    BY <1>1, <2>1, <2>2 DEF InFlight, InFlightStatus, SessionOf
  <2>6. SubmittedInOrder'
    BY <1>1, <2>1, <2>2, NumbersInRange DEF StatementInv, SubmittedInOrder
  <2>7. OneStatementPerConnection'
    BY <1>1, <2>5 DEF StatementInv, OneStatementPerConnection
  <2>8. SessionsNameTheStatement'
    BY <1>1, <2>5 DEF StatementInv, SessionsNameTheStatement
  <2>8a. LastStepsKnown'
    BY <1>1 DEF StatementInv, LastStepsKnown
  <2>9. IdleSessionsUntagged'
    BY <1>1 DEF StatementInv, IdleSessionsUntagged
  <2>10. VerdictsEarned'
    BY <2>1, <2>2, <2>3, <2>4, NumbersInRange DEF StatementInv, VerdictsEarned
  <2>11. FinishedMeansSettled'
    BY <1>1, <2>1, <2>2, NumbersInRange DEF StatementInv, FinishedMeansSettled, Settled
  <2> QED
    BY <2>6, <2>7, <2>8, <2>8a, <2>9, <2>10, <2>11 DEF StatementInv
<1> QED
  BY <1>2, <1>3

\* Recording an answer keeps the invariant: it frees the one session the
\* statement was in flight on, and the run is only finished when every other
\* session an actor holds is free as well.
LEMMA AnsweredKeepsStatementInv ==
  ASSUME TypeOK, StatementInv, NEW x \in Statements, InFlight(x),
         NEW a \in AllAnswers, Answered(x, a)
  PROVE  StatementInv'
<1>1. PICK s : s = SessionOf(x)
  OBVIOUS
<1>2. s \in Sessions
  BY <1>1, NumbersInRange
  DEF SessionOf, InFlight, InFlightStatus, StatementInv, SubmittedInOrder
<1>3. /\ stat' = [stat EXCEPT ![x] = IF a = "ok" THEN "done" ELSE "error"]
      /\ busy' = [busy EXCEPT ![s] = FALSE]
      /\ UNCHANGED <<cursor, wasBlocked, target, entrySeq, stepIndex>>
  BY <1>1 DEF Answered, StepAnswered, EntryAnswered, RecordAnswer
<1>4. stat'[x] \in Settled /\ \A y \in Statements \ {x} : stat'[y] = stat[y]
  BY <1>3 DEF Settled, TypeOK, ValueTypes
<1>5. ~ busy'[s] /\ \A t \in Sessions \ {s} : busy'[t] = busy[t]
  BY <1>2, <1>3 DEF TypeOK, FlagTypes
<1>6. /\ ~ InFlight(x)'
      /\ \A y \in Statements \ {x} : InFlight(y)' = InFlight(y)
      /\ \A y \in Statements : SessionOf(y)' = SessionOf(y)
  BY <1>3, <1>4 DEF InFlight, InFlightStatus, Settled, SessionOf
<1>7. \A y \in Statements \ {x} : InFlight(y) => SessionOf(y) # s
  BY <1>1 DEF StatementInv, OneStatementPerConnection
<1>8. consoleID' = IF x \in Steps THEN consoleID ELSE [consoleID EXCEPT ![s] = 0]
  BY <1>1 DEF Answered, StepAnswered, EntryAnswered
<1>9. consoleID'[s] = 0
  BY <1>1, <1>2, <1>8 DEF StatementInv, SessionsNameTheStatement, TypeOK, ValueTypes
<1>10. \A t \in Sessions \ {s} : consoleID'[t] = consoleID[t]
  BY <1>2, <1>8 DEF TypeOK, ValueTypes
<1>11. SubmittedInOrder'
  BY <1>3, <1>4, NumbersInRange
  DEF StatementInv, SubmittedInOrder, InFlight, InFlightStatus, Settled
<1>12. OneStatementPerConnection'
  <2>1. \A t \in Sessions : busy'[t] <=> \E y \in Statements : InFlight(y)' /\ SessionOf(y)' = t
    <3> TAKE t \in Sessions
    <3>1. CASE t = s
      BY <3>1, <1>5, <1>6, <1>7
    <3>2. CASE t # s
      BY <3>2, <1>1, <1>5, <1>6 DEF StatementInv, OneStatementPerConnection
    <3> QED
      BY <3>1, <3>2
  <2> QED
    BY <2>1, <1>6 DEF StatementInv, OneStatementPerConnection
<1>13. SessionsNameTheStatement'
  <2> SUFFICES ASSUME NEW y \in Statements, InFlight(y)'
               PROVE  IF y \in Steps
                      THEN consoleID'[SessionOf(y)'] = 0 /\ stepIndex'[SessionOf(y)'] = y
                      ELSE consoleID'[SessionOf(y)'] = y - NSteps
    BY DEF SessionsNameTheStatement
  <2>1. InFlight(y) /\ SessionOf(y) # s /\ SessionOf(y)' = SessionOf(y)
    BY <1>6, <1>7
  <2>2. SessionOf(y) \in Sessions
    BY <2>1, NumbersInRange
    DEF SessionOf, InFlight, InFlightStatus, StatementInv, SubmittedInOrder
  <2>3. /\ consoleID'[SessionOf(y)'] = consoleID[SessionOf(y)]
        /\ stepIndex'[SessionOf(y)'] = stepIndex[SessionOf(y)]
    BY <2>1, <2>2, <1>3, <1>10
  <2> QED
    BY <2>1, <2>3 DEF StatementInv, SessionsNameTheStatement
<1>14. IdleSessionsUntagged'
  BY <1>5, <1>9, <1>10 DEF StatementInv, IdleSessionsUntagged
<1>14a. LastStepsKnown'
  BY <1>3 DEF StatementInv, LastStepsKnown
<1>15. \A i \in Steps \ {x} : verdict'[i] = verdict[i]
  BY DEF Answered, StepAnswered, EntryAnswered, TypeOK, ValueTypes
<1>16. VerdictsEarned'
  BY <1>3, <1>4, <1>15, NumbersInRange DEF StatementInv, VerdictsEarned, Settled
<1>17. FinishedMeansSettled'
  <2> SUFFICES ASSUME status' = "finished", NEW i \in Steps PROVE stat'[i] \in Settled
    BY DEF FinishedMeansSettled
  <2>1. CASE status = "finished"
    BY <2>1, <1>4, NumbersInRange DEF StatementInv, FinishedMeansSettled
  <2>2. CASE status # "finished"
    <3>1. x \in Steps /\ Finishes(s)
      BY <2>2, <1>1, NumbersInRange DEF Answered, StepAnswered, EntryAnswered, SessionOf
    <3>2. stat[i] # "pending"
      BY <3>1, NumbersInRange, SizesAssumption
      DEF Finishes, StatementInv, SubmittedInOrder, TypeOK, ValueTypes
    <3>3. i # x => ~ InFlight(i)
      BY <3>1, <1>7, NumbersInRange
      DEF Finishes, StatementInv, OneStatementPerConnection, SessionOf
    <3>4. i # x => stat'[i] = stat[i] /\ stat[i] \in StepStatus
      BY <1>4, NumbersInRange DEF TypeOK, ValueTypes
    <3> QED
      BY <3>2, <3>3, <3>4, <1>4 DEF InFlight, InFlightStatus, StepStatus, Settled
  <2> QED
    BY <2>1, <2>2
<1> QED
  BY <1>14a, <1>11, <1>12, <1>13, <1>14, <1>16, <1>17 DEF StatementInv

\* Every step keeps the invariant.
LEMMA NextStatementInv == TypeOK /\ StatementInv /\ [Next]_vars => StatementInv'
BY StatementFootprint, IdleKeepsStatementInv, StepKeepsStatementInv,
   ConsoleKeepsStatementInv, ClassifyKeepsStatementInv, AnsweredKeepsStatementInv

\* The statement invariant holds of every reachable state.
THEOREM StatementsInvariant == Spec => []StatementInv
<1>1. Init => StatementInv
  BY InitStatementInv
<1>2. TypeOK /\ StatementInv /\ [Next]_vars => StatementInv'
  BY NextStatementInv
<1> QED
  BY <1>1, <1>2, TypeCorrect, PTL DEF Spec

\* What the sessions hold is what their packets are tagged with.
LEMMA TagsFollow == TypeOK /\ StatementInv => TagsNameTheStatement
<1> SUFFICES ASSUME TypeOK, StatementInv PROVE TagsNameTheStatement
  OBVIOUS
<1>1. ASSUME NEW x \in Statements, InFlight(x), SessionOf(x) \in Registered
      PROVE  IF x \in Steps
             THEN PacketTag(SessionOf(x)).entry = 0 /\ PacketTag(SessionOf(x)).step = x
             ELSE PacketTag(SessionOf(x)).entry = x - NSteps
  <2>1. x \in Steps => SessionOf(x) \in Actors
    BY NumbersInRange DEF SessionOf
  <2> QED
    BY <1>1, <2>1 DEF PacketTag, StatementInv, SessionsNameTheStatement
<1>2. ASSUME NEW s \in Sessions, PacketTag(s).entry # 0
      PROVE  \E x \in Entries :
               InFlight(x) /\ target[x] = s /\ PacketTag(s).entry = x - NSteps
  <2>1. consoleID[s] # 0 /\ PacketTag(s).entry = consoleID[s]
    BY <1>2 DEF PacketTag
  <2>2. PICK x \in Statements : InFlight(x) /\ SessionOf(x) = s
    BY <2>1 DEF StatementInv, IdleSessionsUntagged, OneStatementPerConnection
  <2>3. x \notin Steps /\ consoleID[s] = x - NSteps
    BY <2>1, <2>2 DEF StatementInv, SessionsNameTheStatement
  <2> QED
    BY <2>1, <2>2, <2>3, NumbersInRange DEF SessionOf
<1>3. ASSUME NEW s \in Sessions, PacketTag(s).step # 0
      PROVE  /\ StepActor[PacketTag(s).step] = s /\ PacketTag(s).step <= cursor
             /\ \A j \in Steps : StepActor[j] = s /\ j <= cursor => j <= PacketTag(s).step
  <2>1. s \in Actors /\ PacketTag(s).step = stepIndex[s] /\ stepIndex[s] # 0
    BY <1>3 DEF PacketTag
  <2> QED
    BY <2>1 DEF StatementInv, LastStepsKnown
<1> QED
  BY <1>1, <1>2, <1>3 DEF TagsNameTheStatement

\* A connection never carries two statements, and is busy exactly while it
\* carries one, however steps, typed SQL, answers and Close interleave.
THEOREM OneStatement == Spec => []OneStatementPerConnection
<1>1. StatementInv => OneStatementPerConnection
  BY DEF StatementInv
<1> QED
  BY <1>1, StatementsInvariant, PTL

\* A packet of a registered session is tagged with the statement in flight on
\* it, and no packet with an entry that is over.
THEOREM TagsAreRight == Spec => []TagsNameTheStatement
<1> QED
  BY TagsFollow, TypeCorrect, StatementsInvariant, PTL

\* What is in flight is right, and so are the tags of its packets.
THEOREM StatementsAreRight == Spec => []StatementsRight
<1>1. TypeOK /\ StatementInv => StatementsRight
  BY TagsFollow DEF StatementInv, StatementsRight
<1> QED
  BY <1>1, TypeCorrect, StatementsInvariant, PTL

\* A run reported finished has an outcome for every step.
THEOREM FinishedIsSettled == Spec => []FinishedMeansSettled
<1>1. StatementInv => FinishedMeansSettled
  BY DEF StatementInv
<1> QED
  BY <1>1, StatementsInvariant, PTL

-----------------------------------------------------------------------------
(***************************************************************************)
(* What a step of the run may never do.                                    *)
(***************************************************************************)

\* What Step, Console, Classify and Answered leave alone, step by step.
LEMMA OtherStepsUntouched ==
  ASSUME TypeOK, StatementInv, [Next]_vars, NEW i \in Steps,
         ~ Step(i), ~ Classify(i), ~ (InFlight(i) /\ \E a \in AllAnswers : Answered(i, a))
  PROVE  UNCHANGED <<stat[i], wasBlocked[i], fault[i], verdict[i]>>
<1> USE NumbersInRange DEF TypeOK, ValueTypes, FlagTypes
<1>1. CASE UNCHANGED statementVars
  BY <1>1 DEF statementVars, resultVars
<1>2. ASSUME NEW j \in Steps, Step(j) PROVE UNCHANGED <<stat[i], wasBlocked[i], fault[i], verdict[i]>>
  BY <1>2 DEF Step
<1>3. ASSUME NEW s \in Sessions, Console(s)
      PROVE  UNCHANGED <<stat[i], wasBlocked[i], fault[i], verdict[i]>>
  <2>1. NSteps + entrySeq + 1 # i
    BY SizesAssumption DEF Steps
  <2> QED
    BY <2>1, <1>3 DEF Console
<1>4. ASSUME NEW x \in Statements, Classify(x)
      PROVE  UNCHANGED <<stat[i], wasBlocked[i], fault[i], verdict[i]>>
  <2>1. x # i
    BY <1>4
  <2> QED
    BY <2>1, <1>4 DEF Classify
<1>5. ASSUME NEW x \in Statements, InFlight(x), NEW a \in AllAnswers, Answered(x, a)
      PROVE  UNCHANGED <<stat[i], wasBlocked[i], fault[i], verdict[i]>>
  <2>1. x # i
    BY <1>5
  <2> QED
    BY <2>1, <1>5 DEF Answered, StepAnswered, EntryAnswered, RecordAnswer
<1> QED
  BY <1>1, <1>2, <1>3, <1>4, <1>5, StatementFootprint

\* An outcome and its verdict are never revised, whichever of the caller and
\* the executor of a statement is second.
THEOREM OutcomesAreFinal == Spec => OutcomeIsFinal
<1> DEFINE P == \A i \in Steps : stat[i] \in Settled =>
                  stat'[i] = stat[i] /\ fault'[i] = fault[i] /\ verdict'[i] = verdict[i]
<1>1. TypeOK /\ StatementInv /\ [Next]_vars => P
  <2> SUFFICES ASSUME TypeOK, StatementInv, [Next]_vars, NEW i \in Steps, stat[i] \in Settled
               PROVE  stat'[i] = stat[i] /\ fault'[i] = fault[i] /\ verdict'[i] = verdict[i]
    OBVIOUS
  <2>1. ~ Step(i)
    BY SizesAssumption
    DEF Step, Settled, StatementInv, SubmittedInOrder, TypeOK, ValueTypes, Steps
  <2>2. ~ InFlight(i)
    BY DEF InFlight, InFlightStatus, Settled
  <2>3. CASE Classify(i)
    BY <2>3 DEF Classify, StillRunning, Settled
  <2>4. CASE ~ Classify(i)
    BY <2>1, <2>2, <2>4, OtherStepsUntouched
  <2> QED
    BY <2>3, <2>4
<1> QED
  BY <1>1, TypeCorrect, StatementsInvariant, PTL DEF Spec, OutcomeIsFinal

\* A step claimed to block, and seen to, keeps its verdict however it ends.
THEOREM BlocksClaimsStand == Spec => BlocksClaimStands
<1> DEFINE P == \A i \in Steps : Expect[i] = "blocks" /\ verdict[i] = "match" =>
                  verdict'[i] = "match"
<1>1. TypeOK /\ StatementInv /\ [Next]_vars => P
  <2> SUFFICES ASSUME TypeOK, StatementInv, [Next]_vars, NEW i \in Steps,
                      Expect[i] = "blocks", verdict[i] = "match"
               PROVE  verdict'[i] = "match"
    OBVIOUS
  <2>1. stat[i] \notin {"pending", "running"}
    BY DEF StatementInv, VerdictsEarned
  <2>2. ~ Step(i)
    BY <2>1, SizesAssumption
    DEF Step, StatementInv, SubmittedInOrder, TypeOK, ValueTypes, Steps
  <2>3. CASE Classify(i)
    BY <2>1, <2>3 DEF Classify, StillRunning
  <2>4. ASSUME InFlight(i), NEW a \in AllAnswers, Answered(i, a) PROVE verdict'[i] = "match"
    <3>1. wasBlocked[i]
      BY <2>1, <2>4 DEF InFlight, InFlightStatus, StatementInv, VerdictsEarned
    <3>2. verdict'[i] = Evaluate(i, stat'[i], fault'[i], wasBlocked[i])
      BY <2>4 DEF Answered, StepAnswered, TypeOK, ValueTypes
    <3> QED
      BY <3>1, <3>2 DEF Evaluate
  <2>5. CASE ~ Classify(i) /\ ~ (InFlight(i) /\ \E a \in AllAnswers : Answered(i, a))
    BY <2>2, <2>5, OtherStepsUntouched
  <2> QED
    BY <2>3, <2>4, <2>5
<1> QED
  BY <1>1, TypeCorrect, StatementsInvariant, PTL DEF Spec, BlocksClaimStands

-----------------------------------------------------------------------------
(***************************************************************************)
(* Refinement.                                                             *)
(***************************************************************************)

\* How far a step has come, in Playback's words.
progress == [i \in Steps |-> IF stat[i] \in Settled THEN "settled" ELSE stat[i]]

\* A step of the run that changes no step's status is a stuttering step.
LEMMA StutterStep ==
  ASSUME closed' = closed, \A i \in Steps : stat'[i] = stat[i]
  PROVE  UNCHANGED PlaybackOf!PlaybackVars
BY DEF PlaybackOf!PlaybackVars

\* Closing a run is the end of the playback.
LEMMA EndStep ==
  ASSUME closed' = TRUE, \A i \in Steps : stat'[i] = stat[i]
  PROVE  PlaybackOf!PlaybackNext
BY DEF PlaybackOf!PlaybackNext, PlaybackOf!End

\* A step that brings one step of the scenario from p to q, as Playback sees it.
LEMMA ProgressStep ==
  ASSUME TypeOK, NEW i \in Steps, NEW p, stat' = [stat EXCEPT ![i] = p]
  PROVE  progress' = [progress EXCEPT ![i] = IF p \in Settled THEN "settled" ELSE p]
BY NumbersInRange DEF progress, TypeOK, ValueTypes

\* Step submits: in order, on a connection that has answered everything.
LEMMA StepSubmits ==
  ASSUME TypeOK, StatementInv, NEW i \in Steps, Step(i)
  PROVE  PlaybackOf!Submit(i)
<1>1. ~ closed /\ UNCHANGED closed
  BY DEF Step, StepRefused
<1>2. progress[i] = "pending"
  BY SizesAssumption
  DEF progress, Step, StatementInv, SubmittedInOrder, Steps, Settled, TypeOK, ValueTypes
<1>3. progress' = [progress EXCEPT ![i] = "running"]
  BY ProgressStep DEF Step, Settled
<1>4. ASSUME NEW j \in 1..(i - 1)
      PROVE  progress[j] # "pending" /\ (StepActor[j] = StepActor[i] => progress[j] = "settled")
  <2>1. j \in Steps /\ j \in Statements /\ j <= cursor
    BY SizesAssumption, NumbersInRange DEF Step, TypeOK, ValueTypes, Steps
  <2>2. stat[j] # "pending" /\ stat[j] \in StepStatus
    BY <2>1, SizesAssumption DEF StatementInv, SubmittedInOrder, TypeOK, ValueTypes, Steps
  <2>3. StepActor[j] = StepActor[i] => ~ InFlight(j)
    BY <2>1, NumbersInRange
    DEF Step, StepRefused, StatementInv, OneStatementPerConnection, SessionOf
  <2> QED
    BY <2>1, <2>2, <2>3 DEF progress, InFlight, InFlightStatus, Settled, StepStatus
<1> QED
  BY <1>1, <1>2, <1>3, <1>4 DEF PlaybackOf!Submit, progress, Steps

\* The caller's classification is a block, or nothing.
LEMMA ClassifyBlocks ==
  ASSUME TypeOK, StatementInv, NEW x \in Statements, Classify(x)
  PROVE  [PlaybackOf!PlaybackNext]_(PlaybackOf!PlaybackVars)
<1>1. closed' = closed
  BY DEF Classify, lifeVars
<1>2. CASE x \in Steps /\ StillRunning(x)
  <2>1. progress[x] = "running"
    BY <1>2 DEF progress, StillRunning, Settled
  <2>2. progress' = [progress EXCEPT ![x] = "blocked"]
    BY <1>2, ProgressStep DEF Classify, Settled
  <2>3. PlaybackOf!Block(x)
    BY <1>1, <2>1, <2>2 DEF PlaybackOf!Block, progress
  <2> QED
    BY <1>2, <2>3 DEF PlaybackOf!PlaybackNext, Steps
<1>3. CASE ~ (x \in Steps /\ StillRunning(x))
  <2>1. \A i \in Steps : stat'[i] = stat[i]
    BY <1>3, NumbersInRange DEF Classify, TypeOK, ValueTypes
  <2> QED
    BY <1>1, <2>1, StutterStep
<1> QED
  BY <1>2, <1>3

\* The answer to a step's statement settles it, any other answer is nothing.
LEMMA AnsweredSettles ==
  ASSUME TypeOK, StatementInv, NEW x \in Statements, InFlight(x),
         NEW a \in AllAnswers, Answered(x, a)
  PROVE  [PlaybackOf!PlaybackNext]_(PlaybackOf!PlaybackVars)
<1> USE DEF Answered, StepAnswered, EntryAnswered, RecordAnswer
<1>1. closed' = closed
  OBVIOUS
<1>2. CASE x \in Steps
  <2>1. progress[x] \in {"running", "blocked"}
    BY <1>2 DEF progress, InFlight, InFlightStatus, Settled
  <2>2. PICK p \in Settled : stat' = [stat EXCEPT ![x] = p]
    BY <1>2 DEF Settled
  <2>3. progress' = [progress EXCEPT ![x] = "settled"]
    BY <1>2, <2>2, ProgressStep
  <2>4. PlaybackOf!Settle(x)
    BY <1>1, <2>1, <2>3 DEF PlaybackOf!Settle, progress
  <2> QED
    BY <1>2, <2>4 DEF PlaybackOf!PlaybackNext, Steps
<1>3. CASE x \notin Steps
  <2>1. \A i \in Steps : stat'[i] = stat[i]
    BY <1>3, NumbersInRange DEF TypeOK, ValueTypes
  <2> QED
    BY <1>1, <2>1, StutterStep
<1> QED
  BY <1>2, <1>3

\* Everything else leaves the steps alone, and ends the playback or does not.
LEMMA OthersStutter ==
  ASSUME TypeOK, [Next]_vars,
         \/ SetupWork \/ SetupConclude \/ SetupCleanup \/ Close \/ Teardown
         \/ \E c \in Consoles : SessionNext(c)
         \/ \E s \in Sessions : Console(s)
         \/ UNCHANGED vars
  PROVE  [PlaybackOf!PlaybackNext]_(PlaybackOf!PlaybackVars)
<1> USE DEF lifeVars, resultVars
<1>1. CASE SetupWork \/ SetupConclude \/ Teardown \/ UNCHANGED vars
  <2>1. closed' = closed /\ stat' = stat
    BY <1>1 DEF SetupWork, SetupConclude, Teardown, CloseKill, CloseRelease, CloseDrop, vars
  <2> QED
    BY <2>1, StutterStep
<1>2. CASE SetupCleanup \/ Close
  <2>1. (closed' = closed \/ closed' = TRUE) /\ stat' = stat
    BY <1>2 DEF SetupCleanup, Close, CloseBegin
  <2> QED
    BY <2>1, StutterStep, EndStep
<1>3. CASE \E c \in Consoles : SessionNext(c)
  <2>1. closed' = closed /\ stat' = stat
    BY <1>3 DEF SessionNext, OpenSession, OpenDial, OpenConfigure, OpenRefused, OpenRegister,
                CloseSession, CloseSessionKill, CloseSessionRelease
  <2> QED
    BY <2>1, StutterStep
<1>4. CASE \E s \in Sessions : Console(s)
  <2>1. closed' = closed
    BY <1>4 DEF Console
  <2>2. \A i \in Steps : stat'[i] = stat[i]
    BY <1>4, SizesAssumption DEF Console, TypeOK, ValueTypes, Steps, Statements
  <2> QED
    BY <2>1, <2>2, StutterStep
<1> QED
  BY <1>1, <1>2, <1>3, <1>4

\* Playing a scenario implements Playback: submissions in order and never on
\* a connection in use, outcomes for good, nothing submitted after the end.
THEOREM RunImplementsPlayback == Spec => ImplementsPlayback
<1>1. Init => PlaybackOf!PlaybackInit
  BY SizesAssumption, NumbersInRange
  DEF Init, PlaybackOf!PlaybackInit, Settled, Statements, Steps
<1>2. TypeOK /\ StatementInv /\ [Next]_vars => [PlaybackOf!PlaybackNext]_(PlaybackOf!PlaybackVars)
  <2> SUFFICES ASSUME TypeOK, StatementInv, [Next]_vars
               PROVE  [PlaybackOf!PlaybackNext]_(PlaybackOf!PlaybackVars)
    OBVIOUS
  <2>1. CASE \E i \in Steps : Step(i)
    BY <2>1, StepSubmits DEF PlaybackOf!PlaybackNext, Steps
  <2>2. CASE \E x \in Statements : StatementNext(x)
    BY <2>2, StatementCases, ClassifyBlocks, AnsweredSettles
  <2> QED
    BY <2>1, <2>2, OthersStutter DEF Next, Rest
<1> QED
  BY <1>1, <1>2, TypeCorrect, StatementsInvariant, PTL
  DEF Spec, ImplementsPlayback, PlaybackOf!PlaybackSpec

-----------------------------------------------------------------------------
(***************************************************************************)
(* Setup.                                                                  *)
(***************************************************************************)

\* Every step of a run keeps what is known of setup.
LEMMA NextSetupInv == TypeOK /\ SetupInv /\ [Next]_vars => SetupInv'
<1> SUFFICES ASSUME TypeOK, SetupInv, [Next]_vars PROVE SetupInv'
  OBVIOUS
<1> USE DEF SetupInv, lifeVars, heldVars, closeVars
<1>1. CASE SetupWork
  BY <1>1, NumbersInRange
  DEF SetupWork, SetupFails, SetupAcquire, SetupCreateDatabase, SetupOpenDB, SetupSchema,
      SetupConnect, SetupConfigure, MoreActors, NextActor, Dial, TypeOK, ValueTypes
<1>2. CASE SetupConclude
  BY <1>2 DEF SetupConclude, CloseReady
<1>3. CASE SetupCleanup \/ Close
  BY <1>3 DEF SetupCleanup, Close, CloseBegin, CloseReady
<1>4. CASE Teardown
  BY <1>4 DEF Teardown, CloseKill, CloseRelease, CloseDrop
<1>5. ASSUME NEW c \in Consoles, SessionNext(c) PROVE SetupInv'
  <2>1. UNCHANGED <<closing, closed, ready, setup, setupErr>>
    BY <1>5 DEF SessionNext, OpenSession, OpenDial, OpenConfigure, OpenRefused, OpenRegister,
                CloseSession, CloseSessionKill, CloseSessionRelease
  <2>2. \A a \in Actors : conn'[a] = conn[a]
    BY <1>5, NumbersInRange
    DEF SessionNext, OpenSession, OpenDial, OpenConfigure, OpenRefused, OpenRegister,
        CloseSession, CloseSessionKill, CloseSessionRelease, Dial, Kill, Release,
        TypeOK, ValueTypes
  <2> QED
    BY <2>1, <2>2
<1>6. CASE \E i \in Steps : Step(i)
  BY <1>6 DEF Step
<1>7. CASE \E s \in Sessions : Console(s)
  BY <1>7 DEF Console
<1>8. CASE \E x \in Statements : StatementNext(x)
  BY <1>8, StatementCases DEF Classify, Answered, StepAnswered, EntryAnswered, RecordAnswer
<1>9. CASE UNCHANGED vars
  BY <1>9 DEF vars
<1> QED
  BY <1>1, <1>2, <1>3, <1>4, <1>5, <1>6, <1>7, <1>8, <1>9 DEF Next, Rest

\* What is known of setup holds of every reachable state.
THEOREM SetupInvariant == Spec => []SetupInv
<1>1. Init => SetupInv
  BY NumbersInRange DEF Init, SetupInv
<1> QED
  BY <1>1, NextSetupInv, TypeCorrect, PTL DEF Spec

\* The ready channel is never closed twice, which would panic.
THEOREM ReadyIsClosedOnce == Spec => []ReadyClosedOnce
<1>1. SetupInv => ReadyClosedOnce
  BY DEF SetupInv, ReadyClosedOnce
<1> QED
  BY <1>1, SetupInvariant, PTL

\* A run that reports ready, and is not closed, has connected every actor.
THEOREM ReadyIsConnected == Spec => []ReadyMeansConnected
<1>1. SetupInv => ReadyMeansConnected
  BY DEF SetupInv, ReadyMeansConnected
<1> QED
  BY <1>1, SetupInvariant, PTL

\* The ready channel is closed once, and to those who can use the run.
THEOREM ReadyIsRight == Spec => []ReadyRight
<1>1. SetupInv => ReadyRight
  BY DEF SetupInv, ReadyRight, ReadyClosedOnce, ReadyMeansConnected
<1> QED
  BY <1>1, SetupInvariant, PTL
=============================================================================
