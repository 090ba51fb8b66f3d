--------------------------- MODULE TimelineProofs ---------------------------
(***************************************************************************)
(* What Timeline's page is told of a step comes in order, and a run that   *)
(* is finished is told to be so, for any number of steps and actors.       *)
(***************************************************************************)
EXTENDS Timeline, TLAPS

\* The goroutines of the steps are all different ones.
LEMMA GoroutinesDiffer ==
  /\ \A i \in Steps : Caller(i) \in Goroutines /\ Executor(i) \in Goroutines
  /\ Closer \in Goroutines
  /\ \A i, j \in Steps : Caller(i) # Executor(j) /\ Caller(i) # Closer /\ Executor(i) # Closer
  /\ \A i, j \in Steps : (Caller(i) = Caller(j) => i = j) /\ (Executor(i) = Executor(j) => i = j)
BY StepsAssumption DEF Caller, Executor, Closer, Goroutines, Steps

\* What a move does to the program counters.
LEMMA GotoMoves ==
  ASSUME DOMAIN pc = Goroutines, NEW g \in Goroutines, NEW from, NEW to, Goto(g, from, to)
  PROVE  /\ pc[g] = from /\ pc'[g] = to
         /\ DOMAIN pc' = Goroutines
         /\ \A h \in Goroutines : h # g => pc'[h] = pc[h]
BY DEF Goto

-----------------------------------------------------------------------------
(***************************************************************************)
(* The inductive invariant.                                                *)
(***************************************************************************)

\* Nothing is told of a step before its caller announces it, and the executor
\* is started after that.  What either is to publish is a copy that fits.
StepFits(i) ==
  /\ pc[Caller(i)] \in {"idle", "announce"} => told[i] = <<>>
  /\ pc[Caller(i)] \in {"idle", "announce", "announceRead", "announceState", "spawn"} =>
       pc[Executor(i)] = "idle"
  /\ pc[Caller(i)] \notin {"idle", "announce"} => busClosed \/ told[i] # <<>>
  /\ pc[Caller(i)] = "announce" => held[Caller(i)] = "running"
  /\ pc[Caller(i)] = "report" => held[Caller(i)] \in StepStatus \ {"running"}
  /\ pc[Executor(i)] \in {"record", "publish"} => held[Executor(i)] \in Settled
  /\ pc[Caller(i)] \in {"announceState", "reportState"} => held[Caller(i)] \in RunStatus
  /\ pc[Executor(i)] \in {"deadlockState", "state"} => held[Executor(i)] \in RunStatus
  /\ \A k \in DOMAIN told[i] : told[i][k] = "running" <=> k = 1

\* An executor that is still to read the state, or has read that the run is
\* finished and is to publish it.
WillTell(i) ==
  \/ pc[Executor(i)] \in {"publish", "deadlock", "deadlockState", "stateRead"}
  \/ pc[Executor(i)] = "state" /\ held[Executor(i)] = "finished"

\* The bus is closed last, and a finished run starts no more steps.
RunFits ==
  /\ runClosed <=> status = "closed"
  /\ pc[Closer] # "idle" => runClosed
  /\ busClosed => runClosed
  /\ status = "finished" =>
       /\ cursor = NSteps
       /\ "finished" \in toldStates \/ \E i \in Steps : WillTell(i)

TimelineInv == TypeOK /\ (\A i \in Steps : StepFits(i)) /\ RunFits

LEMMA TimelineInvHolds == Init => TimelineInv
<1> SUFFICES ASSUME Init PROVE TimelineInv
  OBVIOUS
<1>1. \A g \in Goroutines : pc[g] = "idle" /\ held[g] = "none"
  BY DEF Init
<1>2. TypeOK
  <2>1. /\ stat \in [Steps -> StepStatus] /\ cursor \in 0..NSteps
        /\ status \in RunStatus /\ runClosed \in BOOLEAN /\ busClosed \in BOOLEAN
    <3>1. stat \in [Steps -> StepStatus]
      BY DEF Init, StepStatus
    <3>2. cursor \in 0..NSteps
      BY StepsAssumption DEF Init
    <3>3. status \in RunStatus /\ runClosed \in BOOLEAN /\ busClosed \in BOOLEAN
      BY DEF Init, RunStatus
    <3> QED
      BY <3>1, <3>2, <3>3
  <2>2. /\ held \in [Goroutines -> StepStatus \union RunStatus \union {"none"}]
        /\ DOMAIN pc = Goroutines
    BY DEF Init
  <2>3. told \in [Steps -> Seq(StepStatus)] /\ toldStates \subseteq RunStatus
    <3>1. <<>> \in Seq(StepStatus)
      OBVIOUS
    <3> QED
      BY <3>1 DEF Init
  <2> QED
    BY <2>1, <2>2, <2>3 DEF TypeOK
<1>3. ASSUME NEW i \in Steps PROVE StepFits(i)
  BY <1>1, GoroutinesDiffer DEF Init, StepFits
<1>4. RunFits
  BY <1>1, GoroutinesDiffer DEF Init, RunFits
<1> QED
  BY <1>2, <1>3, <1>4 DEF TimelineInv

\* What is said of a step holds on while its goroutines rest.
LEMMA RestingFits ==
  ASSUME TimelineInv, NEW j \in Steps,
         pc'[Caller(j)] = pc[Caller(j)], pc'[Executor(j)] = pc[Executor(j)],
         held'[Caller(j)] = held[Caller(j)], held'[Executor(j)] = held[Executor(j)],
         told'[j] = told[j], busClosed => busClosed'
  PROVE  StepFits(j)'
BY DEF TimelineInv, StepFits

\* An executor that is to tell of the end, or has told, will have.
LEMMA RunFitsOn ==
  ASSUME TimelineInv, UNCHANGED runVars, pc'[Closer] = pc[Closer], busClosed' = busClosed,
         toldStates \subseteq toldStates',
         status = "finished" =>
           \A i \in Steps : WillTell(i) => WillTell(i)' \/ "finished" \in toldStates'
  PROVE  RunFits'
BY DEF TimelineInv, RunFits, runVars

-----------------------------------------------------------------------------
(***************************************************************************)
(* The protocol's parts, for whichever goroutine.                          *)
(***************************************************************************)

\* A step's copy is published: the caller's announcement or report, or the
\* executor's outcome.
LEMMA PublishStepKeeps ==
  ASSUME TimelineInv, NEW i \in Steps, NEW g \in {Caller(i), Executor(i)}, NEW from, NEW to,
         PublishStep(g, i, from, to),
         \/ g = Caller(i) /\ from = "announce" /\ to = "announceRead"
         \/ g = Caller(i) /\ from = "report" /\ to = "reportRead"
         \/ g = Executor(i) /\ from = "publish" /\ to \in {"deadlock", "stateRead"}
  PROVE  TimelineInv'
<1> USE DEF runVars
<1>1. g \in Goroutines /\ Caller(i) \in Goroutines /\ Executor(i) \in Goroutines
  BY GoroutinesDiffer
<1>2. /\ pc[g] = from /\ pc'[g] = to /\ DOMAIN pc' = Goroutines
      /\ \A h \in Goroutines : h # g => pc'[h] = pc[h]
  <2>1. Goto(g, from, to) /\ DOMAIN pc = Goroutines
    BY DEF PublishStep, TimelineInv, TypeOK
  <2> QED
    BY <1>1, <2>1, GotoMoves
<1>3. /\ held' \in [Goroutines -> StepStatus \union RunStatus \union {"none"}]
      /\ \A h \in Goroutines : h # g => held'[h] = held[h]
  <2>1. held \in [Goroutines -> StepStatus \union RunStatus \union {"none"}]
    BY DEF TimelineInv, TypeOK
  <2> QED
    BY <2>1 DEF PublishStep
<1>4. held[g] \in StepStatus /\ (held[g] = "running" <=> from = "announce")
  <2>1. StepFits(i)
    BY DEF TimelineInv
  <2> QED
    BY <1>2, <2>1 DEF StepFits, Settled, StepStatus
<1>5. /\ told' \in [Steps -> Seq(StepStatus)]
      /\ \A j \in Steps : j # i => told'[j] = told[j]
      /\ told'[i] = IF busClosed THEN told[i] ELSE Append(told[i], held[g])
      /\ told[i] \in Seq(StepStatus)
  <2>1. told \in [Steps -> Seq(StepStatus)]
    BY DEF TimelineInv, TypeOK
  <2>2. told' = IF busClosed THEN told ELSE [told EXCEPT ![i] = Append(@, held[g])]
    BY DEF PublishStep
  <2>3. told[i] \in Seq(StepStatus) /\ Append(told[i], held[g]) \in Seq(StepStatus)
    BY <1>4, <2>1
  <2> QED
    BY <2>1, <2>2, <2>3
<1>6. UNCHANGED <<stat, cursor, status, runClosed, toldStates, busClosed>>
  BY DEF PublishStep
<1>7. TypeOK'
  BY <1>2, <1>3, <1>5, <1>6 DEF TimelineInv, TypeOK
<1>8. ASSUME NEW j \in Steps PROVE StepFits(j)'
  <2>1. CASE j # i
    BY <1>1, <1>2, <1>3, <1>5, <1>6, <2>1, GoroutinesDiffer, RestingFits
  <2>2. CASE j = i
    <3>1. Caller(i) # Executor(i)
      BY GoroutinesDiffer
    <3>2. \A k \in DOMAIN told'[i] : told'[i][k] = "running" <=> k = 1
      <4>1. CASE busClosed
        BY <1>5, <4>1 DEF TimelineInv, StepFits
      <4>2. CASE ~ busClosed
        <5>1. /\ told'[i] = Append(told[i], held[g])
              /\ told[i] = <<>> <=> from = "announce"
          BY <1>2, <1>5, <4>2, <3>1 DEF TimelineInv, StepFits
        <5>2. \A k \in DOMAIN told[i] : told[i][k] = "running" <=> k = 1
          BY DEF TimelineInv, StepFits
        <5>3. DOMAIN told'[i] = 1..(Len(told[i]) + 1) /\ Len(told[i]) \in Nat
          BY <1>5, <5>1
        <5>4. told'[i][Len(told[i]) + 1] = held[g]
          BY <1>5, <5>1
        <5>5. \A k \in 1..Len(told[i]) : told'[i][k] = told[i][k]
          BY <1>5, <5>1
        <5>6. Len(told[i]) = 0 <=> from = "announce"
          BY <1>5, <5>1
        <5>7. ASSUME NEW k \in DOMAIN told'[i] PROVE told'[i][k] = "running" <=> k = 1
          <6>1. CASE k = Len(told[i]) + 1
            BY <1>4, <5>3, <5>4, <5>6, <6>1
          <6>2. CASE k # Len(told[i]) + 1
            <7>1. k \in 1..Len(told[i]) /\ k \in DOMAIN told[i]
              BY <1>5, <5>3, <6>2
            <7> QED
              BY <5>2, <5>5, <7>1
          <6> QED
            BY <6>1, <6>2
        <5> QED
          BY <5>7
      <4> QED
        BY <4>1, <4>2
    <3>3. busClosed \/ told'[i] # <<>>
      <4>1. Append(told[i], held[g]) # <<>>
        <5>1. Len(Append(told[i], held[g])) = Len(told[i]) + 1 /\ Len(told[i]) \in Nat
          BY <1>4, <1>5
        <5>2. Len(<<>>) = 0
          OBVIOUS
        <5> QED
          BY <5>1, <5>2
      <4> QED
        BY <1>5, <4>1
    <3>4. CASE g = Caller(i)
      <4>1. pc'[Caller(i)] = to /\ pc'[Executor(i)] = pc[Executor(i)]
            /\ held'[Executor(i)] = held[Executor(i)]
        BY <1>1, <1>2, <1>3, <3>1, <3>4
      <4>2. pc[Caller(i)] = from
        BY <1>2, <3>4
      <4> QED
        BY <1>6, <2>2, <3>2, <3>3, <4>1, <4>2 DEF TimelineInv, StepFits
    <3>5. CASE g = Executor(i)
      <4>1. pc'[Executor(i)] = to /\ pc'[Caller(i)] = pc[Caller(i)]
            /\ held'[Caller(i)] = held[Caller(i)] /\ pc[Executor(i)] = "publish"
            /\ to \in {"deadlock", "stateRead"}
        BY <1>1, <1>2, <1>3, <3>1, <3>5
      <4> QED
        BY <1>6, <2>2, <3>2, <3>3, <4>1 DEF TimelineInv, StepFits
    <3> QED
      BY <3>4, <3>5
  <2> QED
    BY <2>1, <2>2
<1>9. RunFits'
  <2>1. \A j \in Steps : WillTell(j) => WillTell(j)'
    <3> SUFFICES ASSUME NEW j \in Steps, WillTell(j) PROVE WillTell(j)'
      OBVIOUS
    <3>1. CASE g = Executor(j)
      <4>1. to \in {"deadlock", "stateRead"}
        BY <3>1, GoroutinesDiffer
      <4> QED
        BY <1>2, <3>1, <4>1 DEF WillTell
    <3>2. CASE g # Executor(j)
      BY <1>2, <1>3, <3>2, GoroutinesDiffer DEF WillTell
    <3> QED
      BY <3>1, <3>2
  <2>2. pc'[Closer] = pc[Closer]
    BY <1>2, GoroutinesDiffer
  <2> QED
    BY <1>6, <2>1, <2>2, RunFitsOn
<1> QED
  BY <1>7, <1>8, <1>9 DEF TimelineInv

\* The state of the run is read, by the caller or by the executor; a closed
\* run's is not.
LEMMA ReadStateKeeps ==
  ASSUME TimelineInv, NEW i \in Steps, NEW g \in {Caller(i), Executor(i)},
         NEW from, NEW between, NEW to,
         ReadState(g, from, between, to),
         \/ g = Caller(i) /\ from = "announceRead" /\ between = "announceState" /\ to = "spawn"
         \/ g = Caller(i) /\ from = "reportRead" /\ between = "reportState" /\ to = "returned"
         \/ g = Executor(i) /\ from = "deadlock" /\ between = "deadlockState" /\ to = "stateRead"
         \/ g = Executor(i) /\ from = "stateRead" /\ between = "state" /\ to = "over"
  PROVE  TimelineInv'
<1> DEFINE then == IF runClosed THEN to ELSE between
<1>1. /\ g \in Goroutines /\ Caller(i) \in Goroutines /\ Executor(i) \in Goroutines
      /\ Caller(i) # Executor(i)
  BY GoroutinesDiffer
<1>2. /\ pc[g] = from /\ pc'[g] = then /\ DOMAIN pc' = Goroutines
      /\ \A h \in Goroutines : h # g => pc'[h] = pc[h]
  <2>1. Goto(g, from, then) /\ DOMAIN pc = Goroutines
    BY DEF ReadState, TimelineInv, TypeOK
  <2> QED
    BY <1>1, <2>1, GotoMoves
<1>3. /\ held' \in [Goroutines -> StepStatus \union RunStatus \union {"none"}]
      /\ held'[g] = IF runClosed THEN held[g] ELSE status
      /\ \A h \in Goroutines : h # g => held'[h] = held[h]
  <2>1. /\ held \in [Goroutines -> StepStatus \union RunStatus \union {"none"}]
        /\ status \in RunStatus
    BY DEF TimelineInv, TypeOK
  <2>2. held' = [held EXCEPT ![g] = IF runClosed THEN @ ELSE status]
    BY DEF ReadState
  <2> QED
    BY <1>1, <2>1, <2>2
<1>4. UNCHANGED <<stat, cursor, status, runClosed, told, toldStates, busClosed>>
  BY DEF ReadState, runVars, busVars
<1>5. TypeOK'
  BY <1>2, <1>3, <1>4 DEF TimelineInv, TypeOK
<1>6. ASSUME NEW j \in Steps PROVE StepFits(j)'
  <2>1. CASE j # i
    BY <1>1, <1>2, <1>3, <1>4, <2>1, GoroutinesDiffer, RestingFits
  <2>2. CASE j = i
    <3>1. StepFits(i) /\ status \in RunStatus
      BY DEF TimelineInv, TypeOK
    <3>2. CASE g = Caller(i)
      <4>1. pc'[Caller(i)] = then /\ pc'[Executor(i)] = pc[Executor(i)] /\ pc[Caller(i)] = from
            /\ held'[Executor(i)] = held[Executor(i)]
        BY <1>1, <1>2, <1>3, <3>2
      <4> QED
        BY <1>1, <1>3, <1>4, <2>2, <3>1, <3>2, <4>1 DEF StepFits
    <3>3. CASE g = Executor(i)
      <4>1. pc'[Executor(i)] = then /\ pc'[Caller(i)] = pc[Caller(i)] /\ pc[Executor(i)] = from
            /\ held'[Caller(i)] = held[Caller(i)]
        BY <1>1, <1>2, <1>3, <3>3
      <4> QED
        BY <1>1, <1>3, <1>4, <2>2, <3>1, <3>3, <4>1 DEF StepFits
    <3> QED
      BY <3>2, <3>3
  <2> QED
    BY <2>1, <2>2
<1>7. RunFits'
  <2>1. ASSUME NEW j \in Steps, WillTell(j), status = "finished" PROVE WillTell(j)'
    <3>1. ~ runClosed
      BY <2>1 DEF TimelineInv, RunFits
    <3>2. CASE g = Executor(j)
      <4>1. /\ from \in {"deadlock", "stateRead"}
            /\ from = "deadlock" => between = "deadlockState"
            /\ from = "stateRead" => between = "state"
        BY <3>2, GoroutinesDiffer
      <4> QED
        BY <1>2, <1>3, <2>1, <3>1, <3>2, <4>1 DEF WillTell
    <3>3. CASE g # Executor(j)
      BY <1>2, <1>3, <2>1, <3>3, GoroutinesDiffer DEF WillTell
    <3> QED
      BY <3>2, <3>3
  <2>2. pc'[Closer] = pc[Closer]
    BY <1>2, GoroutinesDiffer
  <2> QED
    BY <1>4, <2>1, <2>2, RunFitsOn DEF runVars
<1> QED
  BY <1>5, <1>6, <1>7 DEF TimelineInv

\* And published.  Only an executor publishes the end.
LEMMA PublishStateKeeps ==
  ASSUME TimelineInv, NEW i \in Steps, NEW g \in {Caller(i), Executor(i)},
         NEW from, NEW to,
         PublishState(g, from, to),
         \/ g = Caller(i) /\ from = "announceState" /\ to = "spawn"
         \/ g = Caller(i) /\ from = "reportState" /\ to = "returned"
         \/ g = Executor(i) /\ from = "deadlockState" /\ to = "stateRead"
         \/ g = Executor(i) /\ from = "state" /\ to = "over"
  PROVE  TimelineInv'
<1>1. /\ g \in Goroutines /\ Caller(i) \in Goroutines /\ Executor(i) \in Goroutines
      /\ Caller(i) # Executor(i)
  BY GoroutinesDiffer
<1>2. /\ pc[g] = from /\ pc'[g] = to /\ DOMAIN pc' = Goroutines
      /\ \A h \in Goroutines : h # g => pc'[h] = pc[h]
  <2>1. Goto(g, from, to) /\ DOMAIN pc = Goroutines
    BY DEF PublishState, TimelineInv, TypeOK
  <2> QED
    BY <1>1, <2>1, GotoMoves
<1>3. /\ held' \in [Goroutines -> StepStatus \union RunStatus \union {"none"}]
      /\ \A h \in Goroutines : h # g => held'[h] = held[h]
  <2>1. held \in [Goroutines -> StepStatus \union RunStatus \union {"none"}]
    BY DEF TimelineInv, TypeOK
  <2>2. held' = [held EXCEPT ![g] = "none"]
    BY DEF PublishState
  <2> QED
    BY <1>1, <2>1, <2>2
<1>4. /\ UNCHANGED <<stat, cursor, status, runClosed, told, busClosed>>
      /\ toldStates' = IF busClosed THEN toldStates ELSE toldStates \union {held[g]}
  BY DEF PublishState, runVars
<1>5. StepFits(i) /\ held[g] \in RunStatus
  BY <1>2 DEF TimelineInv, StepFits
<1>6. TypeOK'
  BY <1>2, <1>3, <1>4, <1>5 DEF TimelineInv, TypeOK
<1>7. ASSUME NEW j \in Steps PROVE StepFits(j)'
  <2>1. CASE j # i
    BY <1>1, <1>2, <1>3, <1>4, <2>1, GoroutinesDiffer, RestingFits
  <2>2. CASE j = i
    <3>1. CASE g = Caller(i)
      <4>1. pc'[Caller(i)] = to /\ pc'[Executor(i)] = pc[Executor(i)] /\ pc[Caller(i)] = from
            /\ held'[Executor(i)] = held[Executor(i)]
        BY <1>1, <1>2, <1>3, <3>1
      <4> QED
        BY <1>1, <1>4, <1>5, <2>2, <3>1, <4>1 DEF StepFits
    <3>2. CASE g = Executor(i)
      <4>1. pc'[Executor(i)] = to /\ pc'[Caller(i)] = pc[Caller(i)] /\ pc[Executor(i)] = from
            /\ held'[Caller(i)] = held[Caller(i)]
        BY <1>1, <1>2, <1>3, <3>2
      <4> QED
        BY <1>1, <1>4, <1>5, <2>2, <3>2, <4>1 DEF StepFits
    <3> QED
      BY <3>1, <3>2
  <2> QED
    BY <2>1, <2>2
<1>8. RunFits'
  <2>1. ASSUME NEW j \in Steps, WillTell(j), status = "finished"
        PROVE  WillTell(j)' \/ "finished" \in toldStates'
    <3>1. ~ busClosed
      BY <2>1 DEF TimelineInv, RunFits
    <3>2. CASE g = Executor(j)
      <4>1. \/ from = "deadlockState" /\ to = "stateRead"
            \/ from = "state"
        BY <3>2, GoroutinesDiffer
      <4> QED
        BY <1>2, <1>4, <2>1, <3>1, <3>2, <4>1 DEF WillTell
    <3>3. CASE g # Executor(j)
      BY <1>2, <1>3, <2>1, <3>3, GoroutinesDiffer DEF WillTell
    <3> QED
      BY <3>2, <3>3
  <2>2. pc'[Closer] = pc[Closer]
    BY <1>2, GoroutinesDiffer
  <2> QED
    BY <1>4, <2>1, <2>2, RunFitsOn DEF runVars
<1> QED
  BY <1>6, <1>7, <1>8 DEF TimelineInv

-----------------------------------------------------------------------------
(***************************************************************************)
(* The actions.                                                            *)
(***************************************************************************)

\* Step takes the step at the cursor: nothing was said of it before.
LEMMA SubmitKeeps ==
  ASSUME TimelineInv, NEW i \in Steps, Submit(i)
  PROVE  TimelineInv'
<1>1. /\ Caller(i) \in Goroutines /\ Executor(i) \in Goroutines /\ Closer \in Goroutines
      /\ Caller(i) # Executor(i) /\ Caller(i) # Closer
  BY GoroutinesDiffer
<1>2. /\ pc[Caller(i)] = "idle" /\ pc'[Caller(i)] = "announce" /\ DOMAIN pc' = Goroutines
      /\ \A h \in Goroutines : h # Caller(i) => pc'[h] = pc[h]
  <2>1. Goto(Caller(i), "idle", "announce") /\ DOMAIN pc = Goroutines
    BY DEF Submit, TimelineInv, TypeOK
  <2> QED
    BY <1>1, <2>1, GotoMoves
<1>3. /\ held' \in [Goroutines -> StepStatus \union RunStatus \union {"none"}]
      /\ held'[Caller(i)] = "running"
      /\ \A h \in Goroutines : h # Caller(i) => held'[h] = held[h]
  <2>1. held \in [Goroutines -> StepStatus \union RunStatus \union {"none"}]
    BY DEF TimelineInv, TypeOK
  <2>2. held' = [held EXCEPT ![Caller(i)] = "running"] /\ "running" \in StepStatus
    BY DEF Submit, StepStatus
  <2> QED
    BY <1>1, <2>1, <2>2
<1>4. /\ UNCHANGED <<runClosed, told, toldStates, busClosed>>
      /\ ~ runClosed /\ status' = "running" /\ cursor' = i
  BY DEF Submit, busVars
<1>5. stat' \in [Steps -> StepStatus]
  <2>1. stat \in [Steps -> StepStatus]
    BY DEF TimelineInv, TypeOK
  <2> QED
    BY <2>1 DEF Submit, StepStatus
<1>6. cursor' \in 0..NSteps /\ status' \in RunStatus
  BY <1>4, StepsAssumption DEF Steps, RunStatus
<1>7. TypeOK'
  BY <1>2, <1>3, <1>4, <1>5, <1>6 DEF TimelineInv, TypeOK
<1>8. ASSUME NEW j \in Steps PROVE StepFits(j)'
  <2>1. CASE j # i
    BY <1>1, <1>2, <1>3, <1>4, <2>1, GoroutinesDiffer, RestingFits
  <2>2. CASE j = i
    BY <1>1, <1>2, <1>3, <1>4, <2>2 DEF TimelineInv, StepFits
  <2> QED
    BY <2>1, <2>2
<1>9. RunFits'
  BY <1>1, <1>2, <1>4 DEF TimelineInv, RunFits
<1> QED
  BY <1>7, <1>8, <1>9 DEF TimelineInv

\* The executor is started by a caller that has announced its step.
LEMMA SpawnKeeps ==
  ASSUME TimelineInv, NEW i \in Steps, Spawn(i)
  PROVE  TimelineInv'
<1>1. /\ Caller(i) \in Goroutines /\ Executor(i) \in Goroutines /\ Closer \in Goroutines
      /\ Caller(i) # Executor(i) /\ Caller(i) # Closer /\ Executor(i) # Closer
  BY GoroutinesDiffer
<1>2. /\ pc[Caller(i)] = "spawn" /\ pc'[Caller(i)] = "waiting"
      /\ pc[Executor(i)] = "idle" /\ pc'[Executor(i)] = "executing"
      /\ DOMAIN pc' = Goroutines
      /\ \A h \in Goroutines \ {Caller(i), Executor(i)} : pc'[h] = pc[h]
  BY <1>1 DEF Spawn, TimelineInv, TypeOK
<1>3. UNCHANGED <<stat, cursor, status, runClosed, held, told, toldStates, busClosed>>
  BY DEF Spawn, runVars, busVars
<1>4. TypeOK'
  BY <1>2, <1>3 DEF TimelineInv, TypeOK
<1>5. ASSUME NEW j \in Steps PROVE StepFits(j)'
  <2>1. CASE j # i
    BY <1>1, <1>2, <1>3, <2>1, GoroutinesDiffer, RestingFits
  <2>2. CASE j = i
    BY <1>1, <1>2, <1>3, <2>2 DEF TimelineInv, StepFits
  <2> QED
    BY <2>1, <2>2
<1>6. RunFits'
  <2>1. \A j \in Steps : WillTell(j) => WillTell(j)'
    <3> SUFFICES ASSUME NEW j \in Steps, WillTell(j) PROVE WillTell(j)'
      OBVIOUS
    <3>1. j # i
      BY <1>2 DEF WillTell
    <3> QED
      BY <1>2, <1>3, <3>1, GoroutinesDiffer DEF WillTell
  <2>2. pc'[Closer] = pc[Closer]
    BY <1>1, <1>2
  <2> QED
    BY <1>3, <2>1, <2>2, RunFitsOn DEF runVars
<1> QED
  BY <1>4, <1>5, <1>6 DEF TimelineInv

\* The caller wakes: what it clones is blocked or settled, never running.
LEMMA ClassifyKeeps ==
  ASSUME TimelineInv, NEW i \in Steps, Classify(i)
  PROVE  TimelineInv'
<1>1. /\ Caller(i) \in Goroutines /\ Executor(i) \in Goroutines /\ Closer \in Goroutines
      /\ Caller(i) # Executor(i) /\ Caller(i) # Closer
  BY GoroutinesDiffer
<1>2. /\ pc[Caller(i)] = "waiting" /\ pc'[Caller(i)] = "report" /\ DOMAIN pc' = Goroutines
      /\ \A h \in Goroutines : h # Caller(i) => pc'[h] = pc[h]
  <2>1. Goto(Caller(i), "waiting", "report") /\ DOMAIN pc = Goroutines
    BY DEF Classify, TimelineInv, TypeOK
  <2> QED
    BY <1>1, <2>1, GotoMoves
<1>3. stat' \in [Steps -> StepStatus] /\ stat'[i] \in StepStatus \ {"running"}
  <2>1. stat \in [Steps -> StepStatus]
    BY DEF TimelineInv, TypeOK
  <2>2. stat' = [stat EXCEPT ![i] = IF @ = "running" THEN "blocked" ELSE @]
    BY DEF Classify
  <2> QED
    BY <2>1, <2>2 DEF StepStatus
<1>4. /\ held' \in [Goroutines -> StepStatus \union RunStatus \union {"none"}]
      /\ held'[Caller(i)] = stat'[i]
      /\ \A h \in Goroutines : h # Caller(i) => held'[h] = held[h]
  <2>1. held \in [Goroutines -> StepStatus \union RunStatus \union {"none"}]
    BY DEF TimelineInv, TypeOK
  <2>2. held' = [held EXCEPT ![Caller(i)] = stat'[i]]
    BY DEF Classify
  <2> QED
    BY <1>1, <1>3, <2>1, <2>2
<1>5. UNCHANGED <<cursor, status, runClosed, told, toldStates, busClosed>>
  BY DEF Classify, busVars
<1>6. TypeOK'
  BY <1>2, <1>3, <1>4, <1>5 DEF TimelineInv, TypeOK
<1>7. ASSUME NEW j \in Steps PROVE StepFits(j)'
  <2>1. CASE j # i
    BY <1>1, <1>2, <1>4, <1>5, <2>1, GoroutinesDiffer, RestingFits
  <2>2. CASE j = i
    BY <1>1, <1>2, <1>3, <1>4, <1>5, <2>2 DEF TimelineInv, StepFits
  <2> QED
    BY <2>1, <2>2
<1>8. RunFits'
  <2>1. \A j \in Steps : WillTell(j) => WillTell(j)'
    BY <1>2, <1>4, GoroutinesDiffer DEF WillTell
  <2>2. pc'[Closer] = pc[Closer]
    BY <1>1, <1>2
  <2> QED
    BY <1>5, <2>1, <2>2 DEF TimelineInv, RunFits
<1> QED
  BY <1>6, <1>7, <1>8 DEF TimelineInv

\* The statement returns.
LEMMA ReturnKeeps ==
  ASSUME TimelineInv, NEW i \in Steps, Return(i)
  PROVE  TimelineInv'
<1>1. /\ Caller(i) \in Goroutines /\ Executor(i) \in Goroutines /\ Closer \in Goroutines
      /\ Caller(i) # Executor(i) /\ Executor(i) # Closer
  BY GoroutinesDiffer
<1>2. /\ pc[Executor(i)] = "executing" /\ pc'[Executor(i)] = "record"
      /\ DOMAIN pc' = Goroutines
      /\ \A h \in Goroutines : h # Executor(i) => pc'[h] = pc[h]
  <2>1. Goto(Executor(i), "executing", "record") /\ DOMAIN pc = Goroutines
    BY DEF Return, TimelineInv, TypeOK
  <2> QED
    BY <1>1, <2>1, GotoMoves
<1>3. /\ held' \in [Goroutines -> StepStatus \union RunStatus \union {"none"}]
      /\ held'[Executor(i)] \in Settled
      /\ \A h \in Goroutines : h # Executor(i) => held'[h] = held[h]
  <2>1. held \in [Goroutines -> StepStatus \union RunStatus \union {"none"}]
    BY DEF TimelineInv, TypeOK
  <2>2. PICK o \in Settled : held' = [held EXCEPT ![Executor(i)] = o]
    BY DEF Return
  <2>3. o \in StepStatus
    BY DEF Settled, StepStatus
  <2> QED
    BY <1>1, <2>1, <2>2, <2>3
<1>4. UNCHANGED <<stat, cursor, status, runClosed, told, toldStates, busClosed>>
  BY DEF Return, runVars, busVars
<1>5. TypeOK'
  BY <1>2, <1>3, <1>4 DEF TimelineInv, TypeOK
<1>6. ASSUME NEW j \in Steps PROVE StepFits(j)'
  <2>1. CASE j # i
    BY <1>1, <1>2, <1>3, <1>4, <2>1, GoroutinesDiffer, RestingFits
  <2>2. CASE j = i
    BY <1>1, <1>2, <1>3, <1>4, <2>2 DEF TimelineInv, StepFits
  <2> QED
    BY <2>1, <2>2
<1>7. RunFits'
  <2>1. \A j \in Steps : WillTell(j) => WillTell(j)'
    <3> SUFFICES ASSUME NEW j \in Steps, WillTell(j) PROVE WillTell(j)'
      OBVIOUS
    <3>1. j # i
      BY <1>2 DEF WillTell
    <3> QED
      BY <1>2, <1>3, <3>1, GoroutinesDiffer DEF WillTell
  <2>2. pc'[Closer] = pc[Closer]
    BY <1>1, <1>2
  <2> QED
    BY <1>4, <2>1, <2>2 DEF TimelineInv, RunFits
<1> QED
  BY <1>5, <1>6, <1>7 DEF TimelineInv

\* The result is recorded.  Whoever finds the run finished by it is at the
\* start of what it publishes.
LEMMA RecordKeeps ==
  ASSUME TimelineInv, NEW i \in Steps, Record(i)
  PROVE  TimelineInv'
<1>1. /\ Caller(i) \in Goroutines /\ Executor(i) \in Goroutines /\ Closer \in Goroutines
      /\ Caller(i) # Executor(i) /\ Executor(i) # Closer
  BY GoroutinesDiffer
<1>2. /\ pc[Executor(i)] = "record" /\ pc'[Executor(i)] = "publish"
      /\ DOMAIN pc' = Goroutines
      /\ \A h \in Goroutines : h # Executor(i) => pc'[h] = pc[h]
  <2>1. Goto(Executor(i), "record", "publish") /\ DOMAIN pc = Goroutines
    BY DEF Record, TimelineInv, TypeOK
  <2> QED
    BY <1>1, <2>1, GotoMoves
<1>3. stat' \in [Steps -> StepStatus]
  <2>1. stat \in [Steps -> StepStatus]
    BY DEF TimelineInv, TypeOK
  <2>2. held[Executor(i)] \in StepStatus
    BY <1>2 DEF TimelineInv, StepFits, Settled, StepStatus
  <2> QED
    BY <2>1, <2>2 DEF Record
<1>4. UNCHANGED <<cursor, runClosed, held, told, toldStates, busClosed>>
  BY DEF Record, busVars
<1>5. \/ status' = status
      \/ cursor >= NSteps /\ status = "running" /\ status' = "finished"
  BY DEF Record
<1>6. TypeOK'
  <2>1. status' \in RunStatus
    BY <1>5 DEF TimelineInv, TypeOK, RunStatus
  <2> QED
    BY <1>2, <1>3, <1>4, <2>1 DEF TimelineInv, TypeOK
<1>7. ASSUME NEW j \in Steps PROVE StepFits(j)'
  <2>1. CASE j # i
    BY <1>1, <1>2, <1>4, <2>1, GoroutinesDiffer, RestingFits
  <2>2. CASE j = i
    BY <1>1, <1>2, <1>4, <2>2 DEF TimelineInv, StepFits
  <2> QED
    BY <2>1, <2>2
<1>8. RunFits'
  <2>1. WillTell(i)'
    BY <1>2 DEF WillTell
  <2>2. status' = "finished" => cursor' = NSteps
    BY <1>4, <1>5, StepsAssumption DEF TimelineInv, TypeOK, RunFits
  <2>3. pc'[Closer] = pc[Closer]
    BY <1>1, <1>2
  <2> QED
    BY <1>4, <1>5, <2>1, <2>2, <2>3 DEF TimelineInv, RunFits
<1> QED
  BY <1>6, <1>7, <1>8 DEF TimelineInv

\* Close, its teardown, and the closing of the bus.
LEMMA ClosingKeeps ==
  ASSUME TimelineInv, CloseRun \/ CloserNext
  PROVE  TimelineInv'
<1>1. Closer \in Goroutines
  BY GoroutinesDiffer
<1>2. PICK from \in {"idle", "teardown", "closeBus"}, to \in {"teardown", "closeBus", "over"} :
        Goto(Closer, from, to)
  BY DEF CloseRun, CloserNext, Teardown, CloseBus
<1>3. /\ pc[Closer] = from /\ pc'[Closer] = to /\ DOMAIN pc' = Goroutines
      /\ \A h \in Goroutines : h # Closer => pc'[h] = pc[h]
  <2>1. DOMAIN pc = Goroutines
    BY DEF TimelineInv, TypeOK
  <2> QED
    BY <1>1, <1>2, <2>1, GotoMoves
<1>4. /\ UNCHANGED <<stat, cursor, held, told, toldStates>>
      /\ \/ runClosed' = TRUE /\ status' = "closed" /\ busClosed' = busClosed
         \/ UNCHANGED <<runClosed, status>> /\ busClosed' \in {busClosed, TRUE} /\ from # "idle"
  <2>1. CASE CloseRun
    BY <2>1 DEF CloseRun, busVars
  <2>2. CASE Teardown
    BY <1>3, <2>2 DEF Teardown, Goto, runVars, busVars
  <2>3. CASE CloseBus
    BY <1>3, <2>3 DEF CloseBus, Goto, runVars
  <2> QED
    BY <2>1, <2>2, <2>3 DEF CloserNext
<1>5. TypeOK'
  BY <1>3, <1>4 DEF TimelineInv, TypeOK, RunStatus
<1>6. ASSUME NEW j \in Steps PROVE StepFits(j)'
  <2>1. /\ pc'[Caller(j)] = pc[Caller(j)] /\ pc'[Executor(j)] = pc[Executor(j)]
        /\ Caller(j) \in Goroutines /\ Executor(j) \in Goroutines
    BY <1>3, GoroutinesDiffer
  <2>2. held' = held /\ told' = told
    BY <1>4
  <2>3. busClosed => busClosed'
    <3>1. busClosed' = busClosed \/ busClosed' = TRUE
      BY <1>4
    <3> QED
      BY <3>1
  <2> QED
    BY <2>1, <2>2, <2>3, RestingFits
<1>7. RunFits'
  <2>1. \A j \in Steps : WillTell(j) => WillTell(j)'
    BY <1>3, <1>4, GoroutinesDiffer DEF WillTell
  <2> QED
    BY <1>3, <1>4, <2>1 DEF TimelineInv, RunFits
<1> QED
  BY <1>5, <1>6, <1>7 DEF TimelineInv

\* Nothing moves.
LEMMA StutterKeeps ==
  ASSUME TimelineInv, UNCHANGED vars
  PROVE  TimelineInv'
BY DEF TimelineInv, TypeOK, StepFits, RunFits, WillTell, vars, runVars, busVars

-----------------------------------------------------------------------------
(***************************************************************************)
(* The theorems.                                                           *)
(***************************************************************************)

\* Types, and what each goroutine's place says of the copy it is to publish
\* and of what was published before (run.go, Step and execute).
THEOREM TimelineInvariant == Spec => []TimelineInv
<1>1. TimelineInv /\ [Next]_vars => TimelineInv'
  <2> SUFFICES ASSUME TimelineInv, [Next]_vars PROVE TimelineInv'
    OBVIOUS
  <2>1. ASSUME NEW i \in Steps, Submit(i) PROVE TimelineInv'
    BY <2>1, SubmitKeeps
  <2>2. ASSUME NEW i \in Steps, CallerNext(i) PROVE TimelineInv'
    <3>1. CASE Announce(i)
      BY <3>1, PublishStepKeeps DEF Announce
    <3>2. CASE AnnounceState(i)
      BY <3>2, ReadStateKeeps, PublishStateKeeps DEF AnnounceState
    <3>3. CASE Spawn(i)
      BY <3>3, SpawnKeeps
    <3>4. CASE Classify(i)
      BY <3>4, ClassifyKeeps
    <3>5. CASE Report(i)
      BY <3>5, PublishStepKeeps, ReadStateKeeps, PublishStateKeeps DEF Report
    <3> QED
      BY <2>2, <3>1, <3>2, <3>3, <3>4, <3>5 DEF CallerNext
  <2>3. ASSUME NEW i \in Steps, Return(i) PROVE TimelineInv'
    BY <2>3, ReturnKeeps
  <2>4. ASSUME NEW i \in Steps, ExecutorNext(i) PROVE TimelineInv'
    <3>1. CASE Record(i)
      BY <3>1, RecordKeeps
    <3>2. CASE PublishOutcome(i)
      <4>1. PICK to \in {"stateRead", "deadlock"} : PublishStep(Executor(i), i, "publish", to)
        BY <3>2 DEF PublishOutcome
      <4> QED
        BY <4>1, PublishStepKeeps
    <3>3. CASE ReportDeadlock(i)
      BY <3>3, ReadStateKeeps, PublishStateKeeps DEF ReportDeadlock
    <3>4. CASE Conclude(i)
      BY <3>4, ReadStateKeeps, PublishStateKeeps DEF Conclude
    <3> QED
      BY <2>4, <3>1, <3>2, <3>3, <3>4 DEF ExecutorNext
  <2>5. ASSUME CloseRun \/ CloserNext PROVE TimelineInv'
    BY <2>5, ClosingKeeps
  <2>6. ASSUME UNCHANGED vars PROVE TimelineInv'
    BY <2>6, StutterKeeps
  <2> QED
    BY <2>1, <2>2, <2>3, <2>4, <2>5, <2>6 DEF Next, Rest
<1> QED
  BY <1>1, TimelineInvHolds, PTL DEF Spec

\* A card is announced as running first and once only: it never goes back to
\* running after it has shown more (run.go, Step publishes before execute is
\* started).
THEOREM AnnouncedFirstHolds == Spec => []AnnouncedFirst
<1>1. TimelineInv => AnnouncedFirst
  BY DEF TimelineInv, StepFits, AnnouncedFirst
<1> QED
  BY <1>1, TimelineInvariant, PTL

\* Once every executor is through, the page of a finished run has been told of
\* the end, whichever of them recorded the last result (run.go, publishState).
THEOREM FinishIsToldHolds == Spec => []FinishIsTold
<1>1. TimelineInv => FinishIsTold
  BY DEF TimelineInv, RunFits, WillTell, FinishIsTold
<1> QED
  BY <1>1, TimelineInvariant, PTL
=============================================================================
