---------------------------- MODULE DriversProofs ----------------------------
(***************************************************************************)
(* What jobs, the command line and the assistant make of the runs they     *)
(* drive, and of the draft, for any numbers of players, steps, columns,    *)
(* attempts, messages, calls and texts.                                    *)
(***************************************************************************)
EXTENDS Drivers, FiniteSetTheorems, TLAPS

(***************************************************************************)
(* Players.                                                                *)
(***************************************************************************)

PlayerShapes ==
  /\ DOMAIN pc = Players /\ DOMAIN kind = Players /\ DOMAIN status = Players
  /\ DOMAIN target = Players /\ DOMAIN played = Players

\* What is cut off is cut off by the end of the context, which never comes back;
\* a command that has played its run out has played all of it.
PlayerFits(j) ==
  /\ pc[j] = "none" => j \notin doubtful
  /\ j \in cut => j \in over
  /\ j \in open => pc[j] \in {"play", "step", "settle", "read", "gave up"}
  /\ kind[j] = "cli" =>
       pc[j] \in {"start", "play", "step", "settle", "read", "gave up", "ended"}
  /\ kind[j] = "cli" /\ pc[j] \in {"settle", "read"} => played[j] = Steps /\ j \notin cut
  /\ kind[j] = "cli" /\ status[j] = "done" =>
       pc[j] = "ended" /\ played[j] = Steps /\ j \notin cut
  /\ j \in doubtful => target[j] = "blocks" /\ j \in over

PlayersInv ==
  /\ PlayerShapes
  /\ open \subseteq Players /\ doubtful \subseteq Players
  /\ \A j \in Players : PlayerFits(j)

LEMMA PlayersInvHolds == Init => PlayersInv
BY DEF Init, PlayersInv, PlayerShapes, PlayerFits

\* Whatever a player does, it leaves the others alone.
OthersRest(j) ==
  \A k \in Players \ {j} :
    /\ pc'[k] = pc[k] /\ kind'[k] = kind[k] /\ status'[k] = status[k]
    /\ target'[k] = target[k] /\ played'[k] = played[k]
    /\ k \in open' <=> k \in open
    /\ k \in cut' <=> k \in cut
    /\ k \in over' <=> k \in over
    /\ k \in doubtful' <=> k \in doubtful

LEMMA PlayersInvOn ==
  ASSUME PlayersInv, NEW j \in Players, OthersRest(j), PlayerShapes', PlayerFits(j)',
         open' \subseteq Players, doubtful' \subseteq Players
  PROVE  PlayersInv'
<1>1. ASSUME NEW k \in Players, k # j PROVE PlayerFits(k)'
  BY <1>1 DEF PlayersInv, PlayerFits, OthersRest
<1> QED
  BY <1>1 DEF PlayersInv

\* The registry of jobs, and the end of contexts.
LEMMA RegistryKeeps ==
  ASSUME PlayersInv, NEW j \in Players,
         StartJob(j) \/ PushedOut(j) \/ StartCommand(j) \/ Begin(j) \/ Cancel(j) \/ TimeOut(j)
  PROVE  PlayersInv'
<1> USE DEF PlayersInv, PlayerShapes, jobVars, shrinkVars, runVars
<1>1. CASE StartJob(j)
  <2>1. OthersRest(j) /\ PlayerShapes'
    BY <1>1 DEF StartJob, OthersRest
  <2>2. PlayerFits(j)'
    BY <1>1 DEF StartJob, PlayerFits
  <2> QED
    BY <1>1, <2>1, <2>2, PlayersInvOn DEF StartJob
<1>2. CASE PushedOut(j)
  BY <1>2 DEF PushedOut, PlayerFits
<1>3. CASE StartCommand(j)
  <2>1. OthersRest(j) /\ PlayerShapes'
    BY <1>3 DEF StartCommand, OthersRest
  <2>2. PlayerFits(j)'
    BY <1>3 DEF StartCommand, PlayerFits
  <2> QED
    BY <1>3, <2>1, <2>2, PlayersInvOn DEF StartCommand
<1>4. CASE Begin(j)
  <2>1. OthersRest(j) /\ PlayerShapes'
    BY <1>4 DEF Begin, OthersRest
  <2>2. PlayerFits(j)'
    BY <1>4 DEF Begin, PlayerFits
  <2> QED
    BY <1>4, <2>1, <2>2, PlayersInvOn DEF Begin
<1>5. CASE Cancel(j)
  BY <1>5 DEF Cancel, PlayerFits
<1>6. CASE TimeOut(j)
  BY <1>6 DEF TimeOut, PlayerFits
<1> QED
  BY <1>1, <1>2, <1>3, <1>4, <1>5, <1>6

\* What to play next: a run of its own, or nothing more.
LEMMA ChoosingKeeps ==
  ASSUME PlayersInv, NEW j \in Players,
         NextColumn(j) \/ NextCandidate(j) \/ StartRun(j) \/ StartFails(j)
  PROVE  PlayersInv'
<1> USE DEF PlayersInv, PlayerShapes, jobVars, shrinkVars, runVars
<1>1. CASE NextColumn(j)
  <2>1. OthersRest(j) /\ PlayerShapes'
    BY <1>1 DEF NextColumn, OthersRest
  <2>2. PlayerFits(j)'
    BY <1>1 DEF NextColumn, PlayerFits
  <2> QED
    BY <1>1, <2>1, <2>2, PlayersInvOn DEF NextColumn
<1>2. CASE NextCandidate(j)
  <2>1. OthersRest(j) /\ PlayerShapes'
    BY <1>2 DEF NextCandidate, OthersRest
  <2>2. PlayerFits(j)'
    BY <1>2 DEF NextCandidate, PlayerFits
  <2> QED
    BY <1>2, <2>1, <2>2, PlayersInvOn DEF NextCandidate
<1>3. CASE StartRun(j)
  <2>1. OthersRest(j) /\ PlayerShapes'
    BY <1>3 DEF StartRun, OthersRest
  <2>2. PlayerFits(j)'
    BY <1>3 DEF StartRun, PlayerFits
  <2> QED
    BY <1>3, <2>1, <2>2, PlayersInvOn DEF StartRun
<1>4. CASE StartFails(j)
  <2>1. OthersRest(j) /\ PlayerShapes'
    BY <1>4 DEF StartFails, OthersRest, End, Probing
  <2>2. PlayerFits(j)'
    BY <1>4 DEF StartFails, PlayerFits, End, Probing
  <2> QED
    BY <1>4, <2>1, <2>2, PlayersInvOn DEF StartFails, End, Probing
<1> QED
  BY <1>1, <1>2, <1>3, <1>4

\* Playing: a command goes on to settle only with all submitted and in time.
LEMMA PlayingKeeps ==
  ASSUME PlayersInv, NEW j \in Players,
         \/ Submit(j) \/ StepReturns(j) \/ StepCut(j) \/ PlayedOut(j)
         \/ GiveUp(j) \/ Settle(j) \/ Resolve(j) \/ Evicted(j)
  PROVE  PlayersInv'
<1> USE DEF PlayersInv, PlayerShapes, jobVars, shrinkVars, runVars
<1>1. CASE Submit(j)
  <2>1. OthersRest(j) /\ PlayerShapes'
    BY <1>1 DEF Submit, OthersRest
  <2>2. PlayerFits(j)'
    BY <1>1 DEF Submit, PlayerFits
  <2> QED
    BY <1>1, <2>1, <2>2, PlayersInvOn DEF Submit
<1>2. CASE StepReturns(j)
  <2>1. OthersRest(j) /\ PlayerShapes'
    BY <1>2 DEF StepReturns, OthersRest
  <2>2. PlayerFits(j)'
    BY <1>2 DEF StepReturns, PlayerFits
  <2> QED
    BY <1>2, <2>1, <2>2, PlayersInvOn DEF StepReturns
<1>3. CASE StepCut(j)
  <2>1. OthersRest(j) /\ PlayerShapes'
    BY <1>3 DEF StepCut, OthersRest
  <2>2. PlayerFits(j)'
    BY <1>3 DEF StepCut, PlayerFits
  <2> QED
    BY <1>3, <2>1, <2>2, PlayersInvOn DEF StepCut
<1>4. CASE PlayedOut(j)
  <2>1. OthersRest(j) /\ PlayerShapes'
    BY <1>4 DEF PlayedOut, OthersRest, Length
  <2>2. PlayerFits(j)'
    BY <1>4 DEF PlayedOut, PlayerFits, Length
  <2> QED
    BY <1>4, <2>1, <2>2, PlayersInvOn DEF PlayedOut, Length
<1>5. CASE GiveUp(j)
  <2>1. OthersRest(j) /\ PlayerShapes'
    BY <1>5 DEF GiveUp, OthersRest
  <2>2. PlayerFits(j)'
    BY <1>5 DEF GiveUp, PlayerFits
  <2> QED
    BY <1>5, <2>1, <2>2, PlayersInvOn DEF GiveUp
<1>6. CASE Settle(j)
  <2>1. OthersRest(j) /\ PlayerShapes'
    BY <1>6 DEF Settle, OthersRest
  <2>2. PlayerFits(j)'
    BY <1>6 DEF Settle, PlayerFits
  <2> QED
    BY <1>6, <2>1, <2>2, PlayersInvOn DEF Settle
<1>7. CASE Resolve(j)
  <2>1. OthersRest(j) /\ PlayerShapes'
    BY <1>7 DEF Resolve, OthersRest
  <2>2. PlayerFits(j)'
    BY <1>7 DEF Resolve, PlayerFits
  <2> QED
    BY <1>7, <2>1, <2>2, PlayersInvOn DEF Resolve
<1>8. CASE Evicted(j)
  <2>1. OthersRest(j) /\ PlayerShapes'
    BY <1>8 DEF Evicted, OthersRest
  <2>2. PlayerFits(j)'
    BY <1>8 DEF Evicted, PlayerFits
  <2> QED
    BY <1>8, <2>1, <2>2, PlayersInvOn DEF Evicted
<1> QED
  BY <1>1, <1>2, <1>3, <1>4, <1>5, <1>6, <1>7, <1>8

\* What came of it: the run is closed, and a drop that was not seen to be spared
\* was judged by a wait that the end of the context cut off.
LEMMA JudgingKeeps ==
  ASSUME PlayersInv, NEW j \in Players,
         FillColumn(j) \/ ProbeShows(j) \/ Judge(j) \/ Finish(j) \/ Report(j)
  PROVE  PlayersInv'
<1> USE DEF PlayersInv, PlayerShapes, jobVars, shrinkVars, runVars
<1>1. CASE FillColumn(j)
  <2>1. OthersRest(j) /\ PlayerShapes'
    BY <1>1 DEF FillColumn, OthersRest, CloseRun
  <2>2. PlayerFits(j)'
    BY <1>1 DEF FillColumn, PlayerFits, CloseRun
  <2> QED
    BY <1>1, <2>1, <2>2, PlayersInvOn DEF FillColumn, CloseRun
<1>2. CASE ProbeShows(j)
  <2>1. OthersRest(j) /\ PlayerShapes'
    BY <1>2 DEF ProbeShows, OthersRest, CloseRun, Probing, NoTarget
  <2>2. PlayerFits(j)'
    BY <1>2 DEF ProbeShows, PlayerFits, CloseRun, Probing, NoTarget
  <2> QED
    BY <1>2, <2>1, <2>2, PlayersInvOn DEF ProbeShows, CloseRun, Probing, NoTarget
<1>3. CASE Judge(j)
  <2>1. OthersRest(j) /\ PlayerShapes'
    BY <1>3 DEF Judge, OthersRest, CloseRun
  <2>2. PlayerFits(j)'
    BY <1>3 DEF Judge, PlayerFits, CloseRun, Reproduces, Shown
  <2> QED
    BY <1>3, <2>1, <2>2, PlayersInvOn DEF Judge, CloseRun
<1>4. CASE Finish(j)
  <2>1. OthersRest(j) /\ PlayerShapes'
    BY <1>4 DEF Finish, OthersRest, End
  <2>2. PlayerFits(j)'
    BY <1>4 DEF Finish, PlayerFits, End
  <2> QED
    BY <1>4, <2>1, <2>2, PlayersInvOn DEF Finish, End
<1>5. CASE Report(j)
  <2>1. OthersRest(j) /\ PlayerShapes'
    BY <1>5 DEF Report, OthersRest, CloseRun
  <2>2. PlayerFits(j)'
    BY <1>5 DEF Report, PlayerFits, CloseRun
  <2> QED
    BY <1>5, <2>1, <2>2, PlayersInvOn DEF Report, CloseRun
<1> QED
  BY <1>1, <1>2, <1>3, <1>4, <1>5

\* A step of the players, or none.
LEMMA PlayersStep ==
  ASSUME PlayersInv, [Next]_vars
  PROVE  PlayersInv'
<1>1. ASSUME NEW j \in Players, Play(j) PROVE PlayersInv'
  BY <1>1, RegistryKeeps, ChoosingKeeps, PlayingKeeps, JudgingKeeps DEF Play
<1>2. ASSUME NEW j \in Players,
             StartJob(j) \/ PushedOut(j) \/ StartCommand(j) \/ Cancel(j) \/ TimeOut(j)
             \/ Resolve(j) \/ Evicted(j)
      PROVE  PlayersInv'
  BY <1>2, RegistryKeeps, PlayingKeeps
<1>3. ASSUME UNCHANGED vars PROVE PlayersInv'
  BY <1>3 DEF PlayersInv, PlayerShapes, PlayerFits, vars, jobVars, shrinkVars, runVars
<1> QED
  BY <1>1, <1>2, <1>3 DEF Next, Rest

-----------------------------------------------------------------------------
(***************************************************************************)
(* The assistant.                                                          *)
(***************************************************************************)

\* The turns that hold their session.
Going == {"thinking", "saving", "looking", "stepping", "answered"}

ChatShapes ==
  /\ DOMAIN turn = Messages
  /\ DOMAIN session = {"known", "busy", "draft", "texts", "scenario", "transcript", "history"}
  /\ session.busy \in BOOLEAN /\ session.scenario \in BOOLEAN
  /\ session.draft \in Nat /\ session.texts \in Nat /\ session.draft <= session.texts
  /\ run \in [open : BOOLEAN, steps : Nat, interrupt : BOOLEAN]
  /\ saving \in [{0} \union Messages -> [text : Nat, create : BOOLEAN, under : BOOLEAN]]
  /\ created \in Nat /\ file \in Nat /\ older \in BOOLEAN /\ overlap \in BOOLEAN

\* One turn at a time holds the session.
OneTurn ==
  /\ \A m \in Messages : turn[m] \in Going => session.busy
  /\ \A m, n \in Messages : turn[m] \in Going /\ turn[n] \in Going => m = n

\* After a statement beyond the stop nobody is about to submit another.
StopFits ==
  /\ overrun \in {0, 1}
  /\ overrun = 1 => \A m \in Messages : turn[m] # "stepping"

\* As long as no two saves overlapped there is one at a time, which creates only
\* if none did, and holds no older a text than the file.
SavesFit ==
  overlap \/
    /\ \A s, t \in {0} \union Messages : saving[s].under /\ saving[t].under => s = t
    /\ \A m \in Messages : turn[m] = "saving" => saving[m].under
    /\ created <= 1 /\ (created = 1 => session.scenario)
    /\ ~ older /\ file <= session.draft
    /\ \A s \in {0} \union Messages : saving[s].under =>
         /\ saving[s].create => ~ session.scenario
         /\ file <= saving[s].text /\ saving[s].text <= session.draft

ChatInv == ChatShapes /\ OneTurn /\ StopFits /\ SavesFit

LEMMA ChatInvHolds == ChatInit => ChatInv
<1> SUFFICES ASSUME ChatInit PROVE ChatInv
  OBVIOUS
<1>1. \A m \in Messages : turn[m] = "none"
  BY DEF ChatInit
<1>2. saving = [s \in {0} \union Messages |-> NoSave]
      /\ NoSave \in [text : Nat, create : BOOLEAN, under : BOOLEAN] /\ ~ NoSave.under
  BY DEF ChatInit, NoSave
<1>3. PICK given \in BOOLEAN :
        /\ session = [known |-> TRUE, busy |-> FALSE, draft |-> 0, texts |-> 0,
                      scenario |-> given, transcript |-> <<>>, history |-> <<>>]
        /\ run = [NoRun EXCEPT !.open = given]
  BY DEF ChatInit
<1>4. ChatShapes
  <2>1. run \in [open : BOOLEAN, steps : Nat, interrupt : BOOLEAN]
    BY <1>3 DEF NoRun
  <2>2. /\ DOMAIN session =
             {"known", "busy", "draft", "texts", "scenario", "transcript", "history"}
        /\ session.busy \in BOOLEAN /\ session.scenario \in BOOLEAN
        /\ session.draft \in Nat /\ session.texts \in Nat /\ session.draft <= session.texts
    BY <1>3
  <2> QED
    BY <1>2, <2>1, <2>2 DEF ChatInit, ChatShapes
<1>5. OneTurn /\ StopFits
  BY <1>1 DEF ChatInit, OneTurn, StopFits, Going
<1>6. SavesFit
  BY <1>1, <1>2, <1>3 DEF ChatInit, SavesFit
<1> QED
  BY <1>4, <1>5, <1>6 DEF ChatInv

\* A step that begins no turn, holds the session as it was, and leaves the run,
\* the saves and the draft alone.
LEMMA ComposerKeeps ==
  ASSUME ChatInv, DOMAIN turn' = Messages,
         \A m \in Messages : turn'[m] = turn[m] \/ turn'[m] \notin Going,
         \/ session' = session
         \/ session' = [session EXCEPT !.known = FALSE],
         UNCHANGED <<savedVars, drivenVars>>
  PROVE  ChatInv'
<1> USE DEF savedVars, drivenVars
<1>1. /\ DOMAIN session' = DOMAIN session
      /\ session'.busy = session.busy /\ session'.scenario = session.scenario
      /\ session'.draft = session.draft /\ session'.texts = session.texts
  BY DEF ChatInv, ChatShapes
<1>2. \A m \in Messages : turn'[m] \in Going => turn'[m] = turn[m]
  OBVIOUS
<1>3. ChatShapes'
  BY <1>1 DEF ChatInv, ChatShapes
<1>4. OneTurn' /\ StopFits'
  BY <1>1, <1>2 DEF ChatInv, OneTurn, StopFits, Going
<1>5. SavesFit'
  BY <1>1, <1>2 DEF ChatInv, SavesFit, Going
<1> QED
  BY <1>3, <1>4, <1>5 DEF ChatInv

\* The composer, and messages that are turned away.
LEMMA ComposingKeeps ==
  ASSUME ChatInv,
         \/ \E m \in Messages : Compose(m) \/ ReadEnd(m) \/ LoseConnection(m)
         \/ CloseBuilder \/ ForgetSession
  PROVE  ChatInv'
<1>1. DOMAIN turn = Messages
  BY DEF ChatInv, ChatShapes
<1>2. CASE \E m \in Messages : Compose(m)
  <2>1. PICK m \in Messages : Compose(m)
    BY <1>2
  <2>2. turn' = [turn EXCEPT ![m] = "queued"] \/ turn' = [turn EXCEPT ![m] = "posted"]
    BY <2>1 DEF Compose
  <2>3. \A n \in Messages : turn'[n] = turn[n] \/ turn'[n] \notin Going
    BY <1>1, <2>2 DEF Going
  <2> QED
    BY <1>1, <2>1, <2>2, <2>3, ComposerKeeps DEF Compose
<1>3. CASE \E m \in Messages : ReadEnd(m) \/ LoseConnection(m)
  <2>1. PICK m \in Messages : ReadEnd(m) \/ LoseConnection(m)
    BY <1>3
  <2>2. turn' = turn \/ turn' = [turn EXCEPT ![Head(page.queue)] = "posted"]
    BY <2>1 DEF ReadEnd, LoseConnection, GoOn
  <2>3. DOMAIN turn' = Messages
        /\ \A n \in Messages : turn'[n] = turn[n] \/ turn'[n] \notin Going
    BY <1>1, <2>2 DEF Going
  <2>4. session' = session /\ UNCHANGED <<savedVars, drivenVars>>
    BY <2>1 DEF ReadEnd, LoseConnection
  <2> QED
    BY <2>3, <2>4, ComposerKeeps
<1>4. CASE CloseBuilder \/ ForgetSession
  BY <1>1, <1>4, ComposerKeeps DEF CloseBuilder, ForgetSession
<1> QED
  BY <1>2, <1>3, <1>4

\* A turn begins when none goes on, and ends or is answered.
LEMMA TurnKeeps ==
  ASSUME ChatInv, NEW m \in Messages, Send(m) \/ Answer(m) \/ Returns(m) \/ Fails(m)
  PROVE  ChatInv'
<1> USE DEF savedVars, drivenVars
<1>1. DOMAIN turn = Messages
  BY DEF ChatInv, ChatShapes
<1>2. CASE /\ Send(m) /\ ~ Busy
           /\ session' = [session EXCEPT !.busy = TRUE,
                            !.transcript = Append(@, [role |-> "user", of |-> m])]
           /\ turn' = [turn EXCEPT ![m] = "thinking"]
  <2>1. /\ DOMAIN session' = DOMAIN session /\ session'.busy = TRUE
        /\ session'.scenario = session.scenario
        /\ session'.draft = session.draft /\ session'.texts = session.texts
    BY <1>2 DEF ChatInv, ChatShapes
  <2>2. UNCHANGED <<savedVars, drivenVars>>
    BY <1>2 DEF Send
  <2>3. DOMAIN turn' = Messages /\ turn'[m] = "thinking"
        /\ \A n \in Messages \ {m} : turn'[n] = turn[n] /\ turn[n] \notin Going
    BY <1>1, <1>2 DEF ChatInv, OneTurn, Busy
  <2>4. ChatShapes'
    BY <2>1, <2>2, <2>3 DEF ChatInv, ChatShapes
  <2>5. OneTurn' /\ StopFits'
    BY <2>1, <2>2, <2>3 DEF ChatInv, OneTurn, StopFits, Going
  <2>6. SavesFit'
    BY <2>1, <2>2, <2>3 DEF ChatInv, SavesFit
  <2> QED
    BY <2>4, <2>5, <2>6 DEF ChatInv
<1>3. CASE Send(m) /\ session' = session /\ turn' = [turn EXCEPT ![m] = "ended"]
  <2>1. \A n \in Messages : turn'[n] = turn[n] \/ turn'[n] \notin Going
    BY <1>1, <1>3 DEF Going
  <2>2. UNCHANGED <<savedVars, drivenVars>>
    BY <1>3 DEF Send
  <2> QED
    BY <1>1, <1>3, <2>1, <2>2, ComposerKeeps
<1>4. CASE Answer(m)
  <2>1. /\ DOMAIN session' = DOMAIN session /\ session'.busy = session.busy
        /\ session'.scenario = session.scenario
        /\ session'.draft = session.draft /\ session'.texts = session.texts
    BY <1>4 DEF Answer, ChatInv, ChatShapes
  <2>2. UNCHANGED <<savedVars, drivenVars>>
    BY <1>4 DEF Answer
  <2>3. DOMAIN turn' = Messages /\ turn[m] = "thinking" /\ turn'[m] = "answered"
        /\ \A n \in Messages \ {m} : turn'[n] = turn[n]
    BY <1>1, <1>4 DEF Answer
  <2>4. ChatShapes'
    BY <2>1, <2>2, <2>3 DEF ChatInv, ChatShapes
  <2>5. OneTurn' /\ StopFits'
    BY <2>1, <2>2, <2>3 DEF ChatInv, OneTurn, StopFits, Going
  <2>6. SavesFit'
    BY <2>1, <2>2, <2>3 DEF ChatInv, SavesFit
  <2> QED
    BY <2>4, <2>5, <2>6 DEF ChatInv
<1>5. CASE Returns(m) \/ Fails(m)
  <2>1. /\ DOMAIN session' = DOMAIN session /\ session'.busy = FALSE
        /\ session'.scenario = session.scenario
        /\ session'.draft = session.draft /\ session'.texts = session.texts
    BY <1>5 DEF Returns, Fails, Release, ChatInv, ChatShapes
  <2>2. UNCHANGED <<savedVars, drivenVars>>
    BY <1>5 DEF Returns, Fails, Release
  <2>3. turn[m] \in Going /\ DOMAIN turn' = Messages /\ turn'[m] = "ended"
        /\ \A n \in Messages \ {m} : turn'[n] = turn[n]
    BY <1>1, <1>5 DEF Returns, Fails, Release, Going
  <2>4. ChatShapes'
    BY <2>1, <2>2, <2>3 DEF ChatInv, ChatShapes
  <2>5. \A n \in Messages : turn'[n] \notin Going
    BY <2>3 DEF ChatInv, OneTurn, Going
  <2>6. OneTurn' /\ StopFits'
    BY <2>2, <2>5 DEF ChatInv, OneTurn, StopFits, Going
  <2>7. SavesFit'
    BY <2>1, <2>2, <2>3 DEF ChatInv, SavesFit
  <2> QED
    BY <2>4, <2>6, <2>7 DEF ChatInv
<1> QED
  BY <1>2, <1>3, <1>4, <1>5 DEF Send

\* The text of a draft is newer than all before it.
LEMMA DraftKeeps ==
  ASSUME ChatInv, (\E m \in Messages : SetDraft(m)) \/ ApplyDraft
  PROVE  ChatInv'
<1>1. NewDraft /\ UNCHANGED <<turn, saving, created, file, older, overlap, run, overrun>>
  BY DEF SetDraft, ApplyDraft, savedVars, drivenVars
<1>2. /\ DOMAIN session' = DOMAIN session /\ session'.busy = session.busy
      /\ session'.scenario = session.scenario
      /\ session'.texts = session.texts + 1 /\ session'.draft = session.texts + 1
  BY <1>1 DEF NewDraft, ChatInv, ChatShapes
<1>3. ChatShapes'
  BY <1>1, <1>2 DEF ChatInv, ChatShapes
<1>4. OneTurn' /\ StopFits'
  BY <1>1, <1>2 DEF ChatInv, OneTurn, StopFits
<1>5. SavesFit'
  <2>1. session.draft <= session'.draft /\ session.draft \in Nat /\ session'.draft \in Nat
        /\ file \in Nat /\ \A s \in {0} \union Messages : saving[s].text \in Nat
    BY <1>2 DEF ChatInv, ChatShapes
  <2> QED
    BY <1>1, <1>2, <2>1 DEF ChatInv, SavesFit
<1> QED
  BY <1>3, <1>4, <1>5 DEF ChatInv

\* A save reads the draft: there is no other, or two overlap.
LEMMA ReadingKeeps ==
  ASSUME ChatInv, (\E m \in Messages : SaveDraft(m)) \/ UserSave
  PROVE  ChatInv'
<1>1. PICK s \in {0} \union Messages :
        /\ ReadDraft(s) /\ UNCHANGED <<session, run, overrun>>
        /\ \/ s = 0 /\ turn' = turn
           \/ s \in Messages /\ turn[s] = "thinking" /\ turn' = [turn EXCEPT ![s] = "saving"]
  BY DEF SaveDraft, UserSave, MayCall, drivenVars
<1>2. /\ saving'[s] = [text |-> session.draft, create |-> ~ session.scenario, under |-> TRUE]
      /\ \A t \in {0} \union Messages : t # s => saving'[t] = saving[t]
      /\ saving' \in [{0} \union Messages -> [text : Nat, create : BOOLEAN, under : BOOLEAN]]
      /\ UNCHANGED <<created, file, older>>
      /\ overlap' \in BOOLEAN
      /\ overlap' = FALSE => ~ overlap /\ \A t \in {0} \union Messages : ~ saving[t].under
  BY <1>1 DEF ReadDraft, ChatInv, ChatShapes
<1>3. /\ DOMAIN turn' = Messages
      /\ \A m \in Messages : turn'[m] = turn[m] \/ m = s
      /\ s \in Messages => turn[s] \in Going /\ turn'[s] \in {turn[s], "saving"}
  <2>1. DOMAIN turn = Messages
    BY DEF ChatInv, ChatShapes
  <2>2. CASE s = 0 /\ turn' = turn
    <3>1. s \notin Messages
      BY <2>2, ChatAssumption DEF Messages
    <3> QED
      BY <2>1, <2>2, <3>1
  <2>3. CASE s \in Messages /\ turn[s] = "thinking" /\ turn' = [turn EXCEPT ![s] = "saving"]
    BY <2>1, <2>3 DEF Going
  <2> QED
    BY <1>1, <2>2, <2>3
<1>4. ChatShapes'
  BY <1>1, <1>2, <1>3 DEF ChatInv, ChatShapes
<1>5. OneTurn' /\ StopFits'
  BY <1>1, <1>3 DEF ChatInv, OneTurn, StopFits, Going
<1>6. SavesFit'
  <2>1. CASE overlap'
    BY <2>1 DEF SavesFit
  <2>2. CASE ~ overlap'
    <3>1. ~ overlap /\ \A t \in {0} \union Messages : ~ saving[t].under
      BY <1>2, <2>2
    <3>2. session.draft \in Nat /\ file \in Nat
      BY DEF ChatInv, ChatShapes
    <3> QED
      BY <1>1, <1>2, <1>3, <3>1, <3>2 DEF ChatInv, SavesFit
  <2> QED
    BY <2>1, <2>2
<1> QED
  BY <1>4, <1>5, <1>6 DEF ChatInv

\* And writes it.
LEMMA WritingKeeps ==
  ASSUME ChatInv, (\E m \in Messages : Saved(m)) \/ UserSaved
  PROVE  ChatInv'
<1>1. PICK s \in {0} \union Messages :
        /\ WriteDraft(s) /\ UNCHANGED <<run, overrun>>
        /\ \/ s = 0 /\ turn' = turn /\ saving[0].under
           \/ s \in Messages /\ turn[s] = "saving" /\ turn' = [turn EXCEPT ![s] = "thinking"]
  BY DEF Saved, UserSaved, drivenVars
<1>2. /\ saving'[s] = NoSave /\ overlap' = overlap
      /\ \A t \in {0} \union Messages : t # s => saving'[t] = saving[t]
      /\ saving' \in [{0} \union Messages -> [text : Nat, create : BOOLEAN, under : BOOLEAN]]
  BY <1>1 DEF WriteDraft, ChatInv, ChatShapes, NoSave
<1>3. \/ UNCHANGED <<created, file, older, session>>
      \/ /\ created' = created + (IF saving[s].create THEN 1 ELSE 0)
         /\ file' = saving[s].text
         /\ older' = (older \/ saving[s].text < file)
         /\ session' = [session EXCEPT !.scenario = TRUE]
  BY <1>1 DEF WriteDraft, WithScenario
<1>4. /\ DOMAIN session' = DOMAIN session /\ session'.busy = session.busy
      /\ session'.draft = session.draft /\ session'.texts = session.texts
      /\ session'.scenario \in BOOLEAN
      /\ session'.scenario = session.scenario \/ session'.scenario = TRUE
  BY <1>3 DEF ChatInv, ChatShapes
<1>5. /\ DOMAIN turn' = Messages
      /\ \A m \in Messages : turn'[m] = turn[m] \/ m = s
      /\ s \in Messages => turn[s] = "saving" /\ turn'[s] \in {turn[s], "thinking"}
      /\ s \in Messages => turn'[s] = "thinking"
  <2>1. DOMAIN turn = Messages
    BY DEF ChatInv, ChatShapes
  <2>2. CASE s = 0 /\ turn' = turn
    <3>1. s \notin Messages
      BY <2>2, ChatAssumption DEF Messages
    <3> QED
      BY <2>1, <2>2, <3>1
  <2>3. CASE s \in Messages /\ turn[s] = "saving" /\ turn' = [turn EXCEPT ![s] = "thinking"]
    BY <2>1, <2>3
  <2> QED
    BY <1>1, <2>2, <2>3
<1>6. ChatShapes'
  <2>1. created' \in Nat /\ file' \in Nat /\ older' \in BOOLEAN
    <3>1. /\ created \in Nat /\ file \in Nat /\ older \in BOOLEAN
          /\ saving[s].text \in Nat
      BY DEF ChatInv, ChatShapes
    <3>2. CASE UNCHANGED <<created, file, older, session>>
      BY <3>1, <3>2
    <3>3. CASE /\ created' = created + (IF saving[s].create THEN 1 ELSE 0)
               /\ file' = saving[s].text
               /\ older' = (older \/ saving[s].text < file)
      BY <3>1, <3>3
    <3> QED
      BY <1>3, <3>2, <3>3
  <2> QED
    BY <1>1, <1>2, <1>4, <1>5, <2>1 DEF ChatInv, ChatShapes
<1>7. OneTurn' /\ StopFits'
  BY <1>1, <1>4, <1>5 DEF ChatInv, OneTurn, StopFits, Going
<1>8. SavesFit'
  <2>1. CASE overlap
    BY <1>2, <2>1 DEF SavesFit
  <2>2. CASE ~ overlap
    <3>1. saving[s].under /\ \A t \in {0} \union Messages : saving[t].under => t = s
      BY <1>1, <2>2 DEF ChatInv, SavesFit
    <3>2. \A t \in {0} \union Messages : ~ saving'[t].under
      BY <1>2, <3>1 DEF NoSave
    <3>3. \A m \in Messages : turn'[m] # "saving"
      BY <1>5, <2>2, <3>1 DEF ChatInv, SavesFit
    <3>4. /\ created' <= 1 /\ (created' = 1 => session'.scenario)
          /\ ~ older' /\ file' <= session'.draft
      <4>1. /\ created \in Nat /\ file \in Nat /\ saving[s].text \in Nat
            /\ session.draft \in Nat /\ saving[s].create \in BOOLEAN
        BY DEF ChatInv, ChatShapes
      <4>2. /\ created <= 1 /\ (created = 1 => session.scenario) /\ ~ older
            /\ file <= session.draft /\ (saving[s].create => ~ session.scenario)
            /\ file <= saving[s].text /\ saving[s].text <= session.draft
        BY <2>2, <3>1 DEF ChatInv, SavesFit
      <4>3. CASE UNCHANGED <<created, file, older, session>>
        BY <4>2, <4>3
      <4>4. CASE /\ created' = created + (IF saving[s].create THEN 1 ELSE 0)
                 /\ file' = saving[s].text
                 /\ older' = (older \/ saving[s].text < file)
                 /\ session' = [session EXCEPT !.scenario = TRUE]
        <5>1. session'.scenario = TRUE
          BY <4>4 DEF ChatInv, ChatShapes
        <5>2. ~ (saving[s].text < file)
          BY <4>1, <4>2
        <5>3. created' <= 1
          BY <4>1, <4>2, <4>4
        <5> QED
          BY <1>4, <4>2, <4>4, <5>1, <5>2, <5>3
      <4> QED
        BY <1>3, <4>3, <4>4
    <3> QED
      BY <3>2, <3>3, <3>4 DEF SavesFit
  <2> QED
    BY <2>1, <2>2
<1> QED
  BY <1>6, <1>7, <1>8 DEF ChatInv

\* The run: a call looks for a stop before each statement.
LEMMA DrivingKeeps ==
  ASSUME ChatInv,
         \/ \E m \in Messages :
              RunDraft(m) \/ StepRun(m) \/ Look(m) \/ Step(m) \/ StepRunStops(m)
         \/ CloseTheRun \/ StopRun
  PROVE  ChatInv'
<1>1. UNCHANGED <<session, saving, created, file, older, overlap>>
  BY DEF RunDraft, StepRun, Look, Step, StepRunStops, CloseTheRun, StopRun, savedVars
<1>2. run' \in [open : BOOLEAN, steps : Nat, interrupt : BOOLEAN]
  <2>1. run \in [open : BOOLEAN, steps : Nat, interrupt : BOOLEAN]
    BY DEF ChatInv, ChatShapes
  <2>2. \/ run' = run \/ run' = NoRun \/ run' = [NoRun EXCEPT !.open = TRUE]
        \/ run' = [run EXCEPT !.interrupt = FALSE]
        \/ run' = [run EXCEPT !.interrupt = TRUE]
        \/ run' = [run EXCEPT !.steps = @ + 1]
    BY DEF RunDraft, StepRun, Look, Step, StepRunStops, CloseTheRun, StopRun, drivenVars
  <2>3. NoRun \in [open : BOOLEAN, steps : Nat, interrupt : BOOLEAN]
    BY DEF NoRun
  <2>4. [NoRun EXCEPT !.open = TRUE] \in [open : BOOLEAN, steps : Nat, interrupt : BOOLEAN]
    BY <2>3
  <2>5. /\ [run EXCEPT !.interrupt = FALSE] \in [open : BOOLEAN, steps : Nat, interrupt : BOOLEAN]
        /\ [run EXCEPT !.interrupt = TRUE] \in [open : BOOLEAN, steps : Nat, interrupt : BOOLEAN]
    BY <2>1
  <2>6. [run EXCEPT !.steps = @ + 1] \in [open : BOOLEAN, steps : Nat, interrupt : BOOLEAN]
    BY <2>1
  <2> QED
    BY <2>1, <2>2, <2>3, <2>4, <2>5, <2>6
<1>3. \/ turn' = turn
      \/ \E m \in Messages : /\ turn[m] \in {"thinking", "looking", "stepping"}
                             /\ \E next \in {"thinking", "looking", "stepping"} :
                                  turn' = [turn EXCEPT ![m] = next]
  BY DEF RunDraft, StepRun, Look, Step, StepRunStops, CloseTheRun, StopRun, MayCall, Then
<1>4. /\ DOMAIN turn' = Messages
      /\ \A m \in Messages : turn'[m] \in Going <=> turn[m] \in Going
      /\ \A m \in Messages : turn'[m] = "saving" => turn[m] = "saving"
  BY <1>3 DEF ChatInv, ChatShapes, Going
<1>5. ChatShapes' /\ OneTurn'
  BY <1>1, <1>2, <1>4 DEF ChatInv, ChatShapes, OneTurn
<1>6. StopFits'
  <2>1. CASE CloseTheRun \/ StopRun
    BY <2>1 DEF CloseTheRun, StopRun, ChatInv, StopFits
  <2>2. ASSUME NEW m \in Messages, RunDraft(m) \/ Look(m) PROVE StopFits'
    BY <2>2 DEF RunDraft, Look, StopFits
  <2>3. ASSUME NEW m \in Messages, StepRun(m) \/ StepRunStops(m) PROVE StopFits'
    BY <2>3 DEF StepRun, StepRunStops, drivenVars, ChatInv, ChatShapes, StopFits
  <2>4. ASSUME NEW m \in Messages, Step(m) PROVE StopFits'
    <3>1. overrun = 0 /\ overrun' \in {0, 1}
      BY <2>4 DEF Step, ChatInv, StopFits
    <3>2. \A n \in Messages : turn'[n] # "stepping"
      <4>1. \A n \in Messages : n # m => turn[n] \notin Going
        BY <2>4 DEF Step, ChatInv, OneTurn, Going
      <4>2. DOMAIN turn = Messages
        BY DEF ChatInv, ChatShapes
      <4> QED
        BY <2>4, <4>1, <4>2 DEF Step, Then, Going
    <3> QED
      BY <3>1, <3>2 DEF StopFits
  <2> QED
    BY <2>1, <2>2, <2>3, <2>4
<1>7. SavesFit'
  BY <1>1, <1>4 DEF ChatInv, SavesFit
<1> QED
  BY <1>5, <1>6, <1>7 DEF ChatInv

\* A step of the conversation, or none.
LEMMA ChatStep ==
  ASSUME ChatInv, [ChatNext]_chatVars
  PROVE  ChatInv'
<1>1. CASE ChatNext
  <2>1. ASSUME NEW m \in Messages, Assist(m) PROVE ChatInv'
    BY <2>1, TurnKeeps, DraftKeeps, ReadingKeeps, WritingKeeps, DrivingKeeps DEF Assist
  <2>2. ASSUME UserActs PROVE ChatInv'
    BY <2>2, ComposingKeeps, DraftKeeps, ReadingKeeps, WritingKeeps, DrivingKeeps DEF UserActs
  <2> QED
    BY <1>1, <2>1, <2>2, ComposingKeeps DEF ChatNext
<1>2. CASE UNCHANGED chatVars
  BY <1>2 DEF chatVars, ChatInv, ChatShapes, OneTurn, StopFits, SavesFit
<1> QED
  BY <1>1, <1>2

-----------------------------------------------------------------------------
(***************************************************************************)
(* What was said.  A turn that the model has not answered yet is that of   *)
(* the last entry, for one turn at a time holds the session; and a message *)
(* is sent once, so that what its turn was given stays what it was.        *)
(***************************************************************************)
Entries == [role : {"user", "assistant"}, of : Messages]

\* Turns the model has not answered, and messages not sent yet.
Speaking == {"thinking", "saving", "looking", "stepping"}
Unsent == {"none", "queued", "posted"}

TalkTypes ==
  /\ session.transcript \in Seq(Entries) /\ session.history \in Seq(Messages)
  /\ told \in [Messages -> Nat]
  /\ page \in [open : BOOLEAN, busy : BOOLEAN, queue : Seq(Messages), reading : Nat]

QueueFits ==
  /\ \A k \in DOMAIN page.queue : turn[page.queue[k]] = "queued"
  /\ \A j, k \in DOMAIN page.queue : page.queue[j] = page.queue[k] => j = k

SaidFits == \A i \in DOMAIN session.transcript : turn[session.transcript[i].of] \notin Unsent

LastSaid ==
  \A m \in Messages : turn[m] \in Speaking =>
    /\ session.transcript # <<>>
    /\ session.transcript[Len(session.transcript)] = [role |-> "user", of |-> m]

TalkInv == TalkTypes /\ QueueFits /\ SaidFits /\ LastSaid /\ ConversationInOrder

\* The same of any sequence of entries.
AnswersIn(said, i) == {k \in 1..i : said[k].role = "assistant"}

InOrder(said, history, given) ==
  /\ Len(history) = Cardinality(AnswersIn(said, Len(said)))
  /\ \A i \in DOMAIN said :
       \/ said[i].role = "user" /\ given[said[i].of] = Cardinality(AnswersIn(said, i))
       \/ /\ said[i].role = "assistant"
          /\ history[Cardinality(AnswersIn(said, i))] = said[i].of
          /\ i > 1 /\ said[i - 1] = [role |-> "user", of |-> said[i].of]

LEMMA SameOrder ==
  ConversationInOrder <=> InOrder(session.transcript, session.history, told)
BY DEF ConversationInOrder, InOrder, Answers, AnswersIn

\* Counting the answers of what was said so far.
LEMMA AnswersCounted ==
  ASSUME NEW said \in Seq(Entries), NEW i \in 0..Len(said)
  PROVE  /\ IsFiniteSet(AnswersIn(said, i))
         /\ Cardinality(AnswersIn(said, i)) \in Nat
         /\ Cardinality(AnswersIn(said, i)) <= Cardinality(AnswersIn(said, Len(said)))
         /\ i > 0 /\ said[i].role = "assistant" => Cardinality(AnswersIn(said, i)) >= 1
<1>1. i \in Nat /\ Len(said) \in Nat /\ i <= Len(said)
  OBVIOUS
<1>2. IsFiniteSet(1..i) /\ IsFiniteSet(1..Len(said))
  BY <1>1, FS_Interval
<1>3. AnswersIn(said, i) \subseteq 1..i /\ AnswersIn(said, Len(said)) \subseteq 1..Len(said)
  BY DEF AnswersIn
<1>4. AnswersIn(said, i) \subseteq AnswersIn(said, Len(said))
  BY <1>1 DEF AnswersIn
<1>5. IsFiniteSet(AnswersIn(said, i)) /\ IsFiniteSet(AnswersIn(said, Len(said)))
  BY <1>2, <1>3, FS_Subset
<1>6. Cardinality(AnswersIn(said, i)) \in Nat
  BY <1>5, FS_CardinalityType
<1>7. Cardinality(AnswersIn(said, i)) <= Cardinality(AnswersIn(said, Len(said)))
  BY <1>4, <1>5, FS_Subset
<1>8. ASSUME i > 0, said[i].role = "assistant" PROVE Cardinality(AnswersIn(said, i)) >= 1
  <2>1. i \in AnswersIn(said, i)
    BY <1>1, <1>8 DEF AnswersIn
  <2>2. Cardinality(AnswersIn(said, i)) # 0
    BY <1>5, <2>1, FS_EmptySet
  <2> QED
    BY <1>6, <2>2
<1> QED
  BY <1>5, <1>6, <1>7, <1>8

LEMMA OneMoreSaid ==
  ASSUME NEW said \in Seq(Entries), NEW e \in Entries
  PROVE  /\ \A i \in 0..Len(said) : AnswersIn(Append(said, e), i) = AnswersIn(said, i)
         /\ Cardinality(AnswersIn(Append(said, e), Len(said) + 1)) =
              Cardinality(AnswersIn(said, Len(said))) + (IF e.role = "assistant" THEN 1 ELSE 0)
<1> DEFINE longer == Append(said, e)
           n == Len(said)
<1>1. /\ n \in Nat /\ longer[n + 1] = e
      /\ \A k \in 1..n : longer[k] = said[k]
  OBVIOUS
<1> HIDE DEF longer, n
<1>2. \A i \in 0..n : AnswersIn(longer, i) = AnswersIn(said, i)
  BY <1>1 DEF AnswersIn
<1>3. n \in 0..Len(said)
  BY <1>1 DEF n
<1>4. IsFiniteSet(AnswersIn(said, n)) /\ Cardinality(AnswersIn(said, n)) \in Nat
  BY <1>3, AnswersCounted
<1>5. CASE e.role = "assistant"
  <2>1. AnswersIn(longer, n + 1) = AnswersIn(said, n) \union {n + 1}
    BY <1>1, <1>5 DEF AnswersIn
  <2>2. n + 1 \notin AnswersIn(said, n)
    BY <1>1 DEF AnswersIn
  <2>3. Cardinality(AnswersIn(longer, n + 1)) = Cardinality(AnswersIn(said, n)) + 1
    BY <1>4, <2>1, <2>2, FS_AddElement
  <2> QED
    BY <1>2, <1>5, <2>3 DEF longer, n
<1>6. CASE e.role # "assistant"
  <2>1. AnswersIn(longer, n + 1) = AnswersIn(said, n)
    BY <1>1, <1>6 DEF AnswersIn
  <2> QED
    BY <1>2, <1>4, <1>6, <2>1 DEF longer, n
<1> QED
  BY <1>5, <1>6

\* A message is sent: its turn is given all the answers there are.
LEMMA SentInOrder ==
  ASSUME NEW said \in Seq(Entries), NEW history \in Seq(Messages),
         NEW given \in [Messages -> Nat], InOrder(said, history, given),
         NEW m \in Messages, \A i \in DOMAIN said : said[i].of # m
  PROVE  InOrder(Append(said, [role |-> "user", of |-> m]), history,
                 [given EXCEPT ![m] = Len(history)])
<1> DEFINE e == [role |-> "user", of |-> m]
           longer == Append(said, e)
           n == Len(said)
           now == [given EXCEPT ![m] = Len(history)]
<1>1. e \in Entries /\ e.role = "user" /\ e.of = m
  BY DEF Entries
<1> HIDE DEF e
<1>2. /\ n \in Nat /\ longer[n + 1] = e /\ DOMAIN said = 1..n /\ DOMAIN longer = 1..(n + 1)
      /\ Len(longer) = n + 1 /\ \A k \in 1..n : longer[k] = said[k]
  OBVIOUS
<1>3. /\ \A i \in 0..n : AnswersIn(longer, i) = AnswersIn(said, i)
      /\ Cardinality(AnswersIn(longer, n + 1)) = Cardinality(AnswersIn(said, n)) + 0
  BY <1>1, OneMoreSaid
<1>4. now[m] = Len(history) /\ \A k \in Messages : k # m => now[k] = given[k]
  OBVIOUS
<1>5. \A k \in 1..n : said[k].of \in Messages /\ said[k].of # m
  <2>1. \A k \in 1..n : said[k] \in Entries
    BY <1>2
  <2> QED
    BY <1>2, <2>1 DEF Entries
<1>6. n \in 0..Len(said)
  BY <1>2
<1>7. Cardinality(AnswersIn(said, n)) \in Nat
  BY <1>6, AnswersCounted
<1>8. Len(history) = Cardinality(AnswersIn(said, n))
  BY DEF InOrder
<1> HIDE DEF longer, n, now
<1>9. ASSUME NEW i \in 1..(n + 1)
      PROVE  \/ longer[i].role = "user" /\ now[longer[i].of] = Cardinality(AnswersIn(longer, i))
             \/ /\ longer[i].role = "assistant"
                /\ history[Cardinality(AnswersIn(longer, i))] = longer[i].of
                /\ i > 1 /\ longer[i - 1] = [role |-> "user", of |-> longer[i].of]
  <2>1. CASE i = n + 1
    BY <1>1, <1>2, <1>3, <1>4, <1>7, <1>8, <2>1
  <2>2. CASE i # n + 1
    <3>1. i \in 1..n /\ i \in 0..n /\ longer[i] = said[i] /\ (i > 1 => longer[i - 1] = said[i - 1])
      BY <1>2, <2>2
    <3>2. now[said[i].of] = given[said[i].of]
      BY <1>4, <1>5, <3>1
    <3> QED
      BY <1>2, <1>3, <3>1, <3>2 DEF InOrder
  <2> QED
    BY <2>1, <2>2
<1>10. Len(history) = Cardinality(AnswersIn(longer, Len(longer)))
  BY <1>2, <1>3, <1>7, <1>8
<1>11. InOrder(longer, history, now)
  BY <1>2, <1>9, <1>10 DEF InOrder
<1> QED
  BY <1>11 DEF longer, e, now

\* And answered: the answer follows it.
LEMMA AnsweredInOrder ==
  ASSUME NEW said \in Seq(Entries), NEW history \in Seq(Messages),
         NEW given \in [Messages -> Nat], InOrder(said, history, given),
         NEW m \in Messages, said # <<>>, said[Len(said)] = [role |-> "user", of |-> m]
  PROVE  InOrder(Append(said, [role |-> "assistant", of |-> m]), Append(history, m), given)
<1> DEFINE e == [role |-> "assistant", of |-> m]
           longer == Append(said, e)
           n == Len(said)
           all == Append(history, m)
<1>1. e \in Entries /\ e.role = "assistant" /\ e.of = m
  BY DEF Entries
<1> HIDE DEF e
<1>2. /\ n \in Nat /\ n >= 1 /\ longer[n + 1] = e /\ DOMAIN said = 1..n
      /\ DOMAIN longer = 1..(n + 1) /\ Len(longer) = n + 1
      /\ \A k \in 1..n : longer[k] = said[k]
  OBVIOUS
<1>3. /\ \A i \in 0..n : AnswersIn(longer, i) = AnswersIn(said, i)
      /\ Cardinality(AnswersIn(longer, n + 1)) = Cardinality(AnswersIn(said, n)) + 1
  BY <1>1, OneMoreSaid
<1>4. /\ Len(all) = Len(history) + 1 /\ Len(history) \in Nat /\ all[Len(history) + 1] = m
      /\ \A k \in 1..Len(history) : all[k] = history[k]
  OBVIOUS
<1>5. Len(history) = Cardinality(AnswersIn(said, n))
  BY DEF InOrder
<1>6. \A i \in 1..n : /\ Cardinality(AnswersIn(said, i)) \in Nat
                      /\ Cardinality(AnswersIn(said, i)) <= Cardinality(AnswersIn(said, n))
                      /\ said[i].role = "assistant" => Cardinality(AnswersIn(said, i)) >= 1
  <2> SUFFICES ASSUME NEW i \in 1..n
               PROVE  /\ Cardinality(AnswersIn(said, i)) \in Nat
                      /\ Cardinality(AnswersIn(said, i)) <= Cardinality(AnswersIn(said, n))
                      /\ said[i].role = "assistant" => Cardinality(AnswersIn(said, i)) >= 1
    OBVIOUS
  <2>1. i \in 0..Len(said) /\ i > 0
    BY <1>2
  <2> QED
    BY <2>1, AnswersCounted
<1>7. said[n] = [role |-> "user", of |-> m]
  OBVIOUS
<1> HIDE DEF longer, n, all
<1>8. ASSUME NEW i \in 1..(n + 1)
      PROVE  \/ longer[i].role = "user" /\ given[longer[i].of] = Cardinality(AnswersIn(longer, i))
             \/ /\ longer[i].role = "assistant"
                /\ all[Cardinality(AnswersIn(longer, i))] = longer[i].of
                /\ i > 1 /\ longer[i - 1] = [role |-> "user", of |-> longer[i].of]
  <2>1. CASE i = n + 1
    <3>1. longer[i] = e /\ i > 1 /\ longer[i - 1] = said[n]
      BY <1>2, <2>1
    <3>2. all[Cardinality(AnswersIn(longer, i))] = m
      BY <1>3, <1>4, <1>5, <2>1
    <3> QED
      BY <1>1, <1>7, <3>1, <3>2
  <2>2. CASE i # n + 1
    <3>1. i \in 1..n /\ i \in 0..n /\ longer[i] = said[i] /\ (i > 1 => longer[i - 1] = said[i - 1])
      BY <1>2, <2>2
    <3>2. said[i].role = "assistant" =>
            all[Cardinality(AnswersIn(said, i))] = history[Cardinality(AnswersIn(said, i))]
      BY <1>4, <1>5, <1>6, <3>1
    <3> QED
      BY <1>2, <1>3, <3>1, <3>2 DEF InOrder
  <2> QED
    BY <2>1, <2>2
<1>9. Len(all) = Cardinality(AnswersIn(longer, Len(longer)))
  BY <1>2, <1>3, <1>4, <1>5
<1>10. InOrder(longer, all, given)
  BY <1>2, <1>8, <1>9 DEF InOrder
<1> QED
  BY <1>10 DEF longer, e, all

-----------------------------------------------------------------------------
\* A step that says nothing, sends nothing back and begins no turn.
LEMMA NothingSaid ==
  ASSUME TalkInv, UNCHANGED told,
         session'.transcript = session.transcript, session'.history = session.history,
         page' \in [open : BOOLEAN, busy : BOOLEAN, queue : Seq(Messages), reading : Nat],
         QueueFits', \A m \in Messages : /\ turn[m] \notin Unsent => turn'[m] \notin Unsent
                                         /\ turn'[m] \in Speaking => turn[m] \in Speaking
  PROVE  TalkInv'
<1>1. TalkTypes' /\ DOMAIN session'.transcript = DOMAIN session.transcript
  BY DEF TalkInv, TalkTypes
<1>2. \A i \in DOMAIN session.transcript : session.transcript[i].of \in Messages
  <2>1. \A i \in DOMAIN session.transcript : session.transcript[i] \in Entries
    BY DEF TalkInv, TalkTypes
  <2> QED
    BY <2>1 DEF Entries
<1>3. SaidFits' /\ LastSaid'
  BY <1>1, <1>2 DEF TalkInv, SaidFits, LastSaid
<1>4. InOrder(session.transcript, session.history, told)
  BY SameOrder DEF TalkInv
<1>5. InOrder(session'.transcript, session'.history, told')
  BY <1>4
<1>6. ConversationInOrder'
  <2>1. ConversationInOrder' <=> InOrder(session'.transcript, session'.history, told')
    BY DEF ConversationInOrder, InOrder, Answers, AnswersIn
  <2> QED
    BY <1>5, <2>1
<1> QED
  BY <1>1, <1>3, <1>6 DEF TalkInv

\* A step that moves one turn on.
MovesOn(m) ==
  \E next \in Speaking \union {"ended"} :
    /\ turn' = [turn EXCEPT ![m] = next]
    /\ \/ turn[m] \in Speaking
       \/ turn[m] \in {"posted", "answered"} /\ next = "ended"

LEMMA TurnsMoveOn ==
  ASSUME ChatInv, TalkInv, UNCHANGED told,
         session'.transcript = session.transcript, session'.history = session.history,
         page' = page \/ page' = [page EXCEPT !.open = FALSE],
         turn' = turn \/ \E m \in Messages : MovesOn(m)
  PROVE  TalkInv'
<1>1. DOMAIN turn = Messages
  BY DEF ChatInv, ChatShapes
<1>2. page \in [open : BOOLEAN, busy : BOOLEAN, queue : Seq(Messages), reading : Nat]
  BY DEF TalkInv, TalkTypes
<1>3. /\ page' \in [open : BOOLEAN, busy : BOOLEAN, queue : Seq(Messages), reading : Nat]
      /\ page'.queue = page.queue
  BY <1>2
<1>4. \A m \in Messages : /\ turn[m] \notin Unsent => turn'[m] \notin Unsent
                          /\ turn'[m] \in Speaking => turn[m] \in Speaking
                          /\ turn[m] = "queued" => turn'[m] = "queued"
  <2>1. CASE turn' = turn
    BY <2>1
  <2>2. ASSUME NEW m \in Messages, MovesOn(m)
        PROVE  \A n \in Messages : /\ turn[n] \notin Unsent => turn'[n] \notin Unsent
                                   /\ turn'[n] \in Speaking => turn[n] \in Speaking
                                   /\ turn[n] = "queued" => turn'[n] = "queued"
    <3>1. PICK next \in Speaking \union {"ended"} :
            /\ turn' = [turn EXCEPT ![m] = next]
            /\ \/ turn[m] \in Speaking
               \/ turn[m] \in {"posted", "answered"} /\ next = "ended"
      BY <2>2 DEF MovesOn
    <3>2. turn'[m] = next /\ \A n \in Messages : n # m => turn'[n] = turn[n]
      BY <1>1, <3>1
    <3> QED
      BY <3>1, <3>2 DEF Speaking, Unsent
  <2> QED
    BY <2>1, <2>2
<1>5. QueueFits'
  <2>1. \A k \in DOMAIN page.queue : page.queue[k] \in Messages
    BY <1>2
  <2> QED
    BY <1>3, <1>4, <2>1 DEF TalkInv, QueueFits
<1> QED
  BY <1>3, <1>4, <1>5, NothingSaid

\* Everything but writing, sending and answering.
LEMMA OthersSayNothing ==
  ASSUME ChatInv, TalkInv,
         \/ \E m \in Messages :
              \/ Returns(m) \/ Fails(m) \/ SetDraft(m) \/ SaveDraft(m) \/ Saved(m)
              \/ RunDraft(m) \/ StepRun(m) \/ Look(m) \/ Step(m) \/ StepRunStops(m)
         \/ UserActs
  PROVE  TalkInv'
<1>1. DOMAIN session = {"known", "busy", "draft", "texts", "scenario", "transcript", "history"}
      /\ DOMAIN turn = Messages
  BY DEF ChatInv, ChatShapes
<1>2. ASSUME NEW m \in Messages, Returns(m) \/ Fails(m) PROVE TalkInv'
  <2>1. MovesOn(m) /\ session' = [session EXCEPT !.busy = FALSE] /\ UNCHANGED <<told, page>>
    BY <1>2 DEF Returns, Fails, Release, MovesOn, Speaking
  <2> QED
    BY <1>1, <2>1, TurnsMoveOn
<1>3. ASSUME NEW m \in Messages, SetDraft(m) \/ SaveDraft(m) PROVE TalkInv'
  <2>1. turn' = turn \/ MovesOn(m)
    <3>1. CASE SetDraft(m)
      BY <3>1 DEF SetDraft
    <3>2. CASE SaveDraft(m)
      <4>1. turn[m] \in Speaking /\ turn' = [turn EXCEPT ![m] = "saving"]
        BY <3>2 DEF SaveDraft, MayCall, Speaking
      <4>2. "saving" \in Speaking \union {"ended"}
        BY DEF Speaking
      <4> QED
        BY <4>1, <4>2 DEF MovesOn
    <3> QED
      BY <1>3, <3>1, <3>2
  <2>2. UNCHANGED <<told, page>> /\ session'.transcript = session.transcript
        /\ session'.history = session.history
    BY <1>1, <1>3 DEF SetDraft, SaveDraft, NewDraft
  <2> QED
    BY <2>1, <2>2, TurnsMoveOn
<1>4. ASSUME NEW m \in Messages, Saved(m) PROVE TalkInv'
  <2>1. MovesOn(m)
    <3>1. turn[m] \in Speaking /\ turn' = [turn EXCEPT ![m] = "thinking"]
      BY <1>4 DEF Saved, Speaking
    <3>2. "thinking" \in Speaking \union {"ended"}
      BY DEF Speaking
    <3> QED
      BY <3>1, <3>2 DEF MovesOn
  <2>2. UNCHANGED <<told, page>> /\ session'.transcript = session.transcript
        /\ session'.history = session.history
    BY <1>1, <1>4 DEF Saved, WriteDraft, WithScenario
  <2> QED
    BY <2>1, <2>2, TurnsMoveOn
<1>5. ASSUME NEW m \in Messages,
             RunDraft(m) \/ StepRun(m) \/ Look(m) \/ Step(m) \/ StepRunStops(m)
      PROVE  TalkInv'
  <2>1. turn' = turn \/ MovesOn(m)
    <3>1. \/ turn' = turn
          \/ /\ turn[m] \in {"thinking", "looking", "stepping"}
             /\ \E next \in {"thinking", "looking", "stepping"} : turn' = [turn EXCEPT ![m] = next]
      BY <1>5 DEF RunDraft, StepRun, Look, Step, StepRunStops, MayCall, Then
    <3>2. {"thinking", "looking", "stepping"} \subseteq Speaking
      BY DEF Speaking
    <3> QED
      BY <3>1, <3>2 DEF MovesOn
  <2>2. UNCHANGED <<told, page, session>>
    BY <1>5 DEF RunDraft, StepRun, Look, Step, StepRunStops
  <2> QED
    BY <2>1, <2>2, TurnsMoveOn
<1>6. ASSUME UserActs PROVE TalkInv'
  <2>1. /\ UNCHANGED <<told, turn>>
        /\ page' = page \/ page' = [page EXCEPT !.open = FALSE]
    BY <1>6 DEF UserActs, CloseBuilder, ForgetSession, ApplyDraft, UserSave, UserSaved,
                CloseTheRun, StopRun
  <2>2. session'.transcript = session.transcript /\ session'.history = session.history
    BY <1>1, <1>6 DEF UserActs, CloseBuilder, ForgetSession, ApplyDraft, UserSave, UserSaved,
                      CloseTheRun, StopRun, NewDraft, WriteDraft, WithScenario
  <2> QED
    BY <2>1, <2>2, TurnsMoveOn
<1> QED
  BY <1>2, <1>3, <1>4, <1>5, <1>6

\* What is written while a reply is read waits its turn.
LEMMA ComposeKeepsTalk ==
  ASSUME ChatInv, TalkInv, NEW m \in Messages, Compose(m)
  PROVE  TalkInv'
<1> DEFINE Pages == [open : BOOLEAN, busy : BOOLEAN, queue : Seq(Messages), reading : Nat]
<1>1. DOMAIN turn = Messages /\ page \in Pages /\ QueueFits /\ page.queue \in Seq(Messages)
  BY DEF ChatInv, ChatShapes, TalkInv, TalkTypes
<1>2. m \in Nat /\ turn[m] = "none"
  <2>1. m \in Nat /\ m \notin 1..(m - 1)
    BY ChatAssumption DEF Messages
  <2> QED
    BY <2>1 DEF Compose, Written
<1>3. \A k \in DOMAIN page.queue : page.queue[k] \in Messages /\ page.queue[k] # m
  BY <1>1, <1>2 DEF QueueFits
<1>4. UNCHANGED <<told, session>>
  BY DEF Compose
<1>5. CASE /\ page' = [page EXCEPT !.queue = Append(@, m)]
           /\ turn' = [turn EXCEPT ![m] = "queued"]
  <2> DEFINE q == page.queue
             longer == Append(q, m)
  <2>1. page' \in Pages /\ page'.queue = longer
    <3>1. longer \in Seq(Messages) /\ page' = [page EXCEPT !.queue = longer]
      BY <1>1, <1>5
    <3> HIDE DEF longer
    <3> QED
      BY <1>1, <3>1
  <2>2. turn'[m] = "queued" /\ \A n \in Messages : n # m => turn'[n] = turn[n]
    BY <1>1, <1>5
  <2>3. /\ Len(q) \in Nat /\ DOMAIN q = 1..Len(q) /\ DOMAIN longer = 1..(Len(q) + 1)
        /\ longer[Len(q) + 1] = m /\ \A k \in 1..Len(q) : longer[k] = q[k]
    BY <1>1
  <2>4. /\ \A k \in DOMAIN q : q[k] \in Messages /\ q[k] # m /\ turn[q[k]] = "queued"
        /\ \A j, k \in DOMAIN q : q[j] = q[k] => j = k
    BY <1>1, <1>3 DEF QueueFits
  <2> HIDE DEF q, longer
  <2>5. \A k \in DOMAIN longer : k = Len(q) + 1 \/ k \in DOMAIN q
    BY <2>3
  <2>6. \A k \in DOMAIN longer : turn'[longer[k]] = "queued"
    BY <2>2, <2>3, <2>4, <2>5
  <2>7. \A j, k \in DOMAIN longer : longer[j] = longer[k] => j = k
    BY <2>3, <2>4, <2>5
  <2>8. QueueFits'
    BY <2>1, <2>6, <2>7 DEF QueueFits
  <2>9. \A n \in Messages : /\ turn[n] \notin Unsent => turn'[n] \notin Unsent
                            /\ turn'[n] \in Speaking => turn[n] \in Speaking
    BY <1>2, <2>2 DEF Unsent, Speaking
  <2> QED
    BY <1>4, <2>1, <2>8, <2>9, NothingSaid
<1>6. CASE /\ page' = [page EXCEPT !.busy = TRUE, !.reading = m]
           /\ turn' = [turn EXCEPT ![m] = "posted"]
  <2>1. page' \in Pages /\ page'.queue = page.queue
    BY <1>1, <1>2, <1>6
  <2>2. turn'[m] = "posted" /\ \A n \in Messages : n # m => turn'[n] = turn[n]
    BY <1>1, <1>6
  <2>3. QueueFits'
    BY <1>1, <1>3, <2>1, <2>2 DEF QueueFits
  <2>4. \A n \in Messages : /\ turn[n] \notin Unsent => turn'[n] \notin Unsent
                            /\ turn'[n] \in Speaking => turn[n] \in Speaking
    BY <1>2, <2>2 DEF Unsent, Speaking
  <2> QED
    BY <1>4, <2>1, <2>3, <2>4, NothingSaid
<1> QED
  BY <1>5, <1>6 DEF Compose

\* The stream is over: the first in the queue, and only it, is sent.
LEMMA GoOnKeepsTalk ==
  ASSUME ChatInv, TalkInv, GoOn, UNCHANGED <<told, session>>
  PROVE  TalkInv'
<1> DEFINE Pages == [open : BOOLEAN, busy : BOOLEAN, queue : Seq(Messages), reading : Nat]
<1>1. DOMAIN turn = Messages /\ page \in Pages /\ QueueFits /\ page.queue \in Seq(Messages)
  BY DEF ChatInv, ChatShapes, TalkInv, TalkTypes
<1>2. CASE page.queue = <<>>
  <2>1. page' = [page EXCEPT !.busy = FALSE, !.reading = 0] /\ turn' = turn
    BY <1>2 DEF GoOn
  <2>2. page' \in Pages /\ page'.queue = page.queue
    BY <1>1, <2>1
  <2>3. QueueFits'
    BY <1>1, <2>1, <2>2 DEF QueueFits
  <2> QED
    BY <2>1, <2>2, <2>3, NothingSaid
<1>3. CASE page.queue # <<>>
  <2> DEFINE q == page.queue
             m == Head(q)
             rest == Tail(q)
  <2>1. /\ page' = [page EXCEPT !.reading = m, !.queue = Tail(@)]
        /\ turn' = [turn EXCEPT ![m] = "posted"]
    BY <1>3 DEF GoOn
  <2>2. /\ Len(q) \in Nat /\ Len(q) >= 1 /\ DOMAIN q = 1..Len(q) /\ m = q[1]
        /\ DOMAIN rest = 1..(Len(q) - 1) /\ \A k \in 1..(Len(q) - 1) : rest[k] = q[k + 1]
        /\ rest \in Seq(Messages) /\ m \in Messages
    BY <1>1, <1>3
  <2>3. m \in Nat
    BY <2>2, ChatAssumption DEF Messages
  <2>4. page' \in Pages /\ page'.queue = rest
    BY <1>1, <2>1, <2>2, <2>3
  <2>5. /\ \A k \in DOMAIN q : q[k] \in Messages /\ turn[q[k]] = "queued"
        /\ \A j, k \in DOMAIN q : q[j] = q[k] => j = k
    BY <1>1, <2>2 DEF QueueFits
  <2> HIDE DEF q, m, rest
  <2>6. turn[m] = "queued" /\ turn'[m] = "posted" /\ \A n \in Messages : n # m => turn'[n] = turn[n]
    BY <1>1, <2>1, <2>2, <2>5
  <2>7. \A k \in DOMAIN rest : /\ k + 1 \in DOMAIN q /\ k + 1 # 1 /\ rest[k] = q[k + 1]
                               /\ 1 \in DOMAIN q
    BY <2>2
  <2>8. \A k \in DOMAIN rest : rest[k] \in Messages /\ rest[k] # m /\ turn'[rest[k]] = "queued"
    BY <2>2, <2>5, <2>6, <2>7
  <2>9. \A j, k \in DOMAIN rest : rest[j] = rest[k] => j = k
    BY <2>2, <2>5, <2>7
  <2>10. QueueFits'
    BY <2>4, <2>8, <2>9 DEF QueueFits
  <2>11. \A n \in Messages : /\ turn[n] \notin Unsent => turn'[n] \notin Unsent
                             /\ turn'[n] \in Speaking => turn[n] \in Speaking
    BY <2>6 DEF Unsent, Speaking
  <2> QED
    BY <2>4, <2>10, <2>11, NothingSaid
<1> QED
  BY <1>2, <1>3

\* A message is sent to a session no turn holds.
LEMMA SendKeepsTalk ==
  ASSUME ChatInv, TalkInv, NEW m \in Messages, Send(m)
  PROVE  TalkInv'
<1>1. /\ DOMAIN turn = Messages /\ turn[m] = "posted" /\ page' = page
      /\ DOMAIN session = {"known", "busy", "draft", "texts", "scenario", "transcript", "history"}
  BY DEF ChatInv, ChatShapes, Send
<1>2. CASE session' = session /\ told' = told /\ turn' = [turn EXCEPT ![m] = "ended"]
  <2>1. MovesOn(m)
    BY <1>1, <1>2 DEF MovesOn
  <2> QED
    BY <1>1, <1>2, <2>1, TurnsMoveOn
<1>3. CASE /\ ~ Busy
           /\ session' = [session EXCEPT !.busy = TRUE,
                            !.transcript = Append(@, [role |-> "user", of |-> m])]
           /\ told' = [told EXCEPT ![m] = Len(session.history)]
           /\ turn' = [turn EXCEPT ![m] = "thinking"]
  <2> DEFINE said == session.transcript
             e == [role |-> "user", of |-> m]
             longer == Append(said, e)
  <2>1. session'.transcript = longer /\ session'.history = session.history
    BY <1>1, <1>3
  <2>2. /\ said \in Seq(Entries) /\ session.history \in Seq(Messages) /\ told \in [Messages -> Nat]
        /\ page \in [open : BOOLEAN, busy : BOOLEAN, queue : Seq(Messages), reading : Nat]
        /\ QueueFits /\ SaidFits /\ page.queue \in Seq(Messages)
    BY DEF TalkInv, TalkTypes
  <2>3. e \in Entries /\ e.of = m
    BY DEF Entries
  <2>4. /\ Len(said) \in Nat /\ DOMAIN said = 1..Len(said) /\ Len(longer) = Len(said) + 1
        /\ DOMAIN longer = 1..(Len(said) + 1) /\ longer \in Seq(Entries)
        /\ longer[Len(said) + 1] = e /\ longer # <<>>
        /\ \A k \in 1..Len(said) : longer[k] = said[k]
    <3>1. said \in Seq(Entries) /\ e \in Entries
      BY <2>2, <2>3
    <3> HIDE DEF said, e
    <3>2. /\ Len(said) \in Nat /\ DOMAIN said = 1..Len(said) /\ Len(longer) = Len(said) + 1
          /\ longer \in Seq(Entries) /\ longer[Len(said) + 1] = e
          /\ \A k \in 1..Len(said) : longer[k] = said[k]
      BY <3>1
    <3>3. DOMAIN longer = 1..(Len(said) + 1)
      BY <3>2
    <3>4. longer # <<>>
      <4>1. Len(longer) # 0
        BY <3>2
      <4> HIDE DEF longer
      <4> QED
        BY <4>1
    <3> QED
      BY <3>2, <3>3, <3>4
  <2>5. /\ turn'[m] = "thinking"
        /\ \A n \in Messages : n # m => turn'[n] = turn[n] /\ turn[n] \notin Going
    BY <1>1, <1>3 DEF ChatInv, OneTurn, Busy
  <2>6. \A i \in DOMAIN said : said[i].of \in Messages /\ turn[said[i].of] \notin Unsent
                               /\ said[i].of # m
    <3>1. \A i \in DOMAIN said : said[i] \in Entries
      BY <2>2
    <3> QED
      BY <1>1, <2>2, <3>1 DEF Entries, SaidFits, Unsent
  <2>7. InOrder(said, session.history, told)
    BY SameOrder DEF TalkInv
  <2>8. InOrder(longer, session.history, [told EXCEPT ![m] = Len(session.history)])
    BY <2>2, <2>6, <2>7, SentInOrder
  <2>9. told' \in [Messages -> Nat]
    BY <1>3, <2>2
  <2> HIDE DEF said, e, longer
  <2>10. TalkTypes'
    BY <1>1, <2>1, <2>2, <2>4, <2>9 DEF TalkTypes
  <2>11. QueueFits'
    <3>1. \A k \in DOMAIN page.queue : page.queue[k] \in Messages
      BY <2>2
    <3> QED
      BY <1>1, <2>2, <2>5, <3>1 DEF QueueFits
  <2>12. SaidFits'
    <3>1. \A i \in DOMAIN longer : i = Len(said) + 1 \/ i \in DOMAIN said
      BY <2>4
    <3>2. \A i \in DOMAIN longer : turn'[longer[i].of] \notin Unsent
      BY <2>3, <2>4, <2>5, <2>6, <3>1 DEF Unsent
    <3> QED
      BY <2>1, <3>2 DEF SaidFits
  <2>13. LastSaid'
    <3>1. \A n \in Messages : turn'[n] \in Speaking => n = m
      BY <2>5 DEF Speaking, Going
    <3>2. longer[Len(longer)] = [role |-> "user", of |-> m]
      BY <2>4 DEF e
    <3> QED
      BY <2>1, <2>4, <3>1, <3>2 DEF LastSaid
  <2>14. ConversationInOrder'
    <3>1. ConversationInOrder' <=> InOrder(session'.transcript, session'.history, told')
      BY DEF ConversationInOrder, InOrder, Answers, AnswersIn
    <3> QED
      BY <1>3, <2>1, <2>8, <3>1
  <2> QED
    BY <2>10, <2>11, <2>12, <2>13, <2>14 DEF TalkInv
<1> QED
  BY <1>2, <1>3 DEF Send

\* The answer follows the message its turn was about.
LEMMA AnswerKeepsTalk ==
  ASSUME ChatInv, TalkInv, NEW m \in Messages, Answer(m)
  PROVE  TalkInv'
<1> DEFINE said == session.transcript
           e == [role |-> "assistant", of |-> m]
           longer == Append(said, e)
           all == Append(session.history, m)
<1>1. /\ DOMAIN turn = Messages /\ turn[m] = "thinking" /\ page' = page /\ told' = told
      /\ turn' = [turn EXCEPT ![m] = "answered"]
      /\ DOMAIN session = {"known", "busy", "draft", "texts", "scenario", "transcript", "history"}
  BY DEF ChatInv, ChatShapes, Answer
<1>2. session'.transcript = longer /\ session'.history = all
  BY <1>1 DEF Answer
<1>3. /\ said \in Seq(Entries) /\ session.history \in Seq(Messages) /\ told \in [Messages -> Nat]
      /\ page \in [open : BOOLEAN, busy : BOOLEAN, queue : Seq(Messages), reading : Nat]
      /\ QueueFits /\ SaidFits /\ LastSaid /\ page.queue \in Seq(Messages)
  BY DEF TalkInv, TalkTypes
<1>4. e \in Entries /\ e.of = m
  BY DEF Entries
<1>5. /\ Len(said) \in Nat /\ DOMAIN said = 1..Len(said) /\ Len(longer) = Len(said) + 1
      /\ DOMAIN longer = 1..(Len(said) + 1) /\ longer \in Seq(Entries)
      /\ longer[Len(said) + 1] = e /\ all \in Seq(Messages)
      /\ \A k \in 1..Len(said) : longer[k] = said[k]
  BY <1>3, <1>4
<1>6. /\ turn'[m] = "answered"
      /\ \A n \in Messages : n # m => turn'[n] = turn[n] /\ turn[n] \notin Going
  <2>1. turn[m] \in Going
    BY <1>1 DEF Going
  <2> QED
    BY <1>1, <2>1 DEF ChatInv, OneTurn
<1>7. said # <<>> /\ said[Len(said)] = [role |-> "user", of |-> m]
  BY <1>1, <1>3 DEF LastSaid, Speaking
<1>8. InOrder(said, session.history, told)
  BY SameOrder DEF TalkInv
<1>9. InOrder(longer, all, told)
  BY <1>3, <1>7, <1>8, AnsweredInOrder
<1>10. \A i \in DOMAIN said : said[i].of \in Messages /\ turn[said[i].of] \notin Unsent
  <2>1. \A i \in DOMAIN said : said[i] \in Entries
    BY <1>3
  <2> QED
    BY <1>3, <2>1 DEF Entries, SaidFits
<1> HIDE DEF said, e, longer, all
<1>11. TalkTypes'
  BY <1>1, <1>2, <1>3, <1>5 DEF TalkTypes
<1>12. QueueFits'
  <2>1. \A k \in DOMAIN page.queue : page.queue[k] \in Messages
    BY <1>3
  <2> QED
    BY <1>1, <1>3, <1>6, <2>1 DEF QueueFits
<1>13. SaidFits'
  <2>1. \A i \in DOMAIN longer : i = Len(said) + 1 \/ i \in DOMAIN said
    BY <1>5
  <2>2. \A i \in DOMAIN longer : turn'[longer[i].of] \notin Unsent
    BY <1>4, <1>5, <1>6, <1>10, <2>1 DEF Unsent
  <2> QED
    BY <1>2, <2>2 DEF SaidFits
<1>14. LastSaid'
  <2>1. \A n \in Messages : turn'[n] \notin Speaking
    BY <1>6 DEF Speaking, Going
  <2> QED
    BY <2>1 DEF LastSaid, Speaking
<1>15. ConversationInOrder'
  <2>1. ConversationInOrder' <=> InOrder(session'.transcript, session'.history, told')
    BY DEF ConversationInOrder, InOrder, Answers, AnswersIn
  <2> QED
    BY <1>1, <1>2, <1>9, <2>1
<1> QED
  BY <1>11, <1>12, <1>13, <1>14, <1>15 DEF TalkInv

LEMMA TalkInvHolds == ChatInit => TalkInv
<1> SUFFICES ASSUME ChatInit PROVE TalkInv
  OBVIOUS
<1>1. /\ session.transcript = <<>> /\ session.history = <<>> /\ page.queue = <<>>
      /\ page = [open |-> TRUE, busy |-> FALSE, queue |-> <<>>, reading |-> 0]
      /\ told = [m \in Messages |-> 0] /\ turn = [m \in Messages |-> "none"]
  BY DEF ChatInit
<1>2. TalkTypes /\ QueueFits /\ SaidFits /\ LastSaid
  BY <1>1 DEF TalkTypes, QueueFits, SaidFits, LastSaid, Speaking
<1>3. ConversationInOrder
  <2>1. {k \in 1..0 : session.transcript[k].role = "assistant"} = {}
    OBVIOUS
  <2>2. Answers(Len(session.transcript)) = 0
    BY <1>1, <2>1, FS_EmptySet DEF Answers
  <2> QED
    BY <1>1, <2>2 DEF ConversationInOrder
<1> QED
  BY <1>2, <1>3 DEF TalkInv

LEMMA TalkStep ==
  ASSUME ChatInv, TalkInv, [ChatNext]_chatVars
  PROVE  TalkInv'
<1>1. ASSUME NEW m \in Messages, Compose(m) PROVE TalkInv'
  BY <1>1, ComposeKeepsTalk
<1>2. ASSUME NEW m \in Messages, ReadEnd(m) \/ LoseConnection(m) PROVE TalkInv'
  BY <1>2, GoOnKeepsTalk DEF ReadEnd, LoseConnection
<1>3. ASSUME NEW m \in Messages, Assist(m) PROVE TalkInv'
  BY <1>3, SendKeepsTalk, AnswerKeepsTalk, OthersSayNothing DEF Assist
<1>4. CASE UserActs
  BY <1>4, OthersSayNothing
<1>5. CASE UNCHANGED chatVars
  <2>1. UNCHANGED <<told, session, page, turn>>
    BY <1>5 DEF chatVars
  <2> QED
    BY <2>1, TurnsMoveOn
<1> QED
  BY <1>1, <1>2, <1>3, <1>4, <1>5 DEF ChatNext

-----------------------------------------------------------------------------
(***************************************************************************)
(* The theorems.                                                           *)
(***************************************************************************)

\* Whoever drives, players and conversation stay as they should be between any
\* two steps.
THEOREM DriversInvariant == DriversSpec => [](PlayersInv /\ ChatInv)
<1>1. DriversInit => PlayersInv /\ ChatInv
  BY PlayersInvHolds, ChatInvHolds DEF DriversInit
<1>2. ASSUME PlayersInv /\ ChatInv, [DriversNext]_driversVars PROVE (PlayersInv /\ ChatInv)'
  <2>1. [Next]_vars /\ [ChatNext]_chatVars
    BY <1>2 DEF DriversNext, PlayerStep, AssistantStep, ConversationRests, driversVars
  <2> QED
    BY <1>2, <2>1, PlayersStep, ChatStep
<1> QED
  BY <1>1, <1>2, PTL DEF DriversSpec

\* A command that reports no error has played all its scenario in time, and
\* nobody holds a run between two (cmd/deadlocker/cli.go, agentapi/jobs.go).
THEOREM PlaysAreAccounted == DriversSpec => []RunsAccounted
<1>1. PlayersInv => RunsAccounted
  <2> SUFFICES ASSUME PlayersInv PROVE CleanMeansPlayed /\ NoRunLeft
    BY DEF RunsAccounted
  <2>1. CleanMeansPlayed
    BY DEF PlayersInv, PlayerFits, CleanMeansPlayed
  <2>2. NoRunLeft
    BY DEF PlayersInv, PlayerFits, NoRunLeft
  <2> QED
    BY <2>1, <2>2
<1> QED
  BY <1>1, DriversInvariant, PTL

\* A shrink drops a step after a run that showed it to be spared, unless it
\* looked for a wait and was cancelled (agentapi/jobs.go, reproduces).
THEOREM ReductionIsVerified == DriversSpec => []ReductionVerified
<1>1. PlayersInv => ReductionVerified
  BY DEF PlayersInv, PlayerFits, ReductionVerified
<1> QED
  BY <1>1, DriversInvariant, PTL

\* After a stop the assistant submits at most the statement it was about to
\* (chat/tools.go, TakeInterrupt).
THEOREM StopIsHeeded == DriversSpec => []StopHeeded
<1>1. ChatInv => StopHeeded
  BY DEF ChatInv, StopFits, StopHeeded
<1> QED
  BY <1>1, DriversInvariant, PTL

\* Unless two saves overlapped, one scenario was made and no newer text
\* replaced by an older (agentapi/api.go and web/api.go, saving a draft).
THEOREM SavesAreUpdates == DriversSpec => []SavesUpdate
<1>1. ChatInv => SavesUpdate
  BY DEF ChatInv, SavesFit, SavesUpdate
<1> QED
  BY <1>1, DriversInvariant, PTL

\* An answer follows the message it answers, a turn was given all the answers
\* before it, and the model's history is those answers in order, whatever becomes
\* of the page meanwhile (chat/chat.go, Send).
THEOREM ConversationStaysOne == DriversSpec => []ConversationInOrder
<1>1. DriversInit => TalkInv
  BY TalkInvHolds DEF DriversInit
<1>2. ASSUME PlayersInv /\ ChatInv, TalkInv, [DriversNext]_driversVars PROVE TalkInv'
  <2>1. [ChatNext]_chatVars
    BY <1>2 DEF DriversNext, PlayerStep, AssistantStep, ConversationRests, driversVars
  <2> QED
    BY <1>2, <2>1, TalkStep
<1>3. TalkInv => ConversationInOrder
  BY DEF TalkInv
<1> QED
  BY <1>1, <1>2, <1>3, DriversInvariant, PTL DEF DriversSpec
=============================================================================
