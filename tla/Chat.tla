-------------------------------- MODULE Chat --------------------------------
(***************************************************************************)
(* A conversation with the built-in assistant: the builder's composer      *)
(* (web/static/chatcore.js, assistant.js), the session and its turns       *)
(* (internal/chat/chat.go and the handlers in internal/web/api.go), the    *)
(* assistant's tools (internal/chat/tools.go) and what they do to the      *)
(* draft, the library and a run (internal/agentapi/api.go).                *)
(*                                                                         *)
(* The language model is any model: a turn calls tools in any order, one   *)
(* after the other, and ends with an answer or an error.  Messages are     *)
(* numbered as they are written, texts of the draft as they appear.        *)
(***************************************************************************)
EXTENDS Naturals, Sequences, SequencesExt

CONSTANTS
  MaxMessages,  \* bound: messages written
  MaxCalls,     \* LLMConfig.Steps(): tool calls of a turn
  MaxTexts,     \* bound: texts of the draft
  RunSteps      \* steps of a run

ASSUME ChatAssumption ==
  MaxMessages \in Nat /\ MaxCalls \in Nat /\ MaxTexts \in Nat /\ RunSteps \in Nat

Messages == 1..MaxMessages

VARIABLES
  page,      \* the builder: whether it is open and the composer busy, the
             \* messages queued, and the one whose answer it reads
  turn,      \* turn[m]: how far m has come
  outcome,   \* outcome[m]: what the page was told became of it
  calls,     \* calls[m]: tools m's turn has called
  told,      \* told[m]: how much of the history m's turn was given
  session,   \* chat.Session, and whether the service still knows it
  saving,    \* saving[s]: the save under way, of a turn or (0) of the user
  created,   \* scenarios created
  file,      \* the text last saved
  older,     \* whether a save ever replaced a newer text
  overlap,   \* whether two saves ever overlapped
  run,       \* the run the assistant drives
  overrun,      \* statements it submitted since a stop that is still pending
  lost       \* whether the page ever lost its connection

chatVars == <<page, turn, outcome, calls, told, session, saving, created, file, older, overlap, run, overrun, lost>>
savedVars == <<saving, created, file, older, overlap>>
drivenVars == <<run, overrun>>

NoRun == [open |-> FALSE, steps |-> 0, interrupt |-> FALSE]
NoSave == [text |-> 0, create |-> FALSE, under |-> FALSE]

ChatInit ==
  /\ page = [open |-> TRUE, busy |-> FALSE, queue |-> <<>>, reading |-> 0]
  /\ turn = [m \in Messages |-> "none"] /\ outcome = [m \in Messages |-> "none"]
  /\ calls = [m \in Messages |-> 0] /\ told = [m \in Messages |-> 0]
  /\ \E given \in BOOLEAN :   \* a scenario and its run are given, or neither
       /\ session = [known |-> TRUE, busy |-> FALSE, draft |-> 0, texts |-> 0,
                     scenario |-> given, transcript |-> <<>>, history |-> <<>>]
       /\ run = [NoRun EXCEPT !.open = given]
  /\ saving = [s \in {0} \union Messages |-> NoSave] /\ created = 0 /\ overlap = FALSE
  /\ file = 0 /\ older = FALSE
  /\ overrun = 0
  /\ lost = FALSE

-----------------------------------------------------------------------------
(***************************************************************************)
(* The composer.                                                           *)
(***************************************************************************)

Written == {m \in Messages : turn[m] # "none"}

\* submit: what is typed while a reply is streaming is queued.
Compose(m) ==
  /\ page.open /\ Written = 1..(m - 1)
  /\ IF page.busy
     THEN /\ page' = [page EXCEPT !.queue = Append(@, m)]
          /\ turn' = [turn EXCEPT ![m] = "queued"]
     ELSE /\ page' = [page EXCEPT !.busy = TRUE, !.reading = m]
          /\ turn' = [turn EXCEPT ![m] = "posted"]
  /\ UNCHANGED <<outcome, calls, told, session, savedVars, drivenVars, lost>>

\* The stream is over, however it ended: the next one in the queue is sent.
GoOn ==
  IF page.queue = <<>>
  THEN page' = [page EXCEPT !.busy = FALSE, !.reading = 0] /\ UNCHANGED turn
  ELSE /\ page' = [page EXCEPT !.reading = Head(page.queue), !.queue = Tail(@)]
       /\ turn' = [turn EXCEPT ![Head(page.queue)] = "posted"]

\* A fault to seed: the `done' event is taken for the end of the stream.
DoneIsEnd(m) == turn[m] \in {"answered", "ended"}

StreamEnded(m) == turn[m] = "ended"

ReadEnd(m) ==
  /\ page.open /\ page.reading = m /\ StreamEnded(m)
  /\ GoOn
  /\ UNCHANGED <<outcome, calls, told, session, savedVars, drivenVars, lost>>

\* Bound: once.
LoseConnection(m) ==
  /\ page.open /\ page.reading = m /\ turn[m] # "ended" /\ ~ lost
  /\ lost' = TRUE
  /\ GoOn
  /\ UNCHANGED <<outcome, calls, told, session, savedVars, drivenVars>>

\* finishClose: the stream is aborted, the session discarded.
CloseBuilder ==
  /\ page.open
  /\ page' = [page EXCEPT !.open = FALSE]
  /\ session' = [session EXCEPT !.known = FALSE]
  /\ UNCHANGED <<turn, outcome, calls, told, savedVars, drivenVars, lost>>

\* NewSession of a fiftieth session since: the oldest is forgotten.
ForgetSession ==
  /\ session.known
  /\ session' = [session EXCEPT !.known = FALSE]
  /\ UNCHANGED <<page, turn, outcome, calls, told, savedVars, drivenVars, lost>>

-----------------------------------------------------------------------------
(***************************************************************************)
(* A turn.                                                                 *)
(***************************************************************************)

\* A fault to seed: a session takes any message.
BusyIgnored == FALSE

Busy == session.busy

\* handleChatSend and Send up to the call of the model.
Send(m) ==
  /\ turn[m] = "posted"
  /\ \/ /\ session.known /\ ~ Busy
        /\ session' = [session EXCEPT !.busy = TRUE,
                         !.transcript = Append(@, [role |-> "user", of |-> m])]
        /\ told' = [told EXCEPT ![m] = Len(session.history)]
        /\ turn' = [turn EXCEPT ![m] = "thinking"]
        /\ UNCHANGED outcome
     \/ /\ ~ session.known \/ Busy
        /\ turn' = [turn EXCEPT ![m] = "ended"]
        /\ outcome' = [outcome EXCEPT ![m] = "refused"]
        /\ UNCHANGED <<session, told>>
     \/ /\ turn' = [turn EXCEPT ![m] = "ended"]   \* no model is configured
        /\ outcome' = [outcome EXCEPT ![m] = "error"]
        /\ UNCHANGED <<session, told>>
  /\ UNCHANGED <<page, calls, savedVars, drivenVars, lost>>

\* The model has answered: the exchange becomes part of the history.
Answer(m) ==
  /\ turn[m] = "thinking"
  /\ session' = [session EXCEPT !.history = Append(@, m),
                   !.transcript = Append(@, [role |-> "assistant", of |-> m])]
  /\ turn' = [turn EXCEPT ![m] = "answered"]
  /\ UNCHANGED <<page, outcome, calls, told, savedVars, drivenVars, lost>>

Release(m, becomes) ==
  /\ session' = [session EXCEPT !.busy = FALSE]
  /\ turn' = [turn EXCEPT ![m] = "ended"]
  /\ outcome' = [outcome EXCEPT ![m] = becomes]
  /\ UNCHANGED <<page, calls, told, savedVars, drivenVars, lost>>

\* Send returns, and with it the handler.
Returns(m) == turn[m] = "answered" /\ Release(m, "answer")

\* The model cannot be reached, fails, takes too long, or the page has gone.
Fails(m) == turn[m] = "thinking" /\ Release(m, "error")

-----------------------------------------------------------------------------
(***************************************************************************)
(* The draft, and saving it.                                               *)
(***************************************************************************)

\* A new text takes the place of the draft, whoever it comes from.
NewDraft == session.texts < MaxTexts
            /\ session' = [session EXCEPT !.texts = @ + 1, !.draft = session.texts + 1]

MayCall(m) == turn[m] = "thinking" /\ calls[m] < MaxCalls
Called(m) == calls' = [calls EXCEPT ![m] = @ + 1]

\* set_draft, of a text that parses.
SetDraft(m) ==
  /\ MayCall(m) /\ Called(m) /\ NewDraft
  /\ UNCHANGED <<page, turn, outcome, told, savedVars, drivenVars, lost>>

\* handleChatDraft: the user's.
ApplyDraft ==
  /\ page.open /\ session.known /\ NewDraft
  /\ UNCHANGED <<page, turn, outcome, calls, told, savedVars, drivenVars, lost>>

\* save_draft and handleChatSaveDraft read the draft, and whether there is a
\* scenario to update ...
ReadDraft(s) ==
  /\ saving' = [saving EXCEPT ![s] =
                  [text |-> session.draft, create |-> ~ session.scenario, under |-> TRUE]]
  /\ overlap' = (overlap \/ \E other \in DOMAIN saving : saving[other].under)
  /\ UNCHANGED <<created, file, older>>

\* A fault to seed: the scenario that was created is not remembered.
WithoutScenario(s) == s

\* SetScenarioID.
WithScenario(s) == [s EXCEPT !.scenario = TRUE]

\* ... and create or update it, which may fail.
WriteDraft(s) ==
  /\ saving' = [saving EXCEPT ![s] = NoSave]
  /\ \/ /\ created' = created + (IF saving[s].create THEN 1 ELSE 0)
        /\ file' = saving[s].text
        /\ older' = (older \/ saving[s].text < file)
        /\ session' = WithScenario(session)
     \/ UNCHANGED <<created, file, older, session>>
  /\ UNCHANGED overlap

SaveDraft(m) ==
  /\ MayCall(m) /\ Called(m) /\ ReadDraft(m)
  /\ turn' = [turn EXCEPT ![m] = "saving"]
  /\ UNCHANGED <<page, outcome, told, session, drivenVars, lost>>

Saved(m) ==
  /\ turn[m] = "saving" /\ WriteDraft(m)
  /\ turn' = [turn EXCEPT ![m] = "thinking"]
  /\ UNCHANGED <<page, outcome, calls, told, drivenVars, lost>>

\* The user's save.  Bound: one at a time.
UserSave ==
  /\ page.open /\ session.known /\ ~ saving[0].under /\ ReadDraft(0)
  /\ UNCHANGED <<page, turn, outcome, calls, told, session, drivenVars, lost>>

UserSaved ==
  /\ saving[0].under /\ WriteDraft(0)
  /\ UNCHANGED <<page, turn, outcome, calls, told, drivenVars, lost>>

-----------------------------------------------------------------------------
(***************************************************************************)
(* The run.                                                                *)
(***************************************************************************)

\* run_draft: a run of the draft; the one before is left to itself.
RunDraft(m) ==
  /\ MayCall(m) /\ Called(m)
  /\ run' = [NoRun EXCEPT !.open = TRUE] /\ overrun' = 0
  /\ UNCHANGED <<page, turn, outcome, told, session, savedVars, lost>>

\* step_run and run_all.
StepRun(m) ==
  /\ MayCall(m) /\ Called(m) /\ run.open
  /\ turn' = [turn EXCEPT ![m] = "looking"]
  /\ UNCHANGED <<page, outcome, told, session, savedVars, drivenVars, lost>>

\* TakeInterrupt: a stop ends the call.
Look(m) ==
  /\ turn[m] = "looking"
  /\ run' = [run EXCEPT !.interrupt = FALSE] /\ overrun' = 0
  /\ turn' = [turn EXCEPT ![m] = IF run.interrupt THEN "thinking" ELSE "stepping"]
  /\ UNCHANGED <<page, outcome, calls, told, session, savedVars, lost>>

MayStep == run.open /\ run.steps < RunSteps

\* A fault to seed: a call looks for a stop once, when it begins.
ThenAnyway == {"stepping", "thinking"}

\* After a statement the next one is looked at, unless that was the count.
Then == {"looking", "thinking"}

\* Run.Step.
Step(m) ==
  /\ turn[m] = "stepping" /\ MayStep
  /\ run' = [run EXCEPT !.steps = @ + 1]
  /\ overrun' = IF run.interrupt THEN overrun + 1 ELSE overrun
  /\ \E next \in Then : turn' = [turn EXCEPT ![m] = next]
  /\ UNCHANGED <<page, outcome, calls, told, session, savedVars, lost>>

\* There are no more steps, the next one's actor waits, or the run is closed.
StepRunStops(m) ==
  /\ turn[m] = "stepping"
  /\ turn' = [turn EXCEPT ![m] = "thinking"]
  /\ UNCHANGED <<page, outcome, calls, told, session, savedVars, drivenVars, lost>>

\* close_run; the user closes it, or it is evicted.
CloseTheRun ==
  /\ run.open /\ run' = NoRun /\ overrun' = 0
  /\ UNCHANGED <<page, turn, outcome, calls, told, session, savedVars, lost>>

\* The user's Stop.
StopRun ==
  /\ run.open /\ run' = [run EXCEPT !.interrupt = TRUE]
  /\ UNCHANGED <<page, turn, outcome, calls, told, session, savedVars, overrun, lost>>

-----------------------------------------------------------------------------
\* What the program does of its own once it is begun.
Assist(m) ==
  \/ Send(m) \/ Answer(m) \/ Returns(m) \/ Fails(m) \/ SetDraft(m) \/ SaveDraft(m) \/ Saved(m)
  \/ RunDraft(m) \/ StepRun(m) \/ Look(m) \/ Step(m) \/ StepRunStops(m)

UserActs ==
  \/ CloseBuilder \/ ForgetSession \/ ApplyDraft \/ UserSave \/ UserSaved
  \/ CloseTheRun \/ StopRun

ChatNext ==
  \/ \E m \in Messages : Compose(m) \/ ReadEnd(m) \/ LoseConnection(m) \/ Assist(m)
  \/ UserActs

ChatFairness == \A m \in Messages : WF_chatVars(Assist(m)) /\ WF_chatVars(ReadEnd(m))

-----------------------------------------------------------------------------
\* How many answers are among the first of what was said.
Answers(i) == Cardinality({k \in 1..i : session.transcript[k].role = "assistant"})

(***************************************************************************)
(* The conversation stays one: an answer follows the message it answers,   *)
(* what the model is given next time is exactly what was answered, in      *)
(* order, and a turn was given all of it.  One turn at a time sees to      *)
(* that, though a page may have lost sight of a turn that goes on.         *)
(***************************************************************************)
ConversationInOrder ==
  LET said == session.transcript IN
  /\ Len(session.history) = Answers(Len(said))
  /\ \A i \in DOMAIN said :
       \/ said[i].role = "user" /\ told[said[i].of] = Answers(i)
       \/ /\ said[i].role = "assistant" /\ session.history[Answers(i)] = said[i].of
          /\ i > 1 /\ said[i - 1] = [role |-> "user", of |-> said[i].of]

(***************************************************************************)
(* A stop is heeded: the assistant submits at most the one statement it    *)
(* was about to, whether the stop comes during a call or between two.      *)
(***************************************************************************)
StopHeeded == overrun <= 1

(***************************************************************************)
(* A session makes one scenario at most and its text only moves on: once   *)
(* one was saved, whoever saves next updates it with the draft both share, *)
(* unless two saves overlapped.                                            *)
(***************************************************************************)
SavesUpdate == overlap \/ (created <= 1 /\ ~ older)

(***************************************************************************)
(* Every message is heard, those typed during a reply too, which "will     *)
(* send when this reply finishes" (chatcore.js): it is answered, or the    *)
(* page is told why not, and it is refused only if the page lost its       *)
(* connection to a turn that goes on, or the session is gone.              *)
(***************************************************************************)
MessagesHeard ==
  \A m \in Messages : turn[m] # "none" ~>
    \/ turn[m] = "ended" /\ (outcome[m] \in {"answer", "error"} \/ lost \/ ~ session.known)
    \/ ~ page.open
=============================================================================
