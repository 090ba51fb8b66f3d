------------------------------ MODULE Registry ------------------------------
(***************************************************************************)
(* The register of live runs and the log of what became of them            *)
(* (internal/engine/manager.go and history.go), with the handlers of       *)
(* internal/web that start, close, forget and clear runs.                  *)
(*                                                                         *)
(* What a run does inside is the business of module Run.  Here it is made, *)
(* set up, advances and is closed; `news' counts what happened to it, so   *)
(* that two snapshots of it can be told apart by age.  The register and    *)
(* the log have a lock each and a run has its own: a record is put together *)
(* under one lock after the other and written under a third.               *)
(***************************************************************************)
EXTENDS Integers, FiniteSets, Sequences, SequencesExt

CONSTANTS
  Runs,           \* the ids runs are given; an id is never given twice
  Starters,       \* handlers that start runs, one after another
  Users,          \* handlers that close runs, forget them, clear the log
  Steppers,       \* goroutines that advance a run and publish its state
  MaxRuns,        \* how many runs stay resident (maxRuns)
  HistoryLimit,   \* how many records are kept (historyLimitRuns)
  MaxNews         \* bound: things that happen to a run besides its setup

NoRun == "no run"

\* A registered run's Setup has a goroutine of its own, named after the run.
Hands == Starters \union Users \union Steppers \union Runs

ASSUME RegistryAssumption ==
  /\ MaxRuns \in Nat \ {0} /\ HistoryLimit \in Nat \ {0} /\ MaxNews \in Nat
  /\ IsFiniteSet(Starters)
  /\ NoRun \notin Runs
  /\ Starters \intersect (Users \union Steppers \union Runs) = {}
  /\ Users \intersect (Steppers \union Runs) = {}
  /\ Steppers \intersect Runs = {}

VARIABLES
  order,    \* the registered runs, oldest first; the keys of Manager.runs
  \* runs
  status, closed, hooked, news,
  \* the log: ids oldest first, and the news each record goes up to
  logged, record,
  \* hands
  pc,
  job,      \* job[h]: the run h is starting, setting up, advancing or retiring
  mine,     \* mine[s]: the run starter s is about to register
  snap,     \* snap[h]: the news that the record h is about to write goes up to
  then,     \* then[h]: what h does once its snapshot is in the log
  todo,     \* todo[h]: what is left of the list h works through
  \* what the properties remember
  shaken    \* runs whose record a late writer, or the log's pruning, spoilt

runVars == <<status, closed, hooked, news>>
logVars == <<logged, record>>
handVars == <<pc, job, mine, snap, then, todo>>
vars == <<order, runVars, logVars, handVars, shaken>>

News == 0..(MaxNews + 1)

TypeOK ==
  /\ order \in Seq(Runs)
  /\ status \in [Runs -> {"none", "preparing", "ready", "failed", "closed"}]
  /\ closed \in [Runs -> BOOLEAN] /\ hooked \in [Runs -> BOOLEAN]
  /\ news \in [Runs -> News]
  /\ logged \in Seq(Runs)
  /\ record \in [Runs -> News]
  /\ pc \in [Hands -> {"idle", "make", "setup", "publish", "snapshot", "put",
                       "hook", "register", "retire", "closing", "close", "list", "forget"}]
  /\ job \in [Hands -> Runs \union {NoRun}]
  /\ mine \in [Starters -> Runs \union {NoRun}]
  /\ snap \in [Hands -> News]
  /\ then \in [Hands -> {"idle", "close", "register", "setup", "hook"}]
  /\ todo \in [Hands -> SUBSET Runs]
  /\ shaken \subseteq Runs

Init ==
  /\ order = <<>>
  /\ status = [r \in Runs |-> "none"]
  /\ closed = [r \in Runs |-> FALSE] /\ hooked = [r \in Runs |-> FALSE]
  /\ news = [r \in Runs |-> 0]
  /\ logged = <<>>
  /\ record = [r \in Runs |-> 0]
  /\ pc = [h \in Hands |-> "idle"]
  /\ job = [h \in Hands |-> NoRun]
  /\ mine = [s \in Starters |-> NoRun]
  /\ snap = [h \in Hands |-> 0]
  /\ then = [h \in Hands |-> "idle"]
  /\ todo = [h \in Hands |-> {}]
  /\ shaken = {}

-----------------------------------------------------------------------------
(***************************************************************************)
(* A record is put together and written (snapshotRecord, History.Put).     *)
(***************************************************************************)

\* What h was doing is done, and it turns to what comes next; a run that it has
\* nothing more to do with it lets go of.
TurnTo(h, next) ==
  /\ pc' = [pc EXCEPT ![h] = next]
  /\ then' = [then EXCEPT ![h] = "idle"]
  /\ job' = [job EXCEPT ![h] = IF next \in {"close", "setup"} THEN @ ELSE NoRun]

\* snapshotRecord: what the run is at now.  (It asks the run twice, for its
\* state and for its steps; the second answer can only be newer.)
Snapshot(h) ==
  /\ pc[h] = "snapshot"
  /\ snap' = [snap EXCEPT ![h] = news[job[h]]]
  /\ pc' = [pc EXCEPT ![h] = "put"]
  /\ UNCHANGED <<order, runVars, logVars, job, mine, then, todo, shaken>>

Logged == Range(logged)

\* A record written over a newer one.
Regresses(r, rec) ==
  r \in Logged /\ rec < record[r]

\* History.Put: the record replaces the one there is, whatever its age; a new
\* one pushes the oldest out once there are too many.
Put(h) ==
  LET r == job[h]
      grown == IF r \in Logged THEN logged ELSE Append(logged, r)
      full == Len(grown) > HistoryLimit
  IN /\ pc[h] = "put"
     /\ record' = IF full THEN [record EXCEPT ![r] = snap[h], ![Head(grown)] = 0]
                          ELSE [record EXCEPT ![r] = snap[h]]
     /\ logged' = IF full THEN Tail(grown) ELSE grown
     /\ shaken' = shaken \union (IF Regresses(r, snap[h]) THEN {r} ELSE {})
                         \union (IF full THEN {Head(grown)} ELSE {})
     /\ snap' = [snap EXCEPT ![h] = 0]
     /\ TurnTo(h, then[h])
     /\ UNCHANGED <<order, runVars, mine, todo>>

\* A fault to seed: a run publishes its state though it was closed.
PublishAlways(h) ==
  /\ pc[h] = "publish"
  /\ IF hooked[job[h]]
     THEN pc' = [pc EXCEPT ![h] = "snapshot"] /\ UNCHANGED <<job, then>>
     ELSE TurnTo(h, then[h])
  /\ UNCHANGED <<order, runVars, logVars, mine, snap, todo, shaken>>

\* Run.publishState, and the hook the manager left: nothing once closed.
Publish(h) ==
  /\ pc[h] = "publish"
  /\ IF hooked[job[h]] /\ ~ closed[job[h]]
     THEN pc' = [pc EXCEPT ![h] = "snapshot"] /\ UNCHANGED <<job, then>>
     ELSE TurnTo(h, then[h])
  /\ UNCHANGED <<order, runVars, logVars, mine, snap, todo, shaken>>

-----------------------------------------------------------------------------
(***************************************************************************)
(* Starting a run.                                                         *)
(***************************************************************************)

\* A fault to seed: the register makes no room.
EvictNone(s) ==
  /\ pc[s] = "idle"
  /\ \E r \in Runs : status[r] = "none"
  /\ pc' = [pc EXCEPT ![s] = "make"]
  /\ UNCHANGED <<order, runVars, logVars, job, mine, snap, then, todo, shaken>>

\* A fault to seed: the evicted run is taken for closed.
EvictOnly(s) ==
  /\ pc[s] = "idle"
  /\ \E r \in Runs : status[r] = "none"
  /\ order' = IF Len(order) >= MaxRuns THEN Tail(order) ELSE order
  /\ pc' = [pc EXCEPT ![s] = "make"]
  /\ UNCHANGED <<runVars, logVars, job, mine, snap, then, todo, shaken>>

\* evictIfNeeded: the oldest run leaves the register, one at most, to be
\* recorded and closed.  The run to come is not registered yet.
Evict(s) ==
  /\ pc[s] = "idle"
  /\ \E r \in Runs : status[r] = "none"
  /\ IF Len(order) >= MaxRuns
     THEN /\ order' = Tail(order)
          /\ job' = [job EXCEPT ![s] = Head(order)]
          /\ then' = [then EXCEPT ![s] = "close"]
          /\ pc' = [pc EXCEPT ![s] = "snapshot"]
     ELSE /\ pc' = [pc EXCEPT ![s] = "make"]
          /\ UNCHANGED <<order, job, then>>
  /\ UNCHANGED <<runVars, logVars, mine, snap, todo, shaken>>

\* New: the run exists, and is known to its starter only.
Make(s, r) ==
  /\ pc[s] = "make"
  /\ status[r] = "none"
  /\ status' = [status EXCEPT ![r] = "preparing"]
  /\ job' = [job EXCEPT ![s] = r]
  /\ mine' = [mine EXCEPT ![s] = r]

\* newRunID can fail: nothing is started, whatever was evicted for it.
MakeFails(s) ==
  /\ pc[s] = "make"
  /\ pc' = [pc EXCEPT ![s] = "idle"]
  /\ UNCHANGED <<order, runVars, logVars, job, mine, snap, then, todo, shaken>>

\* StartAsync: on record before it is registered, registered before it is set up.
StartAsync(s, r) ==
  /\ Make(s, r)
  /\ hooked' = [hooked EXCEPT ![r] = TRUE]
  /\ pc' = [pc EXCEPT ![s] = "snapshot"]
  /\ then' = [then EXCEPT ![s] = "register"]
  /\ UNCHANGED <<order, closed, news, logVars, snap, todo, shaken>>

\* Start: set up first, in nobody's sight.
Start(s, r) ==
  /\ Make(s, r)
  /\ pc' = [pc EXCEPT ![s] = "setup"]
  /\ UNCHANGED <<order, closed, hooked, news, logVars, snap, then, todo, shaken>>

\* A fault to seed: a run that was started the slow way never reports.
HookNone(s) ==
  /\ pc[s] = "hook"
  /\ job' = [job EXCEPT ![s] = mine[s]]
  /\ pc' = [pc EXCEPT ![s] = "snapshot"]
  /\ then' = [then EXCEPT ![s] = "register"]
  /\ UNCHANGED <<order, runVars, logVars, mine, snap, todo, shaken>>

\* Start: the hook that keeps the record current, then the first record.
Hook(s) ==
  /\ pc[s] = "hook"
  /\ hooked' = [hooked EXCEPT ![mine[s]] = TRUE]
  /\ job' = [job EXCEPT ![s] = mine[s]]
  /\ pc' = [pc EXCEPT ![s] = "snapshot"]
  /\ then' = [then EXCEPT ![s] = "register"]
  /\ UNCHANGED <<order, status, closed, news, logVars, mine, snap, todo, shaken>>

\* The run becomes addressable.  One that has not been set up is, from here on,
\* by a goroutine of its own.
Register(s) ==
  LET r == mine[s]
      async == status[r] = "preparing"
  IN /\ pc[s] = "register"
     /\ order' = Append(order, r)
     /\ mine' = [mine EXCEPT ![s] = NoRun]
     /\ pc' = IF async THEN [pc EXCEPT ![s] = "idle", ![r] = "setup"]
                       ELSE [pc EXCEPT ![s] = "idle"]
     /\ job' = IF async THEN [job EXCEPT ![r] = r] ELSE job
     /\ UNCHANGED <<runVars, logVars, snap, then, todo, shaken>>

\* Run.Setup reports how far it is.
SetupProgress(h) ==
  LET r == job[h]
  IN /\ pc[h] = "setup"
     /\ news[r] < MaxNews
     /\ news' = [news EXCEPT ![r] = @ + 1]
     /\ pc' = [pc EXCEPT ![h] = "publish"]
     /\ then' = [then EXCEPT ![h] = "setup"]
     /\ UNCHANGED <<order, status, closed, hooked, logVars, job, mine, snap, todo, shaken>>

\* Run.Setup concludes, and says so even of a run closed meanwhile.  A run it
\* could not set up it closes itself.
Setup(h) ==
  LET r == job[h]
      next == IF h \in Starters THEN "hook" ELSE "idle"
  IN /\ pc[h] = "setup"
     /\ news[r] <= MaxNews
     /\ news' = [news EXCEPT ![r] = @ + 1]
     /\ pc' = [pc EXCEPT ![h] = "publish"]
     /\ \/ /\ status' = [status EXCEPT ![r] = "ready"]
           /\ then' = [then EXCEPT ![h] = next]
        \/ /\ status' = [status EXCEPT ![r] = "failed"]
           /\ then' = [then EXCEPT ![h] = "close"]
     /\ UNCHANGED <<order, closed, hooked, logVars, job, mine, snap, todo, shaken>>

\* Run.Step, Run.Interrupt and what resolves later: something happens to a run
\* that is known to others, and whoever did it publishes it.
Advance(w, r) ==
  /\ pc[w] = "idle"
  /\ status[r] = "ready" /\ ~ closed[r]
  /\ \A s \in Starters : mine[s] # r
  /\ news[r] <= MaxNews
  /\ news' = [news EXCEPT ![r] = @ + 1]
  /\ job' = [job EXCEPT ![w] = r]
  /\ pc' = [pc EXCEPT ![w] = "publish"]
  /\ then' = [then EXCEPT ![w] = "idle"]
  /\ UNCHANGED <<order, status, closed, hooked, logVars, mine, snap, todo, shaken>>

-----------------------------------------------------------------------------
(***************************************************************************)
(* Closing, forgetting, clearing.                                          *)
(***************************************************************************)

\* s without its entry for r: the code cuts it out where it finds it.
Removed(s, r) ==
  IF r \in Range(s) THEN RemoveAt(s, CHOOSE i \in DOMAIN s : s[i] = r) ELSE s

\* Out of the register first, then recorded, then closed.
Unregister(u, r) ==
  /\ order' = Removed(order, r)
  /\ job' = [job EXCEPT ![u] = r]
  /\ pc' = [pc EXCEPT ![u] = "snapshot"]
  /\ then' = [then EXCEPT ![u] = "close"]

\* Manager.CloseRun.
CloseRun(u, r) ==
  /\ pc[u] = "idle"
  /\ r \in Range(order)
  /\ Unregister(u, r)
  /\ UNCHANGED <<runVars, logVars, mine, snap, todo, shaken>>

\* handleForgetRun: a live run is closed first.
ForgetRun(u, r) ==
  /\ pc[u] = "idle"
  /\ r \in Range(order) \union Logged
  /\ todo' = [todo EXCEPT ![u] = {r}]
  /\ pc' = [pc EXCEPT ![u] = IF r \in Range(order) THEN "closing" ELSE "forget"]
  /\ UNCHANGED <<order, runVars, logVars, job, mine, snap, then, shaken>>

\* ... and if that fails nothing is forgotten: somebody else closed the run
\* since it was looked up, or its close came back with an error.
ForgetCloses(u) ==
  /\ pc[u] = "closing"
  /\ \E r \in todo[u] :
       \/ r \in Range(order) /\ Unregister(u, r) /\ UNCHANGED todo
       \/ /\ r \notin Range(order)
          /\ pc' = [pc EXCEPT ![u] = "idle"]
          /\ todo' = [todo EXCEPT ![u] = {}]
          /\ UNCHANGED <<order, job, then>>
  /\ UNCHANGED <<runVars, logVars, mine, snap, shaken>>

\* handleClearRuns: the live runs are listed first, the log after that.
ClearRuns(u) ==
  /\ pc[u] = "idle"
  /\ todo' = [todo EXCEPT ![u] = Range(order)]
  /\ pc' = [pc EXCEPT ![u] = "list"]
  /\ UNCHANGED <<order, runVars, logVars, job, mine, snap, then, shaken>>

ClearLists(u) ==
  LET rest == Logged \ todo[u]
  IN /\ pc[u] = "list"
     /\ todo' = [todo EXCEPT ![u] = rest]
     /\ pc' = [pc EXCEPT ![u] = IF rest = {} THEN "idle" ELSE "forget"]
     /\ UNCHANGED <<order, runVars, logVars, job, mine, snap, then, shaken>>

\* History.Forget, of one run or of the next one on the list.
Forget(u) ==
  /\ pc[u] = "forget"
  /\ \E r \in todo[u] :
       /\ logged' = Removed(logged, r)
       /\ record' = [record EXCEPT ![r] = 0]
       /\ shaken' = shaken \union {r}
       /\ todo' = [todo EXCEPT ![u] = @ \ {r}]
       /\ pc' = [pc EXCEPT ![u] = IF todo[u] = {r} THEN "idle" ELSE "forget"]
  /\ UNCHANGED <<order, runVars, job, mine, snap, then>>

\* Manager.CloseAll: the register is emptied at once, the runs follow in turn.
CloseAll(u) ==
  /\ pc[u] = "idle"
  /\ order # <<>>
  /\ order' = <<>>
  /\ todo' = [todo EXCEPT ![u] = Range(order)]
  /\ pc' = [pc EXCEPT ![u] = "retire"]
  /\ UNCHANGED <<runVars, logVars, job, mine, snap, then, shaken>>

Retire(u) ==
  /\ pc[u] = "retire"
  /\ \E r \in todo[u] :
       /\ job' = [job EXCEPT ![u] = r]
       /\ todo' = [todo EXCEPT ![u] = @ \ {r}]
  /\ pc' = [pc EXCEPT ![u] = "snapshot"]
  /\ then' = [then EXCEPT ![u] = "close"]
  /\ UNCHANGED <<order, runVars, logVars, mine, snap, shaken>>

\* What a hand may turn to after closing a run.  Closing fails when the scratch
\* database cannot be dropped: only whoever was to forget the run looks at that.
AfterClose(h) ==
  CASE h \in Starters -> {IF mine[h] = NoRun THEN "make" ELSE "hook"}
    [] h \in Runs -> {"idle"}
    [] OTHER -> IF job[h] \in todo[h]
                THEN {"forget"} \union (IF closed[job[h]] THEN {} ELSE {"closing"})
                ELSE {IF todo[h] = {} THEN "idle" ELSE "retire"}

\* Run.Close: does nothing to a run that is closed.
Close(h) ==
  LET r == job[h]
  IN /\ pc[h] = "close"
     /\ closed' = [closed EXCEPT ![r] = TRUE]
     /\ status' = [status EXCEPT ![r] = IF closed[r] THEN @ ELSE "closed"]
     /\ \E next \in AfterClose(h) : TurnTo(h, next)
     /\ UNCHANGED <<order, hooked, news, logVars, mine, snap, todo, shaken>>

-----------------------------------------------------------------------------
\* What a hand does once it has begun.
Work(h) ==
  \/ Snapshot(h) \/ Put(h) \/ Publish(h)
  \/ Setup(h) \/ Close(h)
  \/ ForgetCloses(h) \/ ClearLists(h) \/ Forget(h) \/ Retire(h)

WorkOfStarter(s) ==
  \/ \E r \in Runs : StartAsync(s, r) \/ Start(s, r)
  \/ MakeFails(s) \/ Hook(s) \/ Register(s)

Next ==
  \/ \E h \in Hands : Work(h) \/ SetupProgress(h)
  \/ \E s \in Starters : Evict(s) \/ WorkOfStarter(s)
  \/ \E w \in Steppers, r \in Runs : Advance(w, r)
  \/ \E u \in Users :
       \/ \E r \in Runs : CloseRun(u, r) \/ ForgetRun(u, r)
       \/ ClearRuns(u) \/ CloseAll(u)

Spec == Init /\ [][Next]_vars

-----------------------------------------------------------------------------
(***************************************************************************)
(* Properties.                                                             *)
(***************************************************************************)

\* Starters past the check for room and before the register.
UnderWay == {s \in Starters : pc[s] # "idle"}

\* The cap on resident runs (maxRuns): each start makes room for one before it
\* registers one, so runs and starts under way exceed the cap by no more than
\* the starts that can be under way at once.  With one starter it is kept.
CapKept ==
  /\ Len(order) + Cardinality(UnderWay) <= MaxRuns - 1 + Cardinality(Starters)
  /\ Len(order) <= MaxRuns - 1 + Cardinality(Starters)

\* h has yet to close r: it is at it, or r is on the list of CloseAll.
Closing(h, r) ==
  \/ job[h] = r /\ pc[h] \in {"snapshot", "put"} /\ then[h] = "close"
  \/ job[h] = r /\ pc[h] = "close"
  \/ r \in todo[h] /\ pc[h] \in {"retire", "snapshot", "put", "close"}

\* A run holds connections and a database until it is closed: an open one is in
\* the register, with the starter who made it, or with somebody who is about to
\* close it.
NothingDropped ==
  \A r \in Runs : status[r] # "none" /\ ~ closed[r] =>
    \/ r \in Range(order)
    \/ \E s \in Starters : mine[s] = r
    \/ \E h \in Hands : Closing(h, r)

\* A hand that will still write a record of r, or may.
Writing(h, r) ==
  \/ job[h] = r /\ pc[h] \in {"snapshot", "put"}
  \/ h \in Starters /\ mine[h] = r
  \/ Closing(h, r) /\ job[h] # r

\* "Keep this run's history record current as it progresses": once everybody
\* who had something to report of a registered run has reported it, the log has
\* a record of the run and it is up to date -- unless a late writer put an older
\* one over it, or it was dropped from the log in the meantime.
RecordKeepsUp ==
  \A r \in Range(order) \ shaken :
    (\A h \in Hands : job[h] = r => pc[h] = "setup") =>
      r \in Logged /\ record[r] = news[r]

\* A run that is closed, out of the register and the log, and of which nobody is
\* writing.
Gone(r) ==
  /\ closed[r]
  /\ r \notin Range(order) \union Logged
  /\ \A h \in Hands : ~ Writing(h, r)

\* It stays gone: neither a setup that concludes late nor a statement that
\* resolves after the run was closed and forgotten brings its record back.
ForgottenStaysForgotten ==
  [][\A r \in Runs : Gone(r) => Gone(r)']_vars
=============================================================================
