-------------------------------- MODULE Pool --------------------------------
(***************************************************************************)
(* The containers of a machine, and the Deadlocker processes that share    *)
(* it (internal/mysqlbox/box.go and owner.go, wired up in cmd/deadlocker). *)
(*                                                                         *)
(* Within a process, callers acquire a server by its pool key; the first   *)
(* to ask starts the container, the others wait for it.  Between           *)
(* processes, a lock file per instance tells a starting one which          *)
(* containers it may reap.  Processes may be killed at any point, and the  *)
(* kernel then drops their file locks.                                     *)
(*                                                                         *)
(* Docker does what it is asked, except that the answer to a create may    *)
(* be lost.  Nobody else removes containers.                               *)
(***************************************************************************)
EXTENDS Integers, FiniteSets

CONSTANTS
  Instances,      \* processes; each runs once, under an id of its own
  CLI,            \* those that are `deadlocker run`
  Callers,        \* goroutines that acquire a server, once each
  HostOf,         \* HostOf[x]: the process x runs in
  Keys,           \* what a server is pooled by (Spec.Key)
  MaxContainers   \* bound: containers created

NoOne == "none"

ASSUME PoolAssumption ==
  /\ CLI \subseteq Instances
  /\ HostOf \in [Callers -> Instances]
  /\ MaxContainers \in Nat
  /\ NoOne \notin Instances \union Callers

Ids == 1..MaxContainers

VARIABLES
  \* Docker: the containers there are, how many were made, and their labels
  containers, made, label,
  maker, lost,  \* who made a container, and those whose maker was not told
  \* the instances directory: a lock file per instance, and who is trying it
  lockFile, trying,
  \* processes
  stage, claimed,
  todo,       \* todo[p]: containers p still has to look at, or to remove
  doomed,     \* doomed[p]: the container p has decided to reap, else 0
  boxes, starting,
  \* callers
  pc, want, on, mine, got

dockerVars == <<containers, made, label, maker, lost>>
lockVars == <<lockFile, trying>>
processVars == <<stage, claimed, todo, doomed>>
poolVars == <<boxes, starting>>
callerVars == <<pc, want, on, mine, got>>
vars == <<dockerVars, lockVars, processVars, poolVars, callerVars>>

PoolTypeOK ==
  /\ containers \subseteq 1..made /\ lost \subseteq 1..made
  /\ made \in 0..MaxContainers
  /\ label \in [Ids -> Instances \union {NoOne}]
  /\ maker \in [Ids -> Instances \union {NoOne}]
  /\ lockFile \in [Instances -> {"absent", "held", "left"}]
  /\ trying \in [Instances -> Instances \union {NoOne}]
  /\ stage \in [Instances -> {"off", "listing", "reaping", "serving", "closing",
                              "leaving", "exited", "killed"}]
  /\ claimed \in [Instances -> BOOLEAN]
  /\ todo \in [Instances -> SUBSET Ids]
  /\ doomed \in [Instances -> Ids \union {0}]
  /\ boxes \in [Instances -> [Keys -> Ids \union {0}]]
  /\ starting \in [Instances -> [Keys -> Callers \union {NoOne}]]
  /\ \A p \in Instances, k \in Keys : starting[p][k] # NoOne =>
       /\ HostOf[starting[p][k]] = p /\ want[starting[p][k]] = k
       /\ pc[starting[p][k]] \in {"pulling", "booting", "started", "failing"}
  /\ pc \in [Callers -> {"idle", "waiting", "again", "pulling", "booting", "started",
                         "failing", "announcing", "done"}]
  /\ want \in [Callers -> Keys \union {NoOne}]
  /\ on \in [Callers -> Callers \union {NoOne}]
  /\ mine \in [Callers -> Ids \union {0}]
  /\ got \in [Callers -> Ids \union {0}]

Init ==
  /\ containers = {} /\ made = 0 /\ lost = {}
  /\ label = [c \in Ids |-> NoOne] /\ maker = [c \in Ids |-> NoOne]
  /\ lockFile = [p \in Instances |-> "absent"]
  /\ trying = [p \in Instances |-> NoOne]
  /\ stage = [p \in Instances |-> "off"]
  /\ claimed = [p \in Instances |-> FALSE]
  /\ todo = [p \in Instances |-> {}]
  /\ doomed = [p \in Instances |-> 0]
  /\ boxes = [p \in Instances |-> [k \in Keys |-> 0]]
  /\ starting = [p \in Instances |-> [k \in Keys |-> NoOne]]
  /\ pc = [x \in Callers |-> "idle"]
  /\ want = [x \in Callers |-> NoOne]
  /\ on = [x \in Callers |-> NoOne]
  /\ mine = [x \in Callers |-> 0]
  /\ got = [x \in Callers |-> 0]

-----------------------------------------------------------------------------
(***************************************************************************)
(* A process comes up: claim its containers, reap what others left.        *)
(***************************************************************************)

\* NewOwner: an id nobody has seen, and a lock held on the file it names.
\* Failing is not fatal; the containers are then labelled with no owner.
Claim(p) ==
  /\ stage[p] = "off"
  /\ stage' = [stage EXCEPT ![p] = "listing"]
  /\ \/ /\ claimed' = [claimed EXCEPT ![p] = TRUE]
        /\ lockFile' = [lockFile EXCEPT ![p] = "held"]
     \/ UNCHANGED <<claimed, lockFile>>
  /\ UNCHANGED <<dockerVars, trying, todo, doomed, poolVars, callerVars>>

\* The server tells its pool where the locks are even when it has none itself;
\* `deadlocker run` only when it has one (Pool.Own).
KnowsDirectory(p) == claimed[p] \/ p \notin CLI

\* ReapStale lists every container with the tool's label.
List(p) ==
  /\ stage[p] = "listing"
  /\ todo' = [todo EXCEPT ![p] = containers]
  /\ stage' = [stage EXCEPT ![p] = "reaping"]
  /\ UNCHANGED <<dockerVars, lockVars, claimed, doomed, poolVars, callerVars>>

\* -keep-stale, or a list that failed.
SkipReaping(p) ==
  /\ stage[p] = "listing"
  /\ stage' = [stage EXCEPT ![p] = "serving"]
  /\ UNCHANGED <<dockerVars, lockVars, claimed, todo, doomed, poolVars, callerVars>>

\* The next container on the list, between two removals or attempts on a lock.
Looking(p, c) ==
  /\ stage[p] = "reaping"
  /\ doomed[p] = 0 /\ trying[p] = NoOne
  /\ c \in todo[p]

\* A fault to seed: every container with the tool's label is litter.
FoundAbsent(p, c) == "absent"

\* ownerAlive: what p finds of the lock of c's owner.  Somebody may hold it,
\* be it only to find out the same.
Found(p, c) ==
  IF label[c] = NoOne \/ ~ KnowsDirectory(p) THEN "absent"
  ELSE IF \E q \in Instances : trying[q] = label[c] THEN "held"
  ELSE lockFile[label[c]]

\* The lock cannot be taken: the owner is alive, and the container left alone.
Keep(p, c) ==
  /\ Looking(p, c)
  /\ Found(p, c) = "held"
  /\ todo' = [todo EXCEPT ![p] = @ \ {c}]
  /\ UNCHANGED <<dockerVars, lockVars, stage, claimed, doomed, poolVars, callerVars>>

\* No owner, or no lock file to be found: litter.
Condemn(p, c) ==
  /\ Looking(p, c)
  /\ Found(p, c) = "absent"
  /\ doomed' = [doomed EXCEPT ![p] = c]
  /\ UNCHANGED <<dockerVars, lockVars, stage, claimed, todo, poolVars, callerVars>>

\* A fault to seed: a lock file is proof enough that its owner is alive.
TryLockTrusting(p, c) ==
  /\ Looking(p, c)
  /\ Found(p, c) = "left"
  /\ todo' = [todo EXCEPT ![p] = @ \ {c}]
  /\ UNCHANGED <<dockerVars, lockVars, stage, claimed, doomed, poolVars, callerVars>>

\* The lock can be taken, and p holds it for a moment: litter.
TryLock(p, c) ==
  /\ Looking(p, c)
  /\ Found(p, c) = "left"
  /\ trying' = [trying EXCEPT ![p] = label[c]]
  /\ doomed' = [doomed EXCEPT ![p] = c]
  /\ UNCHANGED <<dockerVars, lockFile, stage, claimed, todo, poolVars, callerVars>>

\* The lock is given back and the file removed.
DropLock(p) ==
  /\ trying[p] # NoOne /\ stage[p] = "reaping"
  /\ lockFile' = [lockFile EXCEPT ![trying[p]] = "absent"]
  /\ trying' = [trying EXCEPT ![p] = NoOne]
  /\ UNCHANGED <<dockerVars, processVars, poolVars, callerVars>>

Reap(p) ==
  /\ stage[p] = "reaping"
  /\ doomed[p] # 0 /\ trying[p] = NoOne
  /\ containers' = containers \ {doomed[p]}
  /\ todo' = [todo EXCEPT ![p] = @ \ {doomed[p]}]
  /\ doomed' = [doomed EXCEPT ![p] = 0]
  /\ UNCHANGED <<made, label, maker, lost, lockVars, stage, claimed, poolVars, callerVars>>

Serve(p) ==
  /\ stage[p] = "reaping"
  /\ todo[p] = {} /\ doomed[p] = 0
  /\ stage' = [stage EXCEPT ![p] = "serving"]
  /\ UNCHANGED <<dockerVars, lockVars, claimed, todo, doomed, poolVars, callerVars>>

-----------------------------------------------------------------------------
(***************************************************************************)
(* Acquire.                                                                *)
(***************************************************************************)

\* Goroutines run until the process ends, shutting down or not.
Running(p) == stage[p] \in {"serving", "closing", "leaving"}

\* A fault to seed: nobody asks whether the server is being started already.
LookUnguarded(x, k) ==
  LET p == HostOf[x] IN
  IF boxes[p][k] # 0
  THEN /\ got' = [got EXCEPT ![x] = boxes[p][k]]
       /\ pc' = [pc EXCEPT ![x] = "done"]
       /\ UNCHANGED <<on, starting>>
  ELSE /\ starting' = [starting EXCEPT ![p][k] = x]
       /\ pc' = [pc EXCEPT ![x] = "pulling"]
       /\ UNCHANGED <<on, got>>

\* One turn of the loop, under the lock: there is a server, or somebody is
\* starting it, or x is to start it.
Look(x, k) ==
  LET p == HostOf[x] IN
  IF boxes[p][k] # 0
  THEN /\ got' = [got EXCEPT ![x] = boxes[p][k]]
       /\ pc' = [pc EXCEPT ![x] = "done"]
       /\ UNCHANGED <<on, starting>>
  ELSE IF starting[p][k] # NoOne
  THEN /\ on' = [on EXCEPT ![x] = starting[p][k]]
       /\ pc' = [pc EXCEPT ![x] = "waiting"]
       /\ UNCHANGED <<got, starting>>
  ELSE /\ starting' = [starting EXCEPT ![p][k] = x]
       /\ pc' = [pc EXCEPT ![x] = "pulling"]
       /\ UNCHANGED <<on, got>>

Acquire(x) ==
  /\ Running(HostOf[x])
  /\ pc[x] = "idle"
  /\ \E k \in Keys : want' = [want EXCEPT ![x] = k] /\ Look(x, k)
  /\ UNCHANGED <<dockerVars, lockVars, processVars, boxes, mine>>

\* The channel it waited on was closed: look again.
Again(x) ==
  /\ Running(HostOf[x])
  /\ pc[x] = "again"
  /\ Look(x, want[x])
  /\ UNCHANGED <<dockerVars, lockVars, processVars, boxes, want, mine>>

\* The context of a waiting caller ends.
GiveUp(x) ==
  /\ Running(HostOf[x])
  /\ pc[x] = "waiting"
  /\ pc' = [pc EXCEPT ![x] = "done"]
  /\ on' = [on EXCEPT ![x] = NoOne]
  /\ UNCHANGED <<dockerVars, lockVars, processVars, poolVars, want, mine, got>>

-----------------------------------------------------------------------------
(***************************************************************************)
(* start: pull, create, boot.  The context may end anywhere.               *)
(***************************************************************************)

Owner(p) == IF claimed[p] THEN p ELSE NoOne

\* Docker makes a container for p, labelled with p's id.
Make(p) ==
  /\ made < MaxContainers
  /\ made' = made + 1
  /\ containers' = containers \union {made + 1}
  /\ label' = [label EXCEPT ![made + 1] = Owner(p)]
  /\ maker' = [maker EXCEPT ![made + 1] = p]

Create(x) ==
  /\ Running(HostOf[x])
  /\ pc[x] = "pulling"
  /\ Make(HostOf[x])
  /\ UNCHANGED lost
  /\ mine' = [mine EXCEPT ![x] = made + 1]
  /\ pc' = [pc EXCEPT ![x] = "booting"]
  /\ UNCHANGED <<lockVars, processVars, poolVars, want, on, got>>

\* The pull or the create fails; the container may have been made all the same.
CreateFails(x) ==
  /\ Running(HostOf[x])
  /\ pc[x] = "pulling"
  /\ \/ Make(HostOf[x]) /\ lost' = lost \union {made + 1}
     \/ UNCHANGED dockerVars
  /\ pc' = [pc EXCEPT ![x] = "failing"]
  /\ UNCHANGED <<lockVars, processVars, poolVars, want, on, mine, got>>

\* mysqld answers.
Boot(x) ==
  /\ Running(HostOf[x])
  /\ pc[x] = "booting"
  /\ mine[x] \in containers
  /\ pc' = [pc EXCEPT ![x] = "started"]
  /\ UNCHANGED <<dockerVars, lockVars, processVars, poolVars, want, on, mine, got>>

\* A fault to seed: an error is returned and the container left.
BootFailsAndLeaves(x) ==
  /\ Running(HostOf[x])
  /\ pc[x] = "booting"
  /\ mine' = [mine EXCEPT ![x] = 0]
  /\ pc' = [pc EXCEPT ![x] = "failing"]
  /\ UNCHANGED <<dockerVars, lockVars, processVars, poolVars, want, on, got>>

\* It cannot be started or inspected, has no port, or is never ready.
BootFails(x) ==
  /\ Running(HostOf[x])
  /\ pc[x] = "booting"
  /\ containers' = containers \ {mine[x]}
  /\ mine' = [mine EXCEPT ![x] = 0]
  /\ pc' = [pc EXCEPT ![x] = "failing"]
  /\ UNCHANGED <<made, label, maker, lost, lockVars, processVars, poolVars, want, on, got>>

\* Under the lock: the server goes into the pool, if there is one.
Conclude(x) ==
  LET p == HostOf[x]
      k == want[x] IN
  /\ Running(p)
  /\ pc[x] \in {"started", "failing"}
  /\ starting' = [starting EXCEPT ![p][k] = NoOne]
  /\ boxes' = IF pc[x] = "started" THEN [boxes EXCEPT ![p][k] = mine[x]] ELSE boxes
  /\ got' = [got EXCEPT ![x] = mine[x]]
  /\ mine' = [mine EXCEPT ![x] = 0]
  /\ pc' = [pc EXCEPT ![x] = "announcing"]
  /\ UNCHANGED <<dockerVars, lockVars, processVars, want, on>>

\* A fault to seed: a start that failed is not announced.
AnnounceSuccess(x) ==
  /\ Running(HostOf[x])
  /\ pc[x] = "announcing"
  /\ pc' = [y \in Callers |->
              IF y = x THEN "done"
              ELSE IF pc[y] = "waiting" /\ on[y] = x /\ got[x] # 0 THEN "again"
              ELSE pc[y]]
  /\ UNCHANGED <<dockerVars, lockVars, processVars, poolVars, want, on, mine, got>>

\* close(ch) wakes everyone who waits for this start.
Announce(x) ==
  /\ Running(HostOf[x])
  /\ pc[x] = "announcing"
  /\ pc' = [y \in Callers |->
              IF y = x THEN "done"
              ELSE IF pc[y] = "waiting" /\ on[y] = x THEN "again"
              ELSE pc[y]]
  /\ UNCHANGED <<dockerVars, lockVars, processVars, poolVars, want, on, mine, got>>

-----------------------------------------------------------------------------
(***************************************************************************)
(* A process ends: Pool.Close, Owner.Close, exit; or it is killed.         *)
(***************************************************************************)

InPool(p) == {boxes[p][k] : k \in Keys} \ {0}

\* Pool.Close takes the boxes out under the lock; starts go on.
ClosePool(p) ==
  /\ stage[p] = "serving"
  /\ stage' = [stage EXCEPT ![p] = "closing"]
  /\ todo' = [todo EXCEPT ![p] = InPool(p)]
  /\ boxes' = [boxes EXCEPT ![p] = [k \in Keys |-> 0]]
  /\ UNCHANGED <<dockerVars, lockVars, claimed, doomed, starting, callerVars>>

RemoveBox(p) ==
  /\ stage[p] = "closing"
  /\ \E c \in todo[p] :
       /\ containers' = containers \ {c}
       /\ todo' = [todo EXCEPT ![p] = @ \ {c}]
  /\ UNCHANGED <<made, label, maker, lost, lockVars, stage, claimed, doomed, poolVars, callerVars>>

CloseOwner(p) ==
  /\ stage[p] = "closing" /\ todo[p] = {}
  /\ stage' = [stage EXCEPT ![p] = "leaving"]
  /\ lockFile' = [lockFile EXCEPT ![p] = "absent"]
  /\ UNCHANGED <<dockerVars, trying, claimed, todo, doomed, poolVars, callerVars>>

\* What p kept in memory is gone with it.
Forgotten(p) ==
  LET here(x) == HostOf[x] = p IN
  /\ todo' = [todo EXCEPT ![p] = {}]
  /\ doomed' = [doomed EXCEPT ![p] = 0]
  /\ boxes' = [boxes EXCEPT ![p] = [k \in Keys |-> 0]]
  /\ starting' = [starting EXCEPT ![p] = [k \in Keys |-> NoOne]]
  /\ pc' = [x \in Callers |-> IF here(x) THEN "idle" ELSE pc[x]]
  /\ want' = [x \in Callers |-> IF here(x) THEN NoOne ELSE want[x]]
  /\ on' = [x \in Callers |-> IF here(x) THEN NoOne ELSE on[x]]
  /\ mine' = [x \in Callers |-> IF here(x) THEN 0 ELSE mine[x]]
  /\ got' = [x \in Callers |-> IF here(x) THEN 0 ELSE got[x]]

Exit(p) ==
  /\ stage[p] = "leaving"
  /\ stage' = [stage EXCEPT ![p] = "exited"]
  /\ Forgotten(p)
  /\ UNCHANGED <<dockerVars, lockVars, claimed>>

\* However it ends, the kernel drops its locks; the file stays.
Killed(p) ==
  /\ stage[p] \notin {"off", "exited", "killed"}
  /\ stage' = [stage EXCEPT ![p] = "killed"]
  /\ lockFile' = [lockFile EXCEPT ![p] = IF @ = "held" THEN "left" ELSE @]
  /\ trying' = [trying EXCEPT ![p] = NoOne]
  /\ Forgotten(p)
  /\ UNCHANGED <<dockerVars, claimed>>

-----------------------------------------------------------------------------
Reaping(p) ==
  \/ DropLock(p) \/ Reap(p) \/ Serve(p)
  \/ \E c \in Ids : Keep(p, c) \/ Condemn(p, c) \/ TryLock(p, c)

Closing(p) == RemoveBox(p) \/ CloseOwner(p) \/ Exit(p)

Starting(x) ==
  Create(x) \/ CreateFails(x) \/ Boot(x) \/ BootFails(x) \/ Conclude(x) \/ Announce(x)

AtRest == \A p \in Instances : stage[p] \in {"exited", "killed"}

Rest == AtRest /\ UNCHANGED vars

Next ==
  \/ \E p \in Instances :
       \/ Claim(p) \/ List(p) \/ SkipReaping(p) \/ Reaping(p)
       \/ ClosePool(p) \/ Closing(p) \/ Killed(p)
  \/ \E x \in Callers : Acquire(x) \/ Again(x) \/ GiveUp(x) \/ Starting(x)
  \/ Rest

Spec == Init /\ [][Next]_vars

\* A process that is up goes on with what it is at, and Docker answers: every
\* start has a deadline.  Nothing has to be started, shut down or killed.
Fairness ==
  /\ \A p \in Instances : WF_vars(Reaping(p)) /\ WF_vars(Closing(p))
  /\ \A x \in Callers : WF_vars(Again(x)) /\ WF_vars(Starting(x))

FairSpec == Spec /\ Fairness

-----------------------------------------------------------------------------
(***************************************************************************)
(* Properties.                                                             *)
(***************************************************************************)

\* The servers a process works with: in its pool, or being started.
InUse(p) == InPool(p) \union ({mine[x] : x \in {y \in Callers : HostOf[y] = p}} \ {0})

\* A `deadlocker run` that could not claim ownership knows no lock directory.
Blind(p) == stage[p] # "off" /\ ~ KnowsDirectory(p)

\* Whatever other instances start, reap or die of meanwhile, nobody takes a
\* server from under a registered instance that is serving.
LiveContainersSpared ==
  \A p \in Instances :
    stage[p] = "serving" /\ claimed[p] /\ (\A q \in Instances : ~ Blind(q))
      => InUse(p) \subseteq containers

\* Callers that want the same key share one server, however they race: there
\* is one in the pool, or one being started, or none.
OneServerPerKey ==
  \A k \in Keys : \A x, y \in Callers :
    HostOf[x] = HostOf[y] /\ want[x] = k /\ want[y] = k =>
      /\ mine[x] # 0 => boxes[HostOf[x]][k] = 0 /\ (mine[y] # 0 => x = y)
      /\ stage[HostOf[x]] = "serving" /\ got[x] # 0 /\ got[y] # 0 => got[x] = got[y]

\* What a caller is at, to the others.
At ==
  [x \in Callers |->
     CASE pc[x] = "idle" -> "idle"
       [] pc[x] \in {"waiting", "again"} -> "waiting"
       [] pc[x] \in {"announcing", "done"} -> "done"
       [] OTHER -> "making"]

\* The containers nobody is at work on: they are in a pool, or were, or failed.
Spent == (1..made) \ {mine[x] : x \in Callers}

\* However callers race, fail, give up or are killed, a pool keeps the promises
\* of SingleFlight: one starts the server, the others wait for that one and share
\* it, and no server is given out twice.
SingleFlightOf == INSTANCE SingleFlight WITH
  Values <- Ids,
  cached <- boxes, flight <- starting,
  at <- At,
  wants <- want, waitsFor <- on, given <- got,
  spent <- Spent
ImplementsSingleFlight == SingleFlightOf!SingleFlightSpec

\* A serving instance knows of every container it made, unless Docker's answer
\* was lost: a start that fails, at whatever point, leaves none behind.
NoneForgotten ==
  \A p \in Instances : stage[p] = "serving" =>
    {c \in containers : maker[c] = p} \subseteq InUse(p) \union lost

\* A caller waiting for somebody else's start is woken however that ends.
WaitersWake ==
  \A x \in Callers :
    pc[x] = "waiting" ~> pc[x] # "waiting"

\* What a dead instance left is removed by the next that looks at it, if that
\* one lives to do it and no other is reaping at the same time.
LitterIsReaped ==
  \A p \in Instances, c \in Ids :
    (/\ stage[p] = "reaping" /\ c \in todo[p]
     /\ label[c] = NoOne \/ stage[label[c]] \in {"exited", "killed"})
    ~> \/ c \notin containers
       \/ stage[p] = "killed"
       \/ \E q \in Instances \ {p} : stage[q] = "reaping"

\* ReapStale: containers of another Deadlocker that is still running are left
\* alone.  Own: a pool without an owner reaps conservatively.
ReapsConservatively ==
  \A p \in Instances : stage[p] = "serving" /\ claimed[p] => InUse(p) \subseteq containers
=============================================================================
