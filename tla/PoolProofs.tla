----------------------------- MODULE PoolProofs -----------------------------
(***************************************************************************)
(* Pool's safety properties, for any number of processes, callers, keys    *)
(* and containers: callers share a server, no container is forgotten, and  *)
(* a registered instance's are left alone.                                 *)
(***************************************************************************)
EXTENDS Pool, TLAPS

-----------------------------------------------------------------------------
(***************************************************************************)
(* Callers, and the server they start or share.                            *)
(***************************************************************************)

InStart == {"pulling", "booting", "started", "failing"}

\* A caller that is anywhere knows its key and its process is up; one that
\* starts a server is on record as the one who does.
CallerFits(x) ==
  /\ pc[x] # "idle" => want[x] \in Keys /\ Running(HostOf[x])
  /\ pc[x] = "idle" => got[x] = 0
  /\ mine[x] # 0 <=> pc[x] \in {"booting", "started"}
  /\ pc[x] \in InStart => starting[HostOf[x]][want[x]] = x

\* A server is in the pool, or being started, or neither; and what a caller was
\* given is what is in the pool until that is closed.
PoolFits ==
  /\ \A p \in Instances, k \in Keys : starting[p][k] # NoOne => boxes[p][k] = 0
  /\ \A p \in Instances, k \in Keys : ~ Running(p) => boxes[p][k] = 0
  /\ \A x \in Callers : got[x] # 0 /\ stage[HostOf[x]] = "serving" =>
       boxes[HostOf[x]][want[x]] = got[x]

PoolInv == PoolTypeOK /\ (\A x \in Callers : CallerFits(x)) /\ PoolFits

LEMMA PoolInvHolds == Init => PoolInv
BY PoolAssumption DEF Init, PoolInv, PoolTypeOK, CallerFits, PoolFits, InStart, Ids, Running

LEMMA ClaimKeeps ==
  ASSUME PoolInv, NEW p \in Instances, Claim(p) \/ List(p) \/ SkipReaping(p) \/ Serve(p)
  PROVE  PoolInv'
<1> USE PoolAssumption DEF PoolInv, dockerVars, lockVars, poolVars, callerVars
<1>1. PoolTypeOK'
  <2>1. stage' \in [Instances -> {"off", "listing", "reaping", "serving", "closing",
                              "leaving", "exited", "killed"}]
    <3>1. stage' \in {[stage EXCEPT ![p] = s] : s \in {"listing", "reaping", "serving"}}
      BY DEF Claim, List, SkipReaping, Serve
    <3>2. stage \in [Instances -> {"off", "listing", "reaping", "serving", "closing",
                                   "leaving", "exited", "killed"}]
      BY DEF PoolTypeOK
    <3> QED
      BY <3>1, <3>2
  <2>2. lockFile' \in [Instances -> {"absent", "held", "left"}]
    <3>1. lockFile' = lockFile \/ lockFile' = [lockFile EXCEPT ![p] = "held"]
      BY DEF Claim, List, SkipReaping, Serve
    <3>2. lockFile \in [Instances -> {"absent", "held", "left"}]
      BY DEF PoolTypeOK
    <3> QED
      BY <3>1, <3>2
  <2>3. claimed' \in [Instances -> BOOLEAN]
    <3>1. claimed' = claimed \/ claimed' = [claimed EXCEPT ![p] = TRUE]
      BY DEF Claim, List, SkipReaping, Serve
    <3>2. claimed \in [Instances -> BOOLEAN]
      BY DEF PoolTypeOK
    <3> QED
      BY <3>1, <3>2
  <2>4. todo' \in [Instances -> SUBSET Ids]
    <3>1. containers \subseteq Ids /\ todo \in [Instances -> SUBSET Ids]
      BY DEF PoolTypeOK, Ids
    <3>2. todo' = todo \/ todo' = [todo EXCEPT ![p] = containers]
      BY DEF Claim, List, SkipReaping, Serve
    <3> QED
      BY <3>1, <3>2
  <2>5. UNCHANGED <<dockerVars, trying, doomed, poolVars, callerVars>>
    BY DEF Claim, List, SkipReaping, Serve
  <2> QED
    BY <2>1, <2>2, <2>3, <2>4, <2>5 DEF PoolTypeOK
<1>2. UNCHANGED <<boxes, starting, pc, want, on, mine, got>>
      /\ (\A q \in Instances : stage'[q] = stage[q] \/ (~ Running(q)))
      /\ (\A q \in Instances : Running(q) => Running(q)')
  BY DEF Claim, List, SkipReaping, Serve, PoolTypeOK, Running
<1>3. ASSUME NEW x \in Callers PROVE CallerFits(x)'
  BY <1>2 DEF CallerFits, PoolTypeOK
<1>4. PoolFits'
  <2>1. ASSUME NEW x \in Callers, got[x] # 0 PROVE stage'[HostOf[x]] = stage[HostOf[x]]
    BY <1>2, <2>1 DEF CallerFits
  <2> QED
    BY <1>2, <2>1 DEF PoolFits
<1> QED
  BY <1>1, <1>3, <1>4

LEMMA ReapingKeeps ==
  ASSUME PoolInv, NEW p \in Instances,
         DropLock(p) \/ Reap(p) \/ RemoveBox(p)
           \/ (\E c \in Ids : Keep(p, c) \/ Condemn(p, c) \/ TryLock(p, c))
  PROVE  PoolInv'
<1> USE PoolAssumption DEF PoolInv, dockerVars, lockVars, processVars, poolVars, callerVars
<1>1. UNCHANGED <<boxes, starting, pc, want, on, mine, got, stage, claimed>>
  BY DEF DropLock, Reap, RemoveBox, Keep, Condemn, TryLock
<1>2. PoolTypeOK'
  <2>1. CASE DropLock(p)
    BY <2>1 DEF DropLock, PoolTypeOK, Ids
  <2>2. CASE Reap(p)
    <3>1. todo' \in [Instances -> SUBSET Ids]
      <4>1. todo \in [Instances -> SUBSET Ids]
        BY DEF PoolTypeOK
      <4> QED
        BY <2>2, <4>1 DEF Reap
    <3>2. doomed' \in [Instances -> Ids \union {0}]
      <4>1. doomed \in [Instances -> Ids \union {0}]
        BY DEF PoolTypeOK
      <4> QED
        BY <2>2, <4>1 DEF Reap
    <3>3. containers' \subseteq 1..made
      BY <2>2 DEF Reap, PoolTypeOK
    <3> QED
      BY <2>2, <3>1, <3>2, <3>3 DEF Reap, PoolTypeOK
  <2>3. CASE RemoveBox(p)
    BY <2>3 DEF RemoveBox, PoolTypeOK, Ids
  <2>4. ASSUME NEW c \in Ids, Keep(p, c) \/ Condemn(p, c) PROVE PoolTypeOK'
    <3>1. /\ todo' = todo \/ todo' = [todo EXCEPT ![p] = @ \ {c}]
          /\ doomed' = doomed \/ doomed' = [doomed EXCEPT ![p] = c]
      BY <2>4 DEF Keep, Condemn
    <3>0. todo \in [Instances -> SUBSET Ids] /\ doomed \in [Instances -> Ids \union {0}]
      BY DEF PoolTypeOK
    <3>2. todo' \in [Instances -> SUBSET Ids]
      BY <3>0, <3>1
    <3>3. doomed' \in [Instances -> Ids \union {0}]
      BY <3>0, <3>1
    <3>4. UNCHANGED <<dockerVars, lockVars, stage, claimed, poolVars, callerVars>>
      BY <2>4 DEF Keep, Condemn
    <3> QED
      BY <3>2, <3>3, <3>4 DEF PoolTypeOK
  <2>5. ASSUME NEW c \in Ids, TryLock(p, c) PROVE PoolTypeOK'
    <3>1. /\ doomed' \in [Instances -> Ids \union {0}]
          /\ trying' \in [Instances -> Instances \union {NoOne}]
      BY <2>5 DEF TryLock, PoolTypeOK
    <3> QED
      BY <2>5, <3>1 DEF TryLock, PoolTypeOK
  <2> QED
    BY <2>1, <2>2, <2>3, <2>4, <2>5
<1>3. ASSUME NEW x \in Callers PROVE CallerFits(x)'
  BY <1>1 DEF CallerFits, Running
<1>4. PoolFits'
  BY <1>1 DEF PoolFits, Running
<1> QED
  BY <1>2, <1>3, <1>4

LEMMA LookKeeps ==
  ASSUME PoolInv, NEW x \in Callers, NEW k \in Keys,
         Running(HostOf[x]),
         \/ pc[x] = "idle" /\ want' = [want EXCEPT ![x] = k]
         \/ pc[x] = "again" /\ want[x] = k /\ want' = want,
         Look(x, k), UNCHANGED <<dockerVars, lockVars, processVars, boxes, mine>>
  PROVE  PoolInv'
<1> DEFINE p == HostOf[x]
<1> USE PoolAssumption DEF PoolInv, dockerVars, lockVars, processVars
<1>0. /\ p \in Instances /\ want' = [want EXCEPT ![x] = k]
      /\ x # NoOne /\ want[x] \in Keys \union {NoOne}
  BY DEF PoolTypeOK
<1>4. \A q \in Instances, j \in Keys : starting[q][j] # x
  <2> SUFFICES ASSUME NEW q \in Instances, NEW j \in Keys, starting[q][j] = x PROVE FALSE
    OBVIOUS
  <2>1. pc[x] \in {"pulling", "booting", "started", "failing"}
    BY <1>0 DEF PoolTypeOK
  <2> QED
    BY <2>1
<1>1. CASE /\ boxes[p][k] # 0
           /\ got' = [got EXCEPT ![x] = boxes[p][k]]
           /\ pc' = [pc EXCEPT ![x] = "done"]
           /\ UNCHANGED <<on, starting>>
  <2>1. PoolTypeOK'
    <3>1. \A q \in Instances, j \in Keys : starting[q][j] # x
      BY <1>4
    <3>2. boxes[p][k] \in Ids \union {0}
      BY <1>0 DEF PoolTypeOK
    <3> QED
      BY <1>0, <1>1, <3>1, <3>2 DEF PoolTypeOK, Ids
  <2>2. ASSUME NEW y \in Callers PROVE CallerFits(y)'
    BY <1>0, <1>1 DEF CallerFits, InStart, PoolTypeOK, Running
  <2>3. PoolFits'
    BY <1>0, <1>1 DEF PoolFits, PoolTypeOK, Running
  <2> QED
    BY <2>1, <2>2, <2>3
<1>2. CASE /\ boxes[p][k] = 0 /\ starting[p][k] # NoOne
           /\ on' = [on EXCEPT ![x] = starting[p][k]]
           /\ pc' = [pc EXCEPT ![x] = "waiting"]
           /\ UNCHANGED <<got, starting>>
  <2>1. PoolTypeOK'
    <3>1. \A q \in Instances, j \in Keys : starting[q][j] # x
      BY <1>4
    <3>2. starting[p][k] \in Callers \union {NoOne}
      BY <1>0 DEF PoolTypeOK
    <3> QED
      BY <1>0, <1>2, <3>1, <3>2 DEF PoolTypeOK, Ids
  <2>2. ASSUME NEW y \in Callers PROVE CallerFits(y)'
    BY <1>0, <1>2 DEF CallerFits, InStart, PoolTypeOK, Running
  <2>3. PoolFits'
    BY <1>0, <1>2 DEF PoolFits, PoolTypeOK, Running, CallerFits
  <2> QED
    BY <2>1, <2>2, <2>3
<1>3. CASE /\ boxes[p][k] = 0 /\ starting[p][k] = NoOne
           /\ starting' = [starting EXCEPT ![p][k] = x]
           /\ pc' = [pc EXCEPT ![x] = "pulling"]
           /\ UNCHANGED <<on, got>>
  <2>0. /\ \A q \in Instances, j \in Keys : starting[q][j] # x
        /\ starting' \in [Instances -> [Keys -> Callers \union {NoOne}]]
        /\ starting'[p][k] = x
        /\ \A q \in Instances, j \in Keys :
             starting'[q][j] = starting[q][j] \/ (q = p /\ j = k /\ starting'[q][j] = x)
    <3>1. starting \in [Instances -> [Keys -> Callers \union {NoOne}]] /\ p \in Instances
      BY <1>0 DEF PoolTypeOK
    <3> QED
      BY <3>1, <1>3, <1>4
  <2>1. PoolTypeOK'
    BY <1>0, <1>3, <2>0 DEF PoolTypeOK, Ids
  <2>2. ASSUME NEW y \in Callers PROVE CallerFits(y)'
    <3>1. CASE y = x
      BY <1>0, <1>3, <2>0, <3>1 DEF CallerFits, InStart, PoolTypeOK, Running
    <3>2. CASE y # x
      <4>1. /\ pc'[y] = pc[y] /\ want'[y] = want[y] /\ got'[y] = got[y] /\ mine'[y] = mine[y]
            /\ HostOf[y] \in Instances
        BY <1>0, <1>3, <3>2 DEF PoolTypeOK
      <4>2. pc[y] \in InStart => starting'[HostOf[y]][want[y]] = y
        <5> SUFFICES ASSUME pc[y] \in InStart PROVE starting'[HostOf[y]][want[y]] = y
          OBVIOUS
        <5>1. want[y] \in Keys /\ starting[HostOf[y]][want[y]] = y
          BY DEF CallerFits, InStart
        <5>2. ~ (HostOf[y] = p /\ want[y] = k)
          BY <5>1, <1>3
        <5> QED
          BY <5>1, <5>2, <2>0, <4>1
      <4> QED
        BY <4>1, <4>2 DEF CallerFits, InStart, Running
    <3> QED
      BY <3>1, <3>2
  <2>3. PoolFits'
    <3>1. \A q \in Instances, j \in Keys : starting'[q][j] # NoOne => boxes'[q][j] = 0
      BY <1>3, <2>0 DEF PoolFits
    <3>2. ASSUME NEW y \in Callers, got'[y] # 0, stage'[HostOf[y]] = "serving"
          PROVE  boxes'[HostOf[y]][want'[y]] = got'[y]
      BY <1>0, <1>3, <3>2 DEF PoolFits, PoolTypeOK, CallerFits
    <3> QED
      BY <3>1, <3>2 DEF PoolFits, Running
  <2> QED
    BY <2>1, <2>2, <2>3
<1> QED
  BY <1>1, <1>2, <1>3 DEF Look

LEMMA AcquireKeeps ==
  ASSUME PoolInv, NEW x \in Callers, Acquire(x) \/ Again(x)
  PROVE  PoolInv'
<1>1. CASE Acquire(x)
  <2>1. PICK k \in Keys : want' = [want EXCEPT ![x] = k] /\ Look(x, k)
    BY <1>1 DEF Acquire
  <2> QED
    BY <1>1, <2>1, LookKeeps DEF Acquire
<1>2. CASE Again(x)
  <2>1. want[x] \in Keys
    BY <1>2 DEF Again, PoolInv, CallerFits
  <2> QED
    BY <1>2, <2>1, LookKeeps DEF Again
<1> QED
  BY <1>1, <1>2

\* A new container, or none.
LEMMA MakeKeepsTypes ==
  ASSUME PoolTypeOK, NEW p \in Instances, Make(p)
  PROVE  /\ made' = made + 1 /\ made + 1 \in Ids
         /\ containers' \subseteq 1..made' /\ made' \in 0..MaxContainers
         /\ label' \in [Ids -> Instances \union {NoOne}]
         /\ maker' \in [Ids -> Instances \union {NoOne}]
         /\ \A c \in 1..made : label'[c] = label[c] /\ maker'[c] = maker[c]
         /\ label'[made + 1] = Owner(p) /\ maker'[made + 1] = p
<1> USE PoolAssumption
<1>1. made \in Nat /\ made + 1 \in Ids /\ 1..made \subseteq Ids /\ 1..made \subseteq 1..(made + 1)
  BY DEF Make, PoolTypeOK, Ids
<1>2. Owner(p) \in Instances \union {NoOne}
  BY DEF Owner
<1>3. /\ made' = made + 1 /\ containers' = containers \union {made + 1}
      /\ label' = [label EXCEPT ![made + 1] = Owner(p)]
      /\ maker' = [maker EXCEPT ![made + 1] = p]
  BY DEF Make
<1>4. containers' \subseteq 1..made' /\ made' \in 0..MaxContainers
  BY <1>1, <1>3 DEF PoolTypeOK, Ids
<1>5. made + 1 \notin 1..made
  BY <1>1
<1> QED
  BY <1>1, <1>2, <1>3, <1>4, <1>5 DEF PoolTypeOK

\* A start goes on, or a waiting caller gives up: the pool is left alone.
LEMMA StartKeeps ==
  ASSUME PoolInv, NEW x \in Callers,
         GiveUp(x) \/ Create(x) \/ CreateFails(x) \/ Boot(x) \/ BootFails(x)
  PROVE  PoolInv'
<1> USE PoolAssumption DEF PoolInv, dockerVars, lockVars, processVars, poolVars
<1>0. /\ HostOf[x] \in Instances /\ made \in Nat /\ 1..made \subseteq 1..(made + 1)
      /\ containers \subseteq 1..made /\ lost \subseteq 1..made
      /\ on \in [Callers -> Callers \union {NoOne}]
      /\ mine \in [Callers -> Ids \union {0}]
      /\ pc \in [Callers -> {"idle", "waiting", "again", "pulling", "booting", "started",
                             "failing", "announcing", "done"}]
  BY DEF PoolTypeOK
<1>1. ASSUME Make(HostOf[x])
      PROVE  /\ made' = made + 1 /\ made' \in 0..MaxContainers /\ made + 1 \in Ids
             /\ containers' \subseteq 1..made'
             /\ label' \in [Ids -> Instances \union {NoOne}]
             /\ maker' \in [Ids -> Instances \union {NoOne}]
  BY <1>0, <1>1, MakeKeepsTypes
<1>2. /\ containers' \subseteq 1..made' /\ lost' \subseteq 1..made'
      /\ made' \in 0..MaxContainers
      /\ label' \in [Ids -> Instances \union {NoOne}]
      /\ maker' \in [Ids -> Instances \union {NoOne}]
  <2>1. CASE Make(HostOf[x])
    <3>1. lost' = lost \/ lost' = lost \union {made + 1}
      BY <2>1 DEF GiveUp, Create, CreateFails, Boot, BootFails
    <3>2. made + 1 \in 1..(made + 1)
      BY <1>0
    <3> QED
      BY <1>0, <1>1, <2>1, <3>1, <3>2
  <2>2. CASE ~ Make(HostOf[x])
    <3>1. UNCHANGED <<made, label, maker, lost>> /\ containers' \subseteq containers
      BY <2>2 DEF GiveUp, Create, CreateFails, Boot, BootFails
    <3> QED
      BY <1>0, <3>1 DEF PoolTypeOK
  <2> QED
    BY <2>1, <2>2
<1>3. /\ UNCHANGED <<boxes, starting, want, got, stage, claimed, todo, doomed, lockFile, trying>>
      /\ on' = on \/ on' = [on EXCEPT ![x] = NoOne]
  BY DEF GiveUp, Create, CreateFails, Boot, BootFails
<1>4. mine[x] # 0 <=> pc[x] \in {"booting", "started"}
  BY DEF CallerFits
<1>5. PICK s \in {"done", "booting", "started", "failing"} :
        /\ pc' = [pc EXCEPT ![x] = s]
        /\ pc[x] # "idle" /\ (s = "done" => pc[x] = "waiting")
        /\ s # "done" => pc[x] \in InStart
  BY DEF GiveUp, Create, CreateFails, Boot, BootFails, InStart
<1>6. PICK m \in Ids \union {0} :
        /\ mine' = [mine EXCEPT ![x] = m]
        /\ m # 0 <=> pc'[x] \in {"booting", "started"}
  <2>1. CASE Create(x)
    <3>1. made + 1 \in Ids /\ made + 1 # 0
      BY <1>0, <1>1, <2>1 DEF Create
    <3>2. mine' = [mine EXCEPT ![x] = made + 1] /\ pc' = [pc EXCEPT ![x] = "booting"]
      BY <2>1 DEF Create
    <3>3. pc'[x] = "booting"
      BY <1>0, <3>2
    <3> QED
      BY <3>1, <3>2, <3>3
  <2>2. CASE BootFails(x)
    <3>1. mine' = [mine EXCEPT ![x] = 0] /\ pc' = [pc EXCEPT ![x] = "failing"]
      BY <2>2 DEF BootFails
    <3>2. pc'[x] = "failing"
      BY <1>0, <3>1
    <3> QED
      BY <3>1, <3>2
  <2>3. CASE GiveUp(x) \/ CreateFails(x) \/ Boot(x)
    <3>1. mine' = mine /\ mine = [mine EXCEPT ![x] = mine[x]] /\ mine[x] \in Ids \union {0}
      BY <1>0, <2>3 DEF GiveUp, CreateFails, Boot
    <3>2. pc'[x] \in {"booting", "started"} <=> pc[x] \in {"booting", "started"}
      <4>1. \/ pc[x] = "waiting" /\ pc' = [pc EXCEPT ![x] = "done"]
            \/ pc[x] = "pulling" /\ pc' = [pc EXCEPT ![x] = "failing"]
            \/ pc[x] = "booting" /\ pc' = [pc EXCEPT ![x] = "started"]
        BY <2>3 DEF GiveUp, CreateFails, Boot
      <4> QED
        BY <1>0, <4>1
    <3> QED
      BY <1>4, <3>1, <3>2
  <2> QED
    BY <2>1, <2>2, <2>3
<1>7. /\ pc' \in [Callers -> {"idle", "waiting", "again", "pulling", "booting", "started",
                              "failing", "announcing", "done"}]
      /\ pc'[x] # "idle"
      /\ pc'[x] \in InStart <=> pc[x] \in InStart
      /\ \A y \in Callers : y # x => pc'[y] = pc[y]
  BY <1>0, <1>5 DEF InStart
<1>8. /\ mine' \in [Callers -> Ids \union {0}]
      /\ mine'[x] = m
      /\ \A y \in Callers : y # x => mine'[y] = mine[y]
  BY <1>0, <1>6
<1>9. on' \in [Callers -> Callers \union {NoOne}]
  BY <1>0, <1>3
<1>10. PoolTypeOK'
  <2>1. \A p \in Instances, k \in Keys : starting[p][k] # NoOne =>
          /\ HostOf[starting[p][k]] = p /\ want[starting[p][k]] = k
          /\ pc'[starting[p][k]] \in {"pulling", "booting", "started", "failing"}
    <3> SUFFICES ASSUME NEW p \in Instances, NEW k \in Keys, starting[p][k] # NoOne
                 PROVE  /\ HostOf[starting[p][k]] = p /\ want[starting[p][k]] = k
                        /\ pc'[starting[p][k]] \in {"pulling", "booting", "started", "failing"}
      OBVIOUS
    <3>1. starting[p][k] \in Callers /\ HostOf[starting[p][k]] = p /\ want[starting[p][k]] = k
          /\ pc[starting[p][k]] \in {"pulling", "booting", "started", "failing"}
      BY DEF PoolTypeOK
    <3> QED
      BY <3>1, <1>7 DEF InStart
  <2> QED
    BY <1>2, <1>3, <1>7, <1>8, <1>9, <2>1 DEF PoolTypeOK
<1>11. ASSUME NEW y \in Callers PROVE CallerFits(y)'
  <2>1. CASE y = x
    BY <1>3, <1>5, <1>6, <1>7, <1>8, <2>1 DEF CallerFits, Running
  <2>2. CASE y # x
    BY <1>3, <1>7, <1>8, <2>2 DEF CallerFits, Running
  <2> QED
    BY <2>1, <2>2
<1>12. PoolFits'
  BY <1>3 DEF PoolFits, Running
<1> QED
  BY <1>10, <1>11, <1>12

LEMMA ConcludeKeeps ==
  ASSUME PoolInv, NEW x \in Callers, Conclude(x)
  PROVE  PoolInv'
<1> DEFINE p == HostOf[x]
           k == want[x]
<1> USE PoolAssumption DEF PoolInv, dockerVars, lockVars, processVars
<1>1. /\ p \in Instances /\ k \in Keys
      /\ starting[p][k] = x /\ boxes[p][k] = 0
      /\ x # NoOne /\ mine[x] \in Ids \union {0}
  <2>1. p \in Instances /\ x # NoOne /\ mine[x] \in Ids \union {0}
    BY DEF PoolTypeOK
  <2>2. pc[x] \in InStart
    BY DEF Conclude, InStart
  <2>3. k \in Keys /\ starting[p][k] = x
    BY <2>2 DEF CallerFits, InStart
  <2>4. boxes[p][k] = 0
    BY <2>1, <2>3 DEF PoolFits
  <2> QED
    BY <2>1, <2>3, <2>4
<1>2. /\ starting' \in [Instances -> [Keys -> Callers \union {NoOne}]]
      /\ starting'[p][k] = NoOne
      /\ \A q \in Instances, j \in Keys : ~ (q = p /\ j = k) => starting'[q][j] = starting[q][j]
  BY <1>1 DEF Conclude, PoolTypeOK
<1>3. /\ boxes' \in [Instances -> [Keys -> Ids \union {0}]]
      /\ \A q \in Instances, j \in Keys : ~ (q = p /\ j = k) => boxes'[q][j] = boxes[q][j]
      /\ boxes'[p][k] = mine[x]
  <2>1. CASE pc[x] = "started"
    BY <1>1, <2>1 DEF Conclude, PoolTypeOK
  <2>2. CASE pc[x] # "started"
    <3>1. mine[x] = 0 /\ boxes' = boxes
      BY <2>2 DEF Conclude, CallerFits
    <3> QED
      BY <1>1, <3>1 DEF PoolTypeOK
  <2> QED
    BY <2>1, <2>2
<1>4. /\ pc'[x] = "announcing" /\ want' = want /\ got'[x] = mine[x]
      /\ mine'[x] = 0 /\ stage' = stage
      /\ \A y \in Callers : y # x => pc'[y] = pc[y] /\ mine'[y] = mine[y] /\ got'[y] = got[y]
  BY DEF Conclude, PoolTypeOK
<1>5. PoolTypeOK'
  <2>1. \A q \in Instances, j \in Keys : starting'[q][j] # NoOne =>
          /\ HostOf[starting'[q][j]] = q /\ want[starting'[q][j]] = j
          /\ pc'[starting'[q][j]] \in {"pulling", "booting", "started", "failing"}
    <3> SUFFICES ASSUME NEW q \in Instances, NEW j \in Keys, starting'[q][j] # NoOne
                 PROVE  /\ HostOf[starting'[q][j]] = q /\ want[starting'[q][j]] = j
                        /\ pc'[starting'[q][j]] \in {"pulling", "booting", "started", "failing"}
      OBVIOUS
    <3>1. ~ (q = p /\ j = k) /\ starting'[q][j] = starting[q][j]
      BY <1>2
    <3>2. starting[q][j] \in Callers /\ HostOf[starting[q][j]] = q /\ want[starting[q][j]] = j
          /\ pc[starting[q][j]] \in {"pulling", "booting", "started", "failing"}
      BY <3>1 DEF PoolTypeOK
    <3>3. starting[q][j] # x
      BY <3>1, <3>2
    <3> QED
      BY <3>1, <3>2, <3>3, <1>4
  <2>2. /\ pc' \in [Callers -> {"idle", "waiting", "again", "pulling", "booting", "started",
                               "failing", "announcing", "done"}]
        /\ mine' \in [Callers -> Ids \union {0}] /\ got' \in [Callers -> Ids \union {0}]
    BY <1>1 DEF Conclude, PoolTypeOK
  <2> QED
    BY <1>2, <1>3, <2>1, <2>2 DEF Conclude, PoolTypeOK
<1>6. ASSUME NEW y \in Callers PROVE CallerFits(y)'
  <2>1. CASE y = x
    BY <1>1, <1>4, <2>1 DEF CallerFits, InStart, Conclude, Running
  <2>2. CASE y # x
    <3>1. ASSUME pc[y] \in InStart PROVE starting'[HostOf[y]][want[y]] = y
      <4>1. want[y] \in Keys /\ HostOf[y] \in Instances /\ starting[HostOf[y]][want[y]] = y
        BY <3>1 DEF CallerFits, InStart
      <4>2. ~ (HostOf[y] = p /\ want[y] = k)
        BY <4>1, <1>1, <2>2
      <4> QED
        BY <4>1, <4>2, <1>2
    <3> QED
      BY <1>4, <2>2, <3>1 DEF CallerFits, Running
  <2> QED
    BY <2>1, <2>2
<1>7. PoolFits'
  <2>1. ASSUME NEW q \in Instances, NEW j \in Keys
        PROVE  /\ starting'[q][j] # NoOne => boxes'[q][j] = 0
               /\ ~ Running(q)' => boxes'[q][j] = 0
    <3>1. Running(p) /\ (Running(q)' <=> Running(q))
      BY <1>4 DEF Conclude, Running
    <3>2. starting'[q][j] # NoOne => starting[q][j] # NoOne /\ boxes'[q][j] = boxes[q][j]
      BY <1>2, <1>3
    <3>3. ~ Running(q) => boxes'[q][j] = boxes[q][j]
      BY <3>1, <1>3
    <3> QED
      BY <3>1, <3>2, <3>3 DEF PoolFits
  <2>2. ASSUME NEW y \in Callers, got'[y] # 0, stage'[HostOf[y]] = "serving"
        PROVE  boxes'[HostOf[y]][want'[y]] = got'[y]
    <3>1. CASE y = x
      BY <1>3, <1>4, <3>1
    <3>2. CASE y # x
      <4>1. got[y] # 0 /\ boxes[HostOf[y]][want[y]] = got[y] /\ got'[y] = got[y]
        BY <2>2, <3>2, <1>4 DEF PoolFits
      <4>2. HostOf[y] \in Instances /\ want[y] \in Keys
        BY <4>1 DEF CallerFits
      <4>3. ~ (HostOf[y] = p /\ want[y] = k)
        BY <4>1, <1>1
      <4> QED
        BY <4>1, <4>2, <4>3, <1>3, <1>4
    <3> QED
      BY <3>1, <3>2
  <2> QED
    BY <2>1, <2>2 DEF PoolFits
<1> QED
  BY <1>5, <1>6, <1>7

LEMMA AnnounceKeeps ==
  ASSUME PoolInv, NEW x \in Callers, Announce(x)
  PROVE  PoolInv'
<1> USE PoolAssumption DEF PoolInv, dockerVars, lockVars, processVars, poolVars
<1>1. /\ UNCHANGED <<boxes, starting, want, on, mine, got, stage>>
      /\ \A y \in Callers :
           \/ pc'[y] = pc[y]
           \/ pc[y] \in {"announcing", "waiting"} /\ pc'[y] \in {"done", "again"}
  BY DEF Announce, PoolTypeOK
<1>2. PoolTypeOK'
  BY <1>1 DEF Announce, PoolTypeOK, Ids
<1>3. ASSUME NEW y \in Callers PROVE CallerFits(y)'
  BY <1>1 DEF CallerFits, InStart, Running
<1>4. PoolFits'
  BY <1>1 DEF PoolFits, Running
<1> QED
  BY <1>2, <1>3, <1>4

LEMMA ClosePoolKeeps ==
  ASSUME PoolInv, NEW p \in Instances, ClosePool(p) \/ CloseOwner(p)
  PROVE  PoolInv'
<1> USE PoolAssumption DEF PoolInv, dockerVars, lockVars, poolVars, callerVars
<1>1. /\ UNCHANGED <<starting, pc, want, on, mine, got>>
      /\ \A q \in Instances : Running(q)' <=> Running(q)
      /\ \A q \in Instances : stage'[q] = "serving" => stage[q] = "serving" /\ q # p
      /\ boxes' \in [Instances -> [Keys -> Ids \union {0}]]
      /\ \A q \in Instances, k \in Keys : boxes'[q][k] = boxes[q][k] \/ (q = p /\ boxes'[q][k] = 0)
  <2>1. CASE ClosePool(p)
    <3>1. UNCHANGED <<starting, pc, want, on, mine, got>> /\ stage[p] = "serving"
      BY <2>1 DEF ClosePool
    <3>2. \A q \in Instances : stage'[q] = IF q = p THEN "closing" ELSE stage[q]
      BY <2>1 DEF ClosePool, PoolTypeOK
    <3>3. boxes' = [boxes EXCEPT ![p] = [k \in Keys |-> 0]]
      BY <2>1 DEF ClosePool
    <3>4. boxes' \in [Instances -> [Keys -> Ids \union {0}]]
      BY <3>3 DEF PoolTypeOK
    <3>5. \A q \in Instances, k \in Keys : boxes'[q][k] = IF q = p THEN 0 ELSE boxes[q][k]
      BY <3>3 DEF PoolTypeOK
    <3>6. \A q \in Instances :
            (Running(q)' <=> Running(q)) /\ (stage'[q] = "serving" => stage[q] = "serving" /\ q # p)
      BY <3>1, <3>2 DEF Running
    <3> QED
      BY <3>1, <3>4, <3>5, <3>6
  <2>2. CASE CloseOwner(p)
    <3>1. UNCHANGED <<starting, pc, want, on, mine, got, boxes>> /\ stage[p] = "closing"
      BY <2>2 DEF CloseOwner
    <3>2. \A q \in Instances : stage'[q] = IF q = p THEN "leaving" ELSE stage[q]
      BY <2>2 DEF CloseOwner, PoolTypeOK
    <3>3. \A q \in Instances :
            (Running(q)' <=> Running(q)) /\ (stage'[q] = "serving" => stage[q] = "serving" /\ q # p)
      BY <3>1, <3>2 DEF Running
    <3> QED
      BY <3>1, <3>3 DEF PoolTypeOK
  <2> QED
    BY <2>1, <2>2
<1>2. PoolTypeOK'
  <2>1. CASE ClosePool(p)
    <3>1. InPool(p) \subseteq Ids
      BY DEF InPool, PoolTypeOK
    <3> QED
      BY <1>1, <2>1, <3>1 DEF ClosePool, PoolTypeOK, Ids
  <2>2. CASE CloseOwner(p)
    BY <2>2 DEF CloseOwner, PoolTypeOK, Ids
  <2> QED
    BY <2>1, <2>2
<1>3. ASSUME NEW x \in Callers PROVE CallerFits(x)'
  BY <1>1 DEF CallerFits
<1>4. PoolFits'
  BY <1>1 DEF PoolFits, CallerFits
<1> QED
  BY <1>2, <1>3, <1>4

\* What a process kept in memory is gone with it; the others keep theirs.
LEMMA ForgottenKeeps ==
  ASSUME PoolInv, NEW p \in Instances, Exit(p) \/ Killed(p)
  PROVE  PoolInv'
<1> USE PoolAssumption DEF PoolInv, dockerVars, lockVars
<1>1. /\ Forgotten(p)
      /\ stage' \in [Instances -> {"off", "listing", "reaping", "serving", "closing",
                              "leaving", "exited", "killed"}]
      /\ ~ Running(p)'
      /\ \A q \in Instances : q # p => stage'[q] = stage[q]
  <2>1. CASE Exit(p)
    <3>1. Forgotten(p)
      BY <2>1 DEF Exit
    <3>2. stage' = [stage EXCEPT ![p] = "exited"]
      BY <2>1 DEF Exit
    <3> QED
      BY <3>1, <3>2 DEF PoolTypeOK, Running
  <2>2. CASE Killed(p)
    <3>1. Forgotten(p)
      BY <2>2 DEF Killed
    <3>2. stage' = [stage EXCEPT ![p] = "killed"]
      BY <2>2 DEF Killed
    <3> QED
      BY <3>1, <3>2 DEF PoolTypeOK, Running
  <2> QED
    BY <2>1, <2>2
<1>2. /\ \A q \in Instances, k \in Keys :
           IF q = p THEN boxes'[q][k] = 0 /\ starting'[q][k] = NoOne
           ELSE boxes'[q][k] = boxes[q][k] /\ starting'[q][k] = starting[q][k]
      /\ \A x \in Callers :
           IF HostOf[x] = p
           THEN pc'[x] = "idle" /\ want'[x] = NoOne /\ mine'[x] = 0 /\ got'[x] = 0
           ELSE pc'[x] = pc[x] /\ want'[x] = want[x] /\ mine'[x] = mine[x] /\ got'[x] = got[x]
  BY <1>1 DEF Forgotten, PoolTypeOK
<1>3. PoolTypeOK'
  <2>1. \A q \in Instances, j \in Keys : starting'[q][j] # NoOne =>
          /\ HostOf[starting'[q][j]] = q /\ want'[starting'[q][j]] = j
          /\ pc'[starting'[q][j]] \in {"pulling", "booting", "started", "failing"}
    <3> SUFFICES ASSUME NEW q \in Instances, NEW j \in Keys, starting'[q][j] # NoOne
                 PROVE  /\ HostOf[starting'[q][j]] = q /\ want'[starting'[q][j]] = j
                        /\ pc'[starting'[q][j]] \in {"pulling", "booting", "started", "failing"}
      OBVIOUS
    <3>1. q # p /\ starting'[q][j] = starting[q][j]
      BY <1>2
    <3>2. starting[q][j] \in Callers /\ HostOf[starting[q][j]] = q /\ want[starting[q][j]] = j
          /\ pc[starting[q][j]] \in {"pulling", "booting", "started", "failing"}
      BY <3>1 DEF PoolTypeOK
    <3> QED
      BY <3>1, <3>2, <1>2
  <2>2. /\ todo' \in [Instances -> SUBSET Ids]
        /\ doomed' \in [Instances -> Ids \union {0}]
        /\ boxes' \in [Instances -> [Keys -> Ids \union {0}]]
        /\ starting' \in [Instances -> [Keys -> Callers \union {NoOne}]]
        /\ pc' \in [Callers -> {"idle", "waiting", "again", "pulling", "booting", "started",
                         "failing", "announcing", "done"}]
        /\ want' \in [Callers -> Keys \union {NoOne}]
        /\ on' \in [Callers -> Callers \union {NoOne}]
        /\ mine' \in [Callers -> Ids \union {0}]
        /\ got' \in [Callers -> Ids \union {0}]
    BY <1>1 DEF Forgotten, PoolTypeOK
  <2>3. /\ lockFile' \in [Instances -> {"absent", "held", "left"}]
        /\ trying' \in [Instances -> Instances \union {NoOne}]
        /\ UNCHANGED <<containers, made, label, maker, lost, claimed>>
    <3>1. CASE Exit(p)
      BY <3>1 DEF Exit, PoolTypeOK
    <3>2. CASE Killed(p)
      <4>1. lockFile' = [lockFile EXCEPT ![p] = IF @ = "held" THEN "left" ELSE @]
        BY <3>2 DEF Killed
      <4>2. trying' = [trying EXCEPT ![p] = NoOne]
            /\ UNCHANGED <<containers, made, label, maker, lost, claimed>>
        BY <3>2 DEF Killed
      <4> QED
        BY <4>1, <4>2 DEF PoolTypeOK
    <3> QED
      BY <3>1, <3>2
  <2> QED
    BY <1>1, <2>1, <2>2, <2>3 DEF PoolTypeOK
<1>4. ASSUME NEW x \in Callers PROVE CallerFits(x)'
  <2>1. CASE HostOf[x] = p
    BY <2>1, <1>2 DEF CallerFits, InStart
  <2>2. CASE HostOf[x] # p
    <3>1. HostOf[x] \in Instances
      OBVIOUS
    <3>2. pc[x] \in InStart =>
            want[x] \in Keys /\ starting'[HostOf[x]][want[x]] = starting[HostOf[x]][want[x]]
      BY <2>2, <1>2, <3>1 DEF CallerFits, InStart
    <3> QED
      BY <2>2, <1>1, <1>2, <3>1, <3>2 DEF CallerFits, Running
  <2> QED
    BY <2>1, <2>2
<1>5. PoolFits'
  <2>1. ASSUME NEW q \in Instances, NEW j \in Keys
        PROVE  /\ starting'[q][j] # NoOne => boxes'[q][j] = 0
               /\ ~ Running(q)' => boxes'[q][j] = 0
    BY <1>1, <1>2 DEF PoolFits, Running
  <2>2. ASSUME NEW y \in Callers, got'[y] # 0, stage'[HostOf[y]] = "serving"
        PROVE  boxes'[HostOf[y]][want'[y]] = got'[y]
    <3>1. HostOf[y] # p /\ HostOf[y] \in Instances /\ got[y] # 0 /\ stage[HostOf[y]] = "serving"
      BY <1>1, <1>2, <2>2
    <3>2. want[y] \in Keys /\ boxes[HostOf[y]][want[y]] = got[y]
      BY <3>1 DEF CallerFits, PoolFits
    <3> QED
      BY <3>1, <3>2, <1>2
  <2> QED
    BY <2>1, <2>2 DEF PoolFits
<1> QED
  BY <1>3, <1>4, <1>5

LEMMA UnchangedKeeps ==
  ASSUME PoolInv, UNCHANGED vars
  PROVE  PoolInv'
BY DEF PoolInv, PoolTypeOK, CallerFits, PoolFits, Running, vars, dockerVars, lockVars, processVars,
       poolVars, callerVars

(***************************************************************************)
(* Types, and what callers and the pool hold, for every instance.          *)
(***************************************************************************)
THEOREM PoolInvariant == Spec => []PoolInv
<1>1. Init => PoolInv
  BY PoolInvHolds
<1>2. PoolInv /\ [Next]_vars => PoolInv'
  <2> SUFFICES ASSUME PoolInv, [Next]_vars PROVE PoolInv'
    OBVIOUS
  <2>1. ASSUME NEW p \in Instances,
               Claim(p) \/ List(p) \/ SkipReaping(p) \/ Reaping(p)
               \/ ClosePool(p) \/ Closing(p) \/ Killed(p)
        PROVE  PoolInv'
    <3>1. CASE Claim(p) \/ List(p) \/ SkipReaping(p) \/ Serve(p)
      BY <3>1, ClaimKeeps
    <3>2. CASE DropLock(p) \/ Reap(p) \/ RemoveBox(p)
                 \/ (\E c \in Ids : Keep(p, c) \/ Condemn(p, c) \/ TryLock(p, c))
      BY <3>2, ReapingKeeps
    <3>3. CASE ClosePool(p) \/ CloseOwner(p)
      BY <3>3, ClosePoolKeeps
    <3>4. CASE Exit(p) \/ Killed(p)
      BY <3>4, ForgottenKeeps
    <3> QED
      BY <2>1, <3>1, <3>2, <3>3, <3>4 DEF Reaping, Closing
  <2>2. ASSUME NEW x \in Callers, Acquire(x) \/ Again(x) \/ GiveUp(x) \/ Starting(x)
        PROVE  PoolInv'
    <3>1. CASE Acquire(x) \/ Again(x)
      BY <3>1, AcquireKeeps
    <3>2. CASE GiveUp(x) \/ Create(x) \/ CreateFails(x) \/ Boot(x) \/ BootFails(x)
      BY <3>2, StartKeeps
    <3>3. CASE Conclude(x)
      BY <3>3, ConcludeKeeps
    <3>4. CASE Announce(x)
      BY <3>4, AnnounceKeeps
    <3> QED
      BY <2>2, <3>1, <3>2, <3>3, <3>4 DEF Starting
  <2>3. CASE UNCHANGED vars
    BY <2>3, UnchangedKeeps
  <2> QED
    BY <2>1, <2>2, <2>3 DEF Next, Rest
<1> QED
  BY <1>1, <1>2, PTL DEF Spec

(***************************************************************************)
(* In particular the types: a start on record is a caller's that is at it. *)
(***************************************************************************)
THEOREM PoolTypesHold == Spec => []PoolTypeOK
<1>1. PoolInv => PoolTypeOK
  BY DEF PoolInv
<1> QED
  BY <1>1, PoolInvariant, PTL

(***************************************************************************)
(* Callers that want the same key share one server, however they race.     *)
(***************************************************************************)
THEOREM OneServer == Spec => []OneServerPerKey
<1>1. PoolInv => OneServerPerKey
  <2> SUFFICES ASSUME PoolInv, NEW k \in Keys, NEW x \in Callers, NEW y \in Callers,
                      HostOf[x] = HostOf[y], want[x] = k, want[y] = k
               PROVE  /\ mine[x] # 0 => boxes[HostOf[x]][k] = 0 /\ (mine[y] # 0 => x = y)
                      /\ stage[HostOf[x]] = "serving" /\ got[x] # 0 /\ got[y] # 0 => got[x] = got[y]
    BY DEF OneServerPerKey
  <2>1. HostOf[x] \in Instances
    BY PoolAssumption
  <2>2. \A z \in {x, y} : mine[z] # 0 => starting[HostOf[z]][want[z]] = z /\ z # NoOne
    BY PoolAssumption DEF PoolInv, CallerFits, InStart
  <2>3. mine[x] # 0 => boxes[HostOf[x]][k] = 0 /\ (mine[y] # 0 => x = y)
    BY <2>1, <2>2 DEF PoolInv, PoolFits
  <2>4. stage[HostOf[x]] = "serving" /\ got[x] # 0 /\ got[y] # 0 => got[x] = got[y]
    BY DEF PoolInv, PoolFits
  <2> QED
    BY <2>3, <2>4
<1> QED
  BY <1>1, PoolInvariant, PTL

-----------------------------------------------------------------------------
(***************************************************************************)
(* Containers, who made them and who knows of them.                        *)
(***************************************************************************)

Early == {"off", "listing", "reaping"}

\* A container is labelled by the process that made it, once it served.
LabelsFit ==
  \A c \in 1..made :
    /\ maker[c] \in Instances /\ stage[maker[c]] \notin Early
    /\ label[c] = Owner(maker[c])

\* A process works with containers it made, and no caller with another's.
ServersFit ==
  /\ \A p \in Instances, k \in Keys : boxes[p][k] # 0 =>
       boxes[p][k] \in 1..made /\ maker[boxes[p][k]] = p
  /\ \A x \in Callers : mine[x] # 0 =>
       /\ mine[x] \in 1..made /\ maker[mine[x]] = HostOf[x]
       /\ \A y \in Callers : mine[y] = mine[x] => y = x
       /\ \A k \in Keys : boxes[HostOf[x]][k] # mine[x]

\* Only what there was when it looked is on a process's list, and only its own
\* when it closes.
ListsFit ==
  /\ \A p \in Instances : todo[p] \subseteq 1..made
  /\ \A p \in Instances : stage[p] = "closing" => \A c \in todo[p] : maker[c] = p

ContainersInv == LabelsFit /\ ServersFit /\ ListsFit /\ NoneForgotten

LEMMA ContainersInvHolds == Init => ContainersInv
<1> SUFFICES ASSUME Init PROVE ContainersInv
  OBVIOUS
<1> USE PoolAssumption
<1>1. LabelsFit
  BY DEF Init, LabelsFit
<1>2. ServersFit
  BY DEF Init, ServersFit
<1>3. ListsFit
  BY DEF Init, ListsFit
<1>4. NoneForgotten
  BY DEF Init, NoneForgotten
<1> QED
  BY <1>1, <1>2, <1>3, <1>4 DEF ContainersInv

\* A step that makes no container and takes none from where it is known.
LEMMA QuietKeeps ==
  ASSUME PoolInv, ContainersInv,
         UNCHANGED <<made, label, maker, lost, boxes, mine>>,
         containers' \subseteq containers,
         \A p \in Instances : stage[p] # "off" => Owner(p)' = Owner(p),
         \A p \in Instances : stage[p] \notin Early => stage'[p] \notin Early,
         \A p \in Instances :
           stage'[p] = "serving" => stage[p] \in {"serving", "listing", "reaping"},
         \A p \in Instances : stage'[p] = "closing" => stage[p] = "closing",
         \A p \in Instances :
           \/ todo'[p] \subseteq todo[p]
           \/ todo'[p] \subseteq containers /\ stage'[p] # "closing"
  PROVE  ContainersInv'
<1> USE PoolAssumption DEF PoolInv, ContainersInv
<1>1. LabelsFit'
  BY DEF LabelsFit, Early
<1>2. ServersFit'
  BY DEF ServersFit
<1>3. ListsFit'
  BY DEF ListsFit, PoolTypeOK
<1>4. NoneForgotten'
  <2> SUFFICES ASSUME NEW p \in Instances, stage'[p] = "serving",
                      NEW c \in containers, maker[c] = p
               PROVE  c \in InUse(p) \union lost
    BY DEF NoneForgotten, InUse, InPool
  <2>1. stage[p] = "serving"
    BY DEF LabelsFit, PoolTypeOK, Early
  <2> QED
    BY <2>1 DEF NoneForgotten
<1> QED
  BY <1>1, <1>2, <1>3, <1>4

LEMMA ProcessKeepsContainers ==
  ASSUME PoolInv, ContainersInv, NEW p \in Instances,
         Claim(p) \/ List(p) \/ SkipReaping(p) \/ Serve(p) \/ DropLock(p) \/ Reap(p)
           \/ RemoveBox(p) \/ CloseOwner(p)
           \/ (\E c \in Ids : Keep(p, c) \/ Condemn(p, c) \/ TryLock(p, c))
  PROVE  ContainersInv'
<1> USE PoolAssumption DEF PoolInv, dockerVars, lockVars, processVars, poolVars, callerVars
<1>1. CASE Claim(p)
  <2>1. /\ UNCHANGED <<containers, made, label, maker, lost, boxes, mine, todo>>
        /\ stage[p] = "off" /\ stage' = [stage EXCEPT ![p] = "listing"]
    BY <1>1 DEF Claim
  <2>2. ASSUME NEW q \in Instances, q # p PROVE Owner(q)' = Owner(q)
    <3>1. claimed'[q] = claimed[q]
      BY <1>1, <2>2 DEF Claim, PoolTypeOK
    <3> QED
      BY <3>1, Zenon DEF Owner
  <2>3. \A q \in Instances : q # p => stage'[q] = stage[q]
    BY <2>1 DEF PoolTypeOK
  <2>4. stage'[p] = "listing"
    BY <2>1 DEF PoolTypeOK
  <2> QED
    BY <2>1, <2>2, <2>3, <2>4, QuietKeeps DEF Early
<1>2. CASE List(p)
  <2>1. /\ UNCHANGED <<containers, made, label, maker, lost, boxes, mine, claimed>>
        /\ stage[p] = "listing" /\ stage' = [stage EXCEPT ![p] = "reaping"]
        /\ todo' = [todo EXCEPT ![p] = containers]
    BY <1>2 DEF List
  <2>2. \A q \in Instances : stage'[q] = IF q = p THEN "reaping" ELSE stage[q]
    BY <2>1 DEF PoolTypeOK
  <2>3. \A q \in Instances : todo'[q] = IF q = p THEN containers ELSE todo[q]
    BY <2>1 DEF PoolTypeOK
  <2>4. \A q \in Instances : Owner(q)' = Owner(q)
    BY <2>1 DEF Owner
  <2> QED
    BY <2>1, <2>2, <2>3, <2>4, QuietKeeps DEF Early
<1>3. CASE SkipReaping(p) \/ Serve(p) \/ CloseOwner(p)
  <2>1. /\ UNCHANGED <<containers, made, label, maker, lost, boxes, mine, claimed, todo>>
        /\ \/ stage[p] \in {"listing", "reaping"} /\ stage' = [stage EXCEPT ![p] = "serving"]
           \/ stage[p] = "closing" /\ stage' = [stage EXCEPT ![p] = "leaving"]
    BY <1>3 DEF SkipReaping, Serve, CloseOwner
  <2>2. \A q \in Instances : q # p => stage'[q] = stage[q]
    BY <2>1 DEF PoolTypeOK
  <2>3. \/ stage[p] \in {"listing", "reaping"} /\ stage'[p] = "serving"
        \/ stage[p] = "closing" /\ stage'[p] = "leaving"
    BY <2>1 DEF PoolTypeOK
  <2>4. \A q \in Instances : Owner(q)' = Owner(q)
    BY <2>1 DEF Owner
  <2> QED
    BY <2>1, <2>2, <2>3, <2>4, QuietKeeps DEF Early
<1>4. CASE DropLock(p) \/ Reap(p) \/ RemoveBox(p)
            \/ (\E c \in Ids : Keep(p, c) \/ Condemn(p, c) \/ TryLock(p, c))
  <2>1. UNCHANGED <<made, label, maker, lost, boxes, mine, claimed, stage>>
    BY <1>4 DEF DropLock, Reap, RemoveBox, Keep, Condemn, TryLock
  <2>2. containers' \subseteq containers
    BY <1>4 DEF DropLock, Reap, RemoveBox, Keep, Condemn, TryLock
  <2>3. \A q \in Instances : todo'[q] \subseteq todo[q]
    <3>1. CASE UNCHANGED todo
      BY <3>1
    <3>2. ASSUME NEW c, todo' = [todo EXCEPT ![p] = @ \ {c}]
          PROVE  \A q \in Instances : todo'[q] \subseteq todo[q]
      BY <3>2 DEF PoolTypeOK
    <3> QED
      BY <1>4, <3>1, <3>2 DEF DropLock, Reap, RemoveBox, Keep, Condemn, TryLock
  <2>4. \A q \in Instances : Owner(q)' = Owner(q)
    BY <2>1 DEF Owner
  <2> QED
    BY <2>1, <2>2, <2>3, <2>4, QuietKeeps DEF Early
<1> QED
  BY <1>1, <1>2, <1>3, <1>4

\* Servers go out of the pool and out of callers' hands, those of one process.
LEMMA LessIsKnown ==
  ASSUME PoolInv, ContainersInv, NEW p \in Instances,
         UNCHANGED <<made, label, maker, lost, claimed>>,
         containers' \subseteq containers,
         stage'[p] \notin Early, stage'[p] # "serving", stage[p] \notin {"off"},
         \A q \in Instances : q # p => stage'[q] = stage[q] /\ todo'[q] = todo[q],
         \A q \in Instances, k \in Keys :
           boxes'[q][k] = boxes[q][k] \/ (q = p /\ boxes'[q][k] = 0),
         \A x \in Callers : mine'[x] = mine[x] \/ (HostOf[x] = p /\ mine'[x] = 0),
         \A c \in todo'[p] : c \in 1..made /\ maker[c] = p
  PROVE  ContainersInv'
<1> USE PoolAssumption DEF PoolInv, ContainersInv
<1>1. LabelsFit'
  BY DEF LabelsFit, Owner
<1>2. ServersFit'
  BY DEF ServersFit
<1>3. ListsFit'
  BY DEF ListsFit
<1>4. NoneForgotten'
  <2> SUFFICES ASSUME NEW q \in Instances, stage'[q] = "serving",
                      NEW c \in containers, maker[c] = q
               PROVE  c \in InUse(q)' \union lost
    BY DEF NoneForgotten
  <2>1. q # p /\ stage[q] = "serving"
    OBVIOUS
  <2>2. InPool(q)' = InPool(q)
    BY <2>1 DEF InPool
  <2>3. \A x \in Callers : HostOf[x] = q => mine'[x] = mine[x]
    BY <2>1
  <2>4. c \in InUse(q) \union lost
    BY <2>1 DEF NoneForgotten
  <2> QED
    BY <2>2, <2>3, <2>4 DEF InUse
<1> QED
  BY <1>1, <1>2, <1>3, <1>4

LEMMA EndKeepsContainers ==
  ASSUME PoolInv, ContainersInv, NEW p \in Instances, ClosePool(p) \/ Exit(p) \/ Killed(p)
  PROVE  ContainersInv'
<1> USE PoolAssumption DEF PoolInv, dockerVars, lockVars, processVars, poolVars, callerVars
<1>1. CASE ClosePool(p)
  <2>1. /\ UNCHANGED <<containers, made, label, maker, lost, claimed, mine>>
        /\ stage[p] = "serving" /\ stage' = [stage EXCEPT ![p] = "closing"]
        /\ todo' = [todo EXCEPT ![p] = InPool(p)]
        /\ boxes' = [boxes EXCEPT ![p] = [k \in Keys |-> 0]]
    BY <1>1 DEF ClosePool
  <2>2. \A q \in Instances : stage'[q] = IF q = p THEN "closing" ELSE stage[q]
    BY <2>1 DEF PoolTypeOK
  <2>3. \A q \in Instances : todo'[q] = IF q = p THEN InPool(p) ELSE todo[q]
    BY <2>1 DEF PoolTypeOK
  <2>4. \A q \in Instances, k \in Keys : boxes'[q][k] = IF q = p THEN 0 ELSE boxes[q][k]
    BY <2>1 DEF PoolTypeOK
  <2>5. \A c \in todo'[p] : c \in 1..made /\ maker[c] = p
    <3> SUFFICES ASSUME NEW c \in InPool(p) PROVE c \in 1..made /\ maker[c] = p
      BY <2>3
    <3>1. PICK k \in Keys : c = boxes[p][k] /\ c # 0
      BY DEF InPool
    <3> QED
      BY <3>1 DEF ContainersInv, ServersFit
  <2> QED
    BY <2>1, <2>2, <2>3, <2>4, <2>5, LessIsKnown DEF Early
<1>2. CASE Exit(p) \/ Killed(p)
  <2>1. /\ UNCHANGED <<containers, made, label, maker, lost, claimed>> /\ Forgotten(p)
        /\ stage[p] # "off"
        /\ stage' \in {[stage EXCEPT ![p] = "exited"], [stage EXCEPT ![p] = "killed"]}
    BY <1>2 DEF Exit, Killed
  <2>2. /\ \A q \in Instances : q # p => stage'[q] = stage[q]
        /\ stage'[p] \in {"exited", "killed"}
    BY <2>1 DEF PoolTypeOK
  <2>3. \A q \in Instances : todo'[q] = IF q = p THEN {} ELSE todo[q]
    BY <2>1 DEF Forgotten, PoolTypeOK
  <2>4. \A q \in Instances, k \in Keys : boxes'[q][k] = IF q = p THEN 0 ELSE boxes[q][k]
    BY <2>1 DEF Forgotten, PoolTypeOK
  <2>5. \A x \in Callers : mine'[x] = IF HostOf[x] = p THEN 0 ELSE mine[x]
    BY <2>1 DEF Forgotten
  <2> QED
    BY <2>1, <2>2, <2>3, <2>4, <2>5, LessIsKnown DEF Early
<1> QED
  BY <1>1, <1>2

\* Steps of callers that touch no server.
LEMMA CallerKeepsContainers ==
  ASSUME PoolInv, ContainersInv, NEW x \in Callers,
         Acquire(x) \/ Again(x) \/ GiveUp(x) \/ Boot(x) \/ Announce(x)
  PROVE  ContainersInv'
<1> USE DEF dockerVars, lockVars, processVars, poolVars
<1>1. UNCHANGED <<containers, made, label, maker, lost, boxes, mine, claimed, stage, todo>>
  BY DEF Acquire, Again, GiveUp, Boot, Announce
<1>2. \A q \in Instances : Owner(q)' = Owner(q)
  BY <1>1 DEF Owner
<1> QED
  BY <1>1, <1>2, QuietKeeps DEF Early

LEMMA BootFailsKeepsContainers ==
  ASSUME PoolInv, ContainersInv, NEW x \in Callers, BootFails(x)
  PROVE  ContainersInv'
<1> USE PoolAssumption DEF PoolInv, ContainersInv, lockVars, processVars, poolVars
<1>1. /\ UNCHANGED <<made, label, maker, lost, claimed, stage, todo, boxes>>
      /\ mine[x] # 0 /\ containers' = containers \ {mine[x]}
      /\ mine' = [mine EXCEPT ![x] = 0]
  BY DEF BootFails, CallerFits
<1>2. \A y \in Callers : mine'[y] = IF y = x THEN 0 ELSE mine[y]
  BY <1>1 DEF PoolTypeOK
<1>3. LabelsFit'
  BY <1>1 DEF LabelsFit, Owner
<1>4. ServersFit'
  BY <1>1, <1>2 DEF ServersFit
<1>5. ListsFit'
  BY <1>1 DEF ListsFit
<1>6. NoneForgotten'
  <2> SUFFICES ASSUME NEW q \in Instances, stage[q] = "serving",
                      NEW c \in containers', maker[c] = q
               PROVE  c \in InUse(q)' \union lost
    BY <1>1 DEF NoneForgotten
  <2>1. c \in InUse(q) \union lost /\ c # mine[x]
    BY <1>1 DEF NoneForgotten
  <2>2. InPool(q)' = InPool(q)
    BY <1>1 DEF InPool
  <2> QED
    BY <1>2, <2>1, <2>2 DEF InUse
<1> QED
  BY <1>3, <1>4, <1>5, <1>6

\* A container is made: nobody knows of it but the caller it is made for.
LEMMA CreateKeepsContainers ==
  ASSUME PoolInv, ContainersInv, NEW x \in Callers, Create(x) \/ CreateFails(x)
  PROVE  ContainersInv'
<1> DEFINE p == HostOf[x]
<1> USE PoolAssumption DEF PoolInv, lockVars, processVars, poolVars
<1>1. CASE CreateFails(x) /\ UNCHANGED dockerVars
  <2>1. UNCHANGED <<containers, made, label, maker, lost, boxes, mine, claimed, stage, todo>>
    BY <1>1 DEF CreateFails, dockerVars
  <2>2. \A q \in Instances : Owner(q)' = Owner(q)
    BY <2>1 DEF Owner
  <2> QED
    BY <2>1, <2>2, QuietKeeps DEF Early
<1>2. CASE Make(p) /\ (\/ lost' = lost \union {made + 1} /\ UNCHANGED mine
                       \/ lost' = lost /\ mine' = [mine EXCEPT ![x] = made + 1])
  <2>1. UNCHANGED <<claimed, stage, todo, boxes>>
    BY DEF Create, CreateFails
  <2>2. p \in Instances /\ Running(p) /\ mine[x] = 0 /\ made \in Nat
    <3>1. Running(p) /\ pc[x] = "pulling"
      BY DEF Create, CreateFails
    <3>2. mine[x] = 0
      BY <3>1 DEF CallerFits
    <3>3. made \in Nat
      BY DEF PoolTypeOK
    <3> QED
      BY <3>1, <3>2, <3>3
  <2>3. /\ made' = made + 1 /\ containers' = containers \union {made + 1}
        /\ \A c \in 1..made : label'[c] = label[c] /\ maker'[c] = maker[c]
        /\ label'[made + 1] = Owner(p) /\ maker'[made + 1] = p
    BY <1>2, <2>2, MakeKeepsTypes DEF Make
  <2>4. /\ \A c \in 1..made' : c \in 1..made \/ c = made + 1
        /\ 1..made \subseteq 1..made' /\ made + 1 \notin 1..made
        /\ made + 1 # 0 /\ made + 1 \in 1..made'
    BY <2>2, <2>3
  <2>5. \A y \in Callers : mine'[y] = mine[y] \/ (y = x /\ mine'[y] = made + 1)
    BY <1>2 DEF PoolTypeOK
  <2>6. LabelsFit'
    <3>1. \A q \in Instances : Owner(q)' = Owner(q)
      BY <2>1 DEF Owner
    <3> QED
      BY <2>1, <2>2, <2>3, <2>4, <3>1 DEF LabelsFit, ContainersInv, Running, Early
  <2>7. ServersFit'
    <3>1. ASSUME NEW q \in Instances, NEW k \in Keys, boxes'[q][k] # 0
          PROVE  /\ boxes'[q][k] \in 1..made' /\ maker'[boxes'[q][k]] = q /\ boxes'[q][k] # made + 1
      BY <2>1, <2>3, <2>4, <3>1 DEF ServersFit, ContainersInv
    <3>2. ASSUME NEW y \in Callers, mine'[y] # 0
          PROVE  /\ mine'[y] \in 1..made' /\ maker'[mine'[y]] = HostOf[y]
                 /\ \A z \in Callers : mine'[z] = mine'[y] => z = y
                 /\ \A k \in Keys : boxes'[HostOf[y]][k] # mine'[y]
      <4>1. \A z \in Callers : mine[z] # made + 1
        BY <2>4 DEF ServersFit, ContainersInv
      <4>2. CASE mine'[y] = mine[y]
        BY <2>1, <2>3, <2>4, <2>5, <3>2, <4>1, <4>2 DEF ServersFit, ContainersInv
      <4>3. CASE y = x /\ mine'[y] = made + 1
        <5>1. \A z \in Callers : mine'[z] = made + 1 => z = x
          BY <4>1, <2>5
        <5>2. \A k \in Keys : boxes'[p][k] # made + 1
          BY <3>1, <2>2, <2>4
        <5> QED
          BY <4>3, <5>1, <5>2, <2>3, <2>4
      <4> QED
        BY <2>5, <4>2, <4>3
    <3> QED
      BY <3>1, <3>2 DEF ServersFit
  <2>8. ListsFit'
    BY <2>1, <2>3, <2>4 DEF ListsFit, ContainersInv
  <2>9. NoneForgotten'
    <3> SUFFICES ASSUME NEW q \in Instances, stage[q] = "serving",
                        NEW c \in containers', maker'[c] = q
                 PROVE  c \in InUse(q)' \union lost'
      BY <2>1 DEF NoneForgotten
    <3>1. InPool(q)' = InPool(q)
      BY <2>1 DEF InPool
    <3>2. CASE c = made + 1
      <4>1. q = p
        BY <2>3, <3>2
      <4>2. CASE lost' = lost \union {made + 1}
        BY <3>2, <4>2
      <4>3. CASE mine' = [mine EXCEPT ![x] = made + 1]
        <5>1. mine'[x] = made + 1
          BY <4>3 DEF PoolTypeOK
        <5> QED
          BY <3>2, <4>1, <5>1, <2>4 DEF InUse
      <4> QED
        BY <1>2, <4>2, <4>3
    <3>3. CASE c # made + 1
      <4>1. c \in containers /\ c \in 1..made /\ maker[c] = q
        BY <2>3, <3>3 DEF PoolTypeOK
      <4>2. c \in InUse(q) \union lost /\ c # 0
        BY <4>1 DEF NoneForgotten, ContainersInv
      <4>3. ASSUME NEW y \in Callers, mine[y] = c PROVE mine'[y] = c
        BY <2>2, <2>5, <4>2, <4>3
      <4>4. lost \subseteq lost'
        BY <1>2
      <4> QED
        BY <3>1, <4>2, <4>3, <4>4 DEF InUse
    <3> QED
      BY <3>2, <3>3
  <2> QED
    BY <2>6, <2>7, <2>8, <2>9 DEF ContainersInv
<1> QED
  BY <1>1, <1>2 DEF Create, CreateFails

\* A start that succeeded hands its server to the pool.
LEMMA ConcludeKeepsContainers ==
  ASSUME PoolInv, ContainersInv, NEW x \in Callers, Conclude(x)
  PROVE  ContainersInv'
<1> DEFINE p == HostOf[x]
           k == want[x]
<1> USE PoolAssumption DEF PoolInv, lockVars, processVars, dockerVars
<1>1. UNCHANGED <<containers, made, label, maker, lost, claimed, stage, todo>>
  BY DEF Conclude
<1>2. p \in Instances /\ k \in Keys /\ boxes[p][k] = 0
  <2>1. pc[x] \in InStart /\ p \in Instances
    BY DEF Conclude, InStart
  <2>2. k \in Keys /\ starting[p][k] = x /\ x # NoOne
    BY <2>1 DEF CallerFits, InStart
  <2> QED
    BY <2>1, <2>2 DEF PoolFits
<1>3. \A y \in Callers : mine'[y] = IF y = x THEN 0 ELSE mine[y]
  BY DEF Conclude, PoolTypeOK
<1>4. \A q \in Instances, j \in Keys :
        boxes'[q][j] = IF q = p /\ j = k THEN mine[x] ELSE boxes[q][j]
  <2>1. CASE pc[x] = "started"
    BY <1>2, <2>1 DEF Conclude, PoolTypeOK
  <2>2. CASE pc[x] # "started"
    <3>1. mine[x] = 0 /\ boxes' = boxes
      BY <2>2 DEF Conclude, CallerFits
    <3> QED
      BY <1>2, <3>1
  <2> QED
    BY <2>1, <2>2
<1>5. LabelsFit'
  BY <1>1 DEF LabelsFit, ContainersInv, Owner
<1>6. ServersFit'
  BY <1>1, <1>2, <1>3, <1>4 DEF ServersFit, ContainersInv
<1>7. ListsFit'
  BY <1>1 DEF ListsFit, ContainersInv
<1>8. NoneForgotten'
  <2> SUFFICES ASSUME NEW q \in Instances, stage[q] = "serving",
                      NEW c \in containers, maker[c] = q
               PROVE  c \in InUse(q)' \union lost
    BY <1>1 DEF NoneForgotten
  <2>1. c \in InUse(q) \union lost
    BY DEF NoneForgotten, ContainersInv
  <2>2. ASSUME c \in InPool(q) PROVE c \in InPool(q)'
    <3>1. PICK j \in Keys : c = boxes[q][j] /\ c # 0
      BY <2>2 DEF InPool
    <3>2. boxes'[q][j] = c
      BY <3>1, <1>2, <1>4
    <3> QED
      BY <3>1, <3>2 DEF InPool
  <2>3. ASSUME NEW y \in Callers, HostOf[y] = q, mine[y] = c, c # 0 PROVE c \in InUse(q)'
    <3>1. CASE y = x
      <4>1. boxes'[q][k] = c
        BY <1>2, <1>4, <2>3, <3>1
      <4> QED
        BY <4>1, <1>2, <2>3 DEF InUse, InPool
    <3>2. CASE y # x
      <4>1. mine'[y] = c
        BY <1>3, <2>3, <3>2
      <4> QED
        BY <4>1, <2>3 DEF InUse
    <3> QED
      BY <3>1, <3>2
  <2> QED
    BY <2>1, <2>2, <2>3 DEF InUse
<1> QED
  BY <1>5, <1>6, <1>7, <1>8 DEF ContainersInv

LEMMA ContainersKept ==
  ASSUME PoolInv, ContainersInv, [Next]_vars
  PROVE  ContainersInv'
<1>1. ASSUME NEW p \in Instances,
             Claim(p) \/ List(p) \/ SkipReaping(p) \/ Reaping(p)
               \/ ClosePool(p) \/ Closing(p) \/ Killed(p)
      PROVE  ContainersInv'
  <2>1. CASE ClosePool(p) \/ Exit(p) \/ Killed(p)
    BY <2>1, EndKeepsContainers
  <2>2. CASE Claim(p) \/ List(p) \/ SkipReaping(p) \/ Serve(p) \/ DropLock(p) \/ Reap(p)
               \/ RemoveBox(p) \/ CloseOwner(p)
               \/ (\E c \in Ids : Keep(p, c) \/ Condemn(p, c) \/ TryLock(p, c))
    BY <2>2, ProcessKeepsContainers
  <2> QED
    BY <1>1, <2>1, <2>2 DEF Reaping, Closing
<1>2. ASSUME NEW x \in Callers, Acquire(x) \/ Again(x) \/ GiveUp(x) \/ Starting(x)
      PROVE  ContainersInv'
  <2>1. CASE Acquire(x) \/ Again(x) \/ GiveUp(x) \/ Boot(x) \/ Announce(x)
    BY <2>1, CallerKeepsContainers
  <2>2. CASE Create(x) \/ CreateFails(x)
    BY <2>2, CreateKeepsContainers
  <2>3. CASE BootFails(x)
    BY <2>3, BootFailsKeepsContainers
  <2>4. CASE Conclude(x)
    BY <2>4, ConcludeKeepsContainers
  <2> QED
    BY <1>2, <2>1, <2>2, <2>3, <2>4 DEF Starting
<1>3. CASE UNCHANGED vars
  <2>1. UNCHANGED <<containers, made, label, maker, lost, boxes, mine, claimed, stage, todo>>
    BY <1>3 DEF vars, dockerVars, processVars, poolVars, callerVars
  <2>2. \A q \in Instances : Owner(q)' = Owner(q)
    BY <2>1 DEF Owner
  <2> QED
    BY <2>1, <2>2, QuietKeeps DEF Early
<1> QED
  BY <1>1, <1>2, <1>3 DEF Next, Rest

(***************************************************************************)
(* A serving instance knows of every container it made, unless Docker's    *)
(* answer was lost: a start that fails leaves none behind.                 *)
(***************************************************************************)
THEOREM NoneIsForgotten == Spec => []NoneForgotten
<1>1. Init => ContainersInv
  BY ContainersInvHolds
<1>2. PoolInv /\ ContainersInv /\ [Next]_vars => ContainersInv'
  BY ContainersKept
<1>3. ContainersInv => NoneForgotten
  BY DEF ContainersInv
<1> QED
  BY <1>1, <1>2, <1>3, PoolInvariant, PTL DEF Spec

-----------------------------------------------------------------------------
(***************************************************************************)
(* Who waits for whom, and the promises of SingleFlight.                   *)
(***************************************************************************)

\* Who waits, waits for one that starts what it wants and has yet to announce it;
\* who is to look again joined one that has.
WaitFits(x) ==
  pc[x] \in {"waiting", "again"} =>
    /\ on[x] \in Callers /\ HostOf[on[x]] = HostOf[x] /\ want[on[x]] = want[x]
    /\ pc[x] = "waiting" => pc[on[x]] \in InStart \union {"announcing"}
    /\ pc[x] = "again" => pc[on[x]] = "done"

WaitsFit == \A x \in Callers : WaitFits(x)

\* Nobody else's place is changed, and x's only as those who wait for it allow.
LEMMA OnePlaceMoves ==
  ASSUME PoolInv, WaitsFit, NEW x \in Callers, pc[x] # "done",
         \A y \in Callers \ {x} : pc'[y] = pc[y] /\ on'[y] = on[y] /\ want'[y] = want[y],
         pc[x] \in InStart \union {"announcing"} =>
           pc'[x] \in InStart \union {"announcing"} /\ want'[x] = want[x],
         WaitFits(x)'
  PROVE  WaitsFit'
<1> SUFFICES ASSUME NEW y \in Callers, y # x PROVE WaitFits(y)'
  BY DEF WaitsFit
<1>1. WaitFits(y) /\ pc'[y] = pc[y] /\ on'[y] = on[y] /\ want'[y] = want[y]
  BY DEF WaitsFit
<1>2. CASE on[y] = x
  BY <1>1, <1>2 DEF WaitFits
<1>3. CASE on[y] # x
  BY <1>1, <1>3 DEF WaitFits
<1> QED
  BY <1>2, <1>3

\* A turn of the loop: whoever joins a start, joins one under way.
LEMMA LookWaits ==
  ASSUME PoolInv, WaitsFit, NEW x \in Callers, NEW k \in Keys,
         \/ pc[x] = "idle" /\ want' = [want EXCEPT ![x] = k]
         \/ pc[x] = "again" /\ want[x] = k /\ want' = want,
         Look(x, k)
  PROVE  WaitsFit'
<1>1. /\ pc \in [Callers -> {"idle", "waiting", "again", "pulling", "booting", "started",
                             "failing", "announcing", "done"}]
      /\ on \in [Callers -> Callers \union {NoOne}] /\ want \in [Callers -> Keys \union {NoOne}]
      /\ HostOf[x] \in Instances
  BY PoolAssumption DEF PoolInv, PoolTypeOK
<1>2. want'[x] = k /\ \A y \in Callers \ {x} : want'[y] = want[y]
  BY <1>1
<1>3. /\ pc[x] # "done" /\ pc[x] \notin InStart \union {"announcing"}
      /\ \A y \in Callers \ {x} : pc'[y] = pc[y] /\ on'[y] = on[y]
  BY <1>1 DEF Look, InStart
<1>4. WaitFits(x)'
  <2> DEFINE z == starting[HostOf[x]][k]
  <2>1. CASE pc' = [pc EXCEPT ![x] = "waiting"] /\ on' = [on EXCEPT ![x] = z] /\ z # NoOne
    <3>1. z \in Callers
      BY <1>1, <2>1 DEF PoolInv, PoolTypeOK
    <3>2. HostOf[z] = HostOf[x] /\ want[z] = k /\ pc[z] \in InStart
      BY <1>1, <2>1 DEF PoolInv, PoolTypeOK, InStart
    <3>3. z # x
      BY <1>3, <3>2
    <3> HIDE DEF z
    <3>4. pc'[x] = "waiting" /\ on'[x] = z /\ pc'[z] = pc[z] /\ want'[z] = k
      BY <1>1, <1>2, <1>3, <2>1, <3>1, <3>2, <3>3
    <3> QED
      BY <1>2, <3>1, <3>2, <3>4 DEF WaitFits
  <2>2. CASE pc' = [pc EXCEPT ![x] = "pulling"] \/ pc' = [pc EXCEPT ![x] = "done"]
    BY <1>1, <2>2 DEF WaitFits
  <2> QED
    BY <2>1, <2>2 DEF Look
<1> QED
  BY <1>2, <1>3, <1>4, OnePlaceMoves

\* Whatever a caller does, those who wait for it go on waiting, or are told.
LEMMA CallerWaits ==
  ASSUME PoolInv, WaitsFit, NEW x \in Callers,
         Acquire(x) \/ Again(x) \/ GiveUp(x) \/ Starting(x)
  PROVE  WaitsFit'
<1>1. /\ pc \in [Callers -> {"idle", "waiting", "again", "pulling", "booting", "started",
                             "failing", "announcing", "done"}]
      /\ on \in [Callers -> Callers \union {NoOne}] /\ want \in [Callers -> Keys \union {NoOne}]
  BY DEF PoolInv, PoolTypeOK
<1>2. CASE Acquire(x)
  BY <1>2, LookWaits DEF Acquire
<1>3. CASE Again(x)
  <2>1. want[x] \in Keys /\ want' = want /\ pc[x] = "again" /\ Look(x, want[x])
    BY <1>3 DEF Again, PoolInv, CallerFits
  <2> QED
    BY <2>1, LookWaits
<1>4. CASE GiveUp(x)
  <2>1. /\ pc[x] = "waiting" /\ pc'[x] = "done" /\ want' = want
        /\ \A y \in Callers \ {x} : pc'[y] = pc[y] /\ on'[y] = on[y]
    BY <1>1, <1>4 DEF GiveUp
  <2> QED
    BY <2>1, OnePlaceMoves DEF WaitFits, InStart
<1>5. CASE Create(x) \/ CreateFails(x) \/ Boot(x) \/ BootFails(x) \/ Conclude(x)
  <2>1. /\ pc[x] \in InStart /\ pc'[x] \in InStart \union {"announcing"} /\ want' = want /\ on' = on
        /\ \A y \in Callers \ {x} : pc'[y] = pc[y]
    BY <1>1, <1>5 DEF Create, CreateFails, Boot, BootFails, Conclude, InStart
  <2>2. pc[x] # "done" /\ WaitFits(x)'
    BY <2>1 DEF WaitFits, InStart
  <2> QED
    BY <2>1, <2>2, OnePlaceMoves
<1>6. CASE Announce(x)
  <2>1. /\ pc[x] = "announcing" /\ want' = want /\ on' = on /\ pc'[x] = "done"
        /\ \A y \in Callers \ {x} :
             pc'[y] = IF pc[y] = "waiting" /\ on[y] = x THEN "again" ELSE pc[y]
    BY <1>1, <1>6 DEF Announce, callerVars
  <2>2. ASSUME NEW y \in Callers PROVE WaitFits(y)'
    <3>1. WaitFits(y)
      BY DEF WaitsFit
    <3>2. CASE y = x
      BY <2>1, <3>2 DEF WaitFits
    <3>3. CASE y # x /\ on[y] = x
      BY <2>1, <3>1, <3>3 DEF WaitFits, InStart
    <3>4. CASE y # x /\ on[y] # x /\ pc[y] \in {"waiting", "again"}
      <4>1. pc'[y] = pc[y] /\ on[y] \in Callers \ {x} /\ pc[on[y]] # "waiting"
        BY <2>1, <3>1, <3>4 DEF WaitFits, InStart
      <4>2. pc'[on[y]] = pc[on[y]]
        BY <2>1, <4>1
      <4> QED
        BY <2>1, <3>1, <4>1, <4>2 DEF WaitFits
    <3>5. CASE y # x /\ on[y] # x /\ pc[y] \notin {"waiting", "again"}
      BY <2>1, <3>5 DEF WaitFits
    <3> QED
      BY <3>2, <3>3, <3>4, <3>5
  <2> QED
    BY <2>2 DEF WaitsFit
<1> QED
  BY <1>2, <1>3, <1>4, <1>5, <1>6 DEF Starting

\* A process ends with all who wait in it.
LEMMA EndWaits ==
  ASSUME PoolInv, WaitsFit, NEW p \in Instances, Forgotten(p)
  PROVE  WaitsFit'
<1> SUFFICES ASSUME NEW y \in Callers PROVE WaitFits(y)'
  BY DEF WaitsFit
<1>1. \A z \in Callers :
        /\ HostOf[z] = p => pc'[z] = "idle"
        /\ HostOf[z] # p => pc'[z] = pc[z] /\ on'[z] = on[z] /\ want'[z] = want[z]
  BY DEF Forgotten
<1>2. WaitFits(y)
  BY DEF WaitsFit
<1>3. CASE HostOf[y] = p
  BY <1>1, <1>3 DEF WaitFits
<1>4. CASE HostOf[y] # p
  BY <1>1, <1>2, <1>4 DEF WaitFits
<1> QED
  BY <1>3, <1>4

\* Every step keeps them waiting for somebody.
LEMMA WaitsKept ==
  ASSUME PoolInv, WaitsFit, [Next]_vars
  PROVE  WaitsFit'
<1> USE DEF vars, callerVars
<1>1. ASSUME UNCHANGED <<pc, on, want>> PROVE WaitsFit'
  BY <1>1 DEF WaitsFit, WaitFits
<1>2. ASSUME NEW p \in Instances,
             Claim(p) \/ List(p) \/ SkipReaping(p) \/ Reaping(p)
               \/ ClosePool(p) \/ Closing(p) \/ Killed(p)
      PROVE  WaitsFit'
  <2>1. CASE Exit(p) \/ Killed(p)
    BY <2>1, EndWaits DEF Exit, Killed
  <2>2. CASE Claim(p) \/ List(p) \/ SkipReaping(p) \/ Reaping(p) \/ ClosePool(p)
               \/ RemoveBox(p) \/ CloseOwner(p)
    BY <1>1, <2>2 DEF Claim, List, SkipReaping, Reaping, DropLock, Reap, Serve, Keep, Condemn,
                      TryLock, ClosePool, RemoveBox, CloseOwner
  <2> QED
    BY <1>2, <2>1, <2>2 DEF Closing
<1>3. CASE UNCHANGED vars
  BY <1>1, <1>3
<1> QED
  BY <1>2, <1>3, CallerWaits DEF Next, Rest

\* Whoever waits, waits for one that starts the server it wants, or has just.
THEOREM WaitersInvariant == Spec => []WaitsFit
<1>1. Init => WaitsFit
  BY DEF Init, WaitsFit, WaitFits
<1>2. PoolInv /\ WaitsFit /\ [Next]_vars => WaitsFit'
  BY WaitsKept
<1> QED
  BY <1>1, <1>2, PoolInvariant, PTL DEF Spec

\* Where callers are seen to be.
LEMMA AtFacts ==
  /\ \A x \in Callers :
       /\ pc[x] = "idle" => At[x] = "idle"
       /\ pc[x] \in {"waiting", "again"} => At[x] = "waiting"
       /\ pc[x] \in {"announcing", "done"} => At[x] = "done"
       /\ pc[x] \in InStart => At[x] = "making"
  /\ At = [x \in Callers |-> At[x]]
<1>1. ASSUME NEW x \in Callers
      PROVE  /\ pc[x] = "idle" => At[x] = "idle"
             /\ pc[x] \in {"waiting", "again"} => At[x] = "waiting"
             /\ pc[x] \in {"announcing", "done"} => At[x] = "done"
             /\ pc[x] \in InStart => At[x] = "making"
  <2>1. CASE pc[x] = "idle"
    BY <2>1 DEF At, InStart
  <2>2. CASE pc[x] \in {"waiting", "again"}
    BY <2>2 DEF At, InStart
  <2>3. CASE pc[x] \in {"announcing", "done"}
    BY <2>3 DEF At, InStart
  <2>4. CASE pc[x] \in InStart
    BY <2>4 DEF At, InStart
  <2> QED
    BY <2>1, <2>2, <2>3, <2>4
<1>2. At = [x \in Callers |-> At[x]]
  BY DEF At
<1> QED
  BY <1>1, <1>2

\* One caller moves, the others are where they were.
LEMMA AtMoves ==
  ASSUME NEW x \in Callers, \A y \in Callers \ {x} : pc'[y] = pc[y]
  PROVE  At' = [At EXCEPT ![x] = At'[x]]
<1>1. \A y \in Callers \ {x} : At'[y] = At[y]
  BY DEF At
<1>2. At = [y \in Callers |-> At[y]] /\ At' = [y \in Callers |-> At'[y]]
  BY DEF At
<1> QED
  BY <1>1, <1>2

\* What nobody is at work on remains so.
LEMMA SpentGrows ==
  ASSUME PoolTypeOK, PoolTypeOK', made' >= made,
         \A x \in Callers : mine'[x] \notin Spent
  PROVE  Spent' \in SUBSET Ids /\ Spent \subseteq Spent'
<1>1. made \in Nat /\ made' \in Nat /\ made' \in 0..MaxContainers /\ MaxContainers \in Nat
  BY PoolAssumption DEF PoolTypeOK
<1>2. 1..made \subseteq 1..made' /\ 1..made' \subseteq Ids
  BY <1>1 DEF Ids
<1> QED
  BY <1>2 DEF Spent

\* Steps nobody is told of.
LEMMA QuietStep ==
  ASSUME PoolTypeOK, PoolTypeOK', UNCHANGED <<boxes, starting, want, on, got>>, At' = At,
         made' >= made, \A x \in Callers : mine'[x] \notin Spent
  PROVE  SingleFlightOf!SingleFlightNext
BY SpentGrows DEF SingleFlightOf!SingleFlightNext, SingleFlightOf!Waste

\* A turn of Acquire's loop is one of the three things a caller may find.
LEMMA LookIsOne ==
  ASSUME PoolInv, NEW x \in Callers, NEW k \in Keys, Look(x, k)
  PROVE  SingleFlightOf!Hit(x, k) \/ SingleFlightOf!Join(x, k) \/ SingleFlightOf!TakeOff(x, k)
<1> DEFINE p == HostOf[x]
<1>1. /\ pc \in [Callers -> {"idle", "waiting", "again", "pulling", "booting", "started",
                             "failing", "announcing", "done"}]
      /\ p \in Instances
  BY PoolAssumption DEF PoolInv, PoolTypeOK
<1>2. ASSUME NEW s, pc' = [pc EXCEPT ![x] = s]
      PROVE  /\ At' = [At EXCEPT ![x] = At'[x]]
             /\ s = "done" => At'[x] = "done"
             /\ s = "waiting" => At'[x] = "waiting"
             /\ s = "pulling" => At'[x] = "making"
  <2>1. pc'[x] = s /\ \A y \in Callers \ {x} : pc'[y] = pc[y]
    BY <1>1, <1>2
  <2>2. At' = [At EXCEPT ![x] = At'[x]]
    BY <2>1, AtMoves
  <2> QED
    BY <2>1, <2>2 DEF At
<1>3. CASE /\ boxes[p][k] # 0
           /\ got' = [got EXCEPT ![x] = boxes[p][k]]
           /\ pc' = [pc EXCEPT ![x] = "done"]
           /\ UNCHANGED <<on, starting>>
  <2>1. At' = [At EXCEPT ![x] = "done"]
    BY <1>2, <1>3
  <2> QED
    BY <1>3, <2>1 DEF SingleFlightOf!Hit
<1>4. CASE /\ boxes[p][k] = 0 /\ starting[p][k] # NoOne
           /\ on' = [on EXCEPT ![x] = starting[p][k]]
           /\ pc' = [pc EXCEPT ![x] = "waiting"]
           /\ UNCHANGED <<got, starting>>
  <2>1. At' = [At EXCEPT ![x] = "waiting"]
    BY <1>2, <1>4
  <2>2. starting[p][k] \in Callers /\ pc[starting[p][k]] \in InStart
    BY <1>1, <1>4 DEF PoolInv, PoolTypeOK, InStart
  <2>3. At[starting[p][k]] = "making"
    BY <2>2, AtFacts
  <2> QED
    BY <1>4, <2>1, <2>3 DEF SingleFlightOf!Join
<1>5. CASE /\ boxes[p][k] = 0 /\ starting[p][k] = NoOne
           /\ starting' = [starting EXCEPT ![p][k] = x]
           /\ pc' = [pc EXCEPT ![x] = "pulling"]
           /\ UNCHANGED <<on, got>>
  <2>1. At' = [At EXCEPT ![x] = "making"]
    BY <1>2, <1>5
  <2> QED
    BY <1>5, <2>1 DEF SingleFlightOf!TakeOff
<1> QED
  BY <1>3, <1>4, <1>5 DEF Look

\* Whoever asks does as SingleFlight's callers do.
LEMMA AskingFlies ==
  ASSUME PoolInv, PoolInv', WaitsFit, NEW x \in Callers, Acquire(x) \/ Again(x) \/ GiveUp(x)
  PROVE  SingleFlightOf!SingleFlightNext
<1>1. /\ pc \in [Callers -> {"idle", "waiting", "again", "pulling", "booting", "started",
                             "failing", "announcing", "done"}]
      /\ UNCHANGED <<boxes, made, mine>>
  BY DEF PoolInv, PoolTypeOK, Acquire, Again, GiveUp, dockerVars, poolVars
<1>2. Spent' = Spent
  BY <1>1 DEF Spent
<1>3. CASE Acquire(x)
  <2>1. PICK k \in Keys : want' = [want EXCEPT ![x] = k] /\ Look(x, k)
    BY <1>3 DEF Acquire
  <2>2. SingleFlightOf!Hit(x, k) \/ SingleFlightOf!Join(x, k) \/ SingleFlightOf!TakeOff(x, k)
    BY <2>1, LookIsOne
  <2>3. At[x] = "idle"
    BY <1>3, AtFacts DEF Acquire
  <2>4. SingleFlightOf!Ask(x)
    BY <1>1, <1>2, <2>1, <2>2, <2>3 DEF SingleFlightOf!Ask
  <2> QED
    BY <2>4 DEF SingleFlightOf!SingleFlightNext
<1>4. CASE Again(x)
  <2>1. pc[x] = "again" /\ want' = want /\ want[x] \in Keys /\ Look(x, want[x])
    BY <1>4 DEF Again, PoolInv, CallerFits
  <2>2. \/ SingleFlightOf!Hit(x, want[x]) \/ SingleFlightOf!Join(x, want[x])
        \/ SingleFlightOf!TakeOff(x, want[x])
    BY <2>1, LookIsOne
  <2>3. on[x] \in Callers /\ pc[on[x]] = "done"
    BY <2>1 DEF WaitsFit, WaitFits
  <2>4. At[x] = "waiting" /\ At[on[x]] = "done"
    BY <2>1, <2>3, AtFacts
  <2>5. SingleFlightOf!AskAgain(x)
    BY <1>1, <1>2, <2>1, <2>2, <2>4 DEF SingleFlightOf!AskAgain
  <2> QED
    BY <2>5 DEF SingleFlightOf!SingleFlightNext
<1>5. CASE GiveUp(x)
  <2>1. /\ pc[x] = "waiting" /\ pc'[x] = "done" /\ on' = [on EXCEPT ![x] = NoOne]
        /\ UNCHANGED <<starting, want, got>>
        /\ \A y \in Callers \ {x} : pc'[y] = pc[y]
    BY <1>1, <1>5 DEF GiveUp, poolVars
  <2>2. At[x] = "waiting"
    BY <2>1, AtFacts
  <2>3. At' = [At EXCEPT ![x] = "done"]
    <3>1. At'[x] = "done"
      BY <2>1 DEF At
    <3> QED
      BY <2>1, <3>1, AtMoves
  <2>4. SingleFlightOf!GiveUp(x)
    BY <1>1, <1>2, <2>1, <2>2, <2>3 DEF SingleFlightOf!GiveUp
  <2> QED
    BY <2>4 DEF SingleFlightOf!SingleFlightNext
<1> QED
  BY <1>3, <1>4, <1>5

\* A start goes on unseen; when it is over the server is in the pool, or not.
LEMMA StartingFlies ==
  ASSUME PoolInv, PoolInv', ContainersInv, NEW x \in Callers, Starting(x)
  PROVE  SingleFlightOf!SingleFlightNext
<1> DEFINE p == HostOf[x]
           k == want[x]
<1>1. /\ pc \in [Callers -> {"idle", "waiting", "again", "pulling", "booting", "started",
                             "failing", "announcing", "done"}]
      /\ mine \in [Callers -> Ids \union {0}] /\ made \in Nat /\ p \in Instances
      /\ PoolTypeOK /\ PoolTypeOK' /\ MaxContainers \in Nat
  BY PoolAssumption DEF PoolInv, PoolTypeOK
<1>2. \A y \in Callers : mine[y] \notin Spent /\ 0 \notin Spent /\ made + 1 \notin Spent
  BY <1>1 DEF Spent
<1>3. CASE Create(x) \/ CreateFails(x) \/ Boot(x) \/ BootFails(x)
  <2>1. /\ pc[x] \in InStart /\ pc'[x] \in InStart
        /\ \A y \in Callers \ {x} : pc'[y] = pc[y]
        /\ UNCHANGED <<boxes, starting, want, on, got>>
    BY <1>1, <1>3 DEF Create, CreateFails, Boot, BootFails, InStart, poolVars
  <2>2. At' = At
    <3>1. At'[x] = "making" /\ At[x] = "making"
      BY <2>1 DEF At, InStart
    <3>2. At' = [At EXCEPT ![x] = At'[x]]
      BY <2>1, AtMoves
    <3> QED
      BY <3>1, <3>2, AtFacts
  <2>3. made' >= made /\ \A y \in Callers : mine'[y] \in {mine[y], 0, made + 1}
    BY <1>1, <1>3 DEF Create, CreateFails, Boot, BootFails, Make, dockerVars
  <2> QED
    BY <1>1, <1>2, <2>1, <2>2, <2>3, QuietStep
<1>4. CASE Announce(x)
  <2>1. /\ UNCHANGED <<boxes, starting, want, on, got, mine, made>>
        /\ pc[x] = "announcing" /\ pc'[x] = "done"
        /\ \A y \in Callers \ {x} : pc'[y] = pc[y] \/ (pc[y] = "waiting" /\ pc'[y] = "again")
    BY <1>1, <1>4 DEF Announce, poolVars, dockerVars
  <2>2. At' = At
    <3>1. \A y \in Callers : At'[y] = At[y]
      BY <2>1 DEF At
    <3>2. At = [y \in Callers |-> At[y]] /\ At' = [y \in Callers |-> At'[y]]
      BY DEF At
    <3> QED
      BY <3>1, <3>2
  <2> QED
    BY <1>1, <1>2, <2>1, <2>2, QuietStep
<1>5. CASE Conclude(x)
  <2>1. /\ pc[x] \in {"started", "failing"} /\ pc' = [pc EXCEPT ![x] = "announcing"]
        /\ starting' = [starting EXCEPT ![p][k] = NoOne]
        /\ boxes' = IF pc[x] = "started" THEN [boxes EXCEPT ![p][k] = mine[x]] ELSE boxes
        /\ got' = [got EXCEPT ![x] = mine[x]] /\ mine' = [mine EXCEPT ![x] = 0]
        /\ UNCHANGED <<made, want, on>>
    BY <1>5 DEF Conclude, dockerVars
  <2>2. pc[x] \in InStart /\ starting[p][k] = x /\ k \in Keys /\ boxes[p][k] = 0
        /\ (mine[x] # 0 <=> pc[x] = "started")
    BY <1>1, <2>1, PoolAssumption DEF PoolInv, CallerFits, PoolFits, InStart
  <2>3. At[x] = "making" /\ At' = [At EXCEPT ![x] = "done"]
    <3>1. pc'[x] = "announcing" /\ \A y \in Callers \ {x} : pc'[y] = pc[y]
      BY <1>1, <2>1
    <3>2. At'[x] = "done"
      BY <3>1 DEF At
    <3> QED
      BY <2>2, <3>1, <3>2, AtMoves, AtFacts
  <2>4. SingleFlightOf!Landed(x)
    BY <2>1, <2>2, <2>3 DEF SingleFlightOf!Landed
  <2>5. CASE pc[x] = "started"
    <3>1. mine[x] \in 1..made /\ \A y \in Callers \ {x} : mine[y] # mine[x]
      BY <2>2, <2>5 DEF ContainersInv, ServersFit
    <3>2. Spent' = Spent \union {mine[x]}
      BY <1>1, <2>1, <3>1 DEF Spent
    <3>3. mine[x] \in Ids \ Spent
      BY <1>1, <1>2, <2>2, <2>5
    <3>4. SingleFlightOf!Land(x)
      BY <2>1, <2>2, <2>4, <2>5, <3>2, <3>3 DEF SingleFlightOf!Land
    <3> QED
      BY <3>4 DEF SingleFlightOf!SingleFlightNext
  <2>6. CASE pc[x] = "failing"
    <3>1. mine[x] = 0 /\ boxes' = boxes /\ mine' = mine
      BY <1>1, <2>1, <2>2, <2>6
    <3>2. Spent' = Spent
      BY <2>1, <3>1 DEF Spent
    <3>3. SingleFlightOf!Fail(x)
      BY <2>1, <2>4, <3>1, <3>2 DEF SingleFlightOf!Fail
    <3> QED
      BY <3>3 DEF SingleFlightOf!SingleFlightNext
  <2> QED
    BY <2>1, <2>5, <2>6
<1> QED
  BY <1>3, <1>4, <1>5 DEF Starting

\* A process that ends, or empties its pool; whatever else it does is not seen.
LEMMA ProcessFlies ==
  ASSUME PoolInv, PoolInv', NEW p \in Instances,
         Claim(p) \/ List(p) \/ SkipReaping(p) \/ Reaping(p)
           \/ ClosePool(p) \/ Closing(p) \/ Killed(p)
  PROVE  SingleFlightOf!SingleFlightNext
<1>1. /\ PoolTypeOK /\ PoolTypeOK' /\ made \in Nat
      /\ \A y \in Callers : mine[y] \notin Spent /\ 0 \notin Spent
  BY DEF PoolInv, PoolTypeOK, Spent
<1>2. CASE Exit(p) \/ Killed(p)
  <2>1. Forgotten(p) /\ made' = made
    BY <1>2 DEF Exit, Killed, dockerVars
  <2>2. At' = [x \in Callers |-> IF HostOf[x] = p THEN "idle" ELSE At[x]]
    <3>1. \A x \in Callers : At'[x] = IF HostOf[x] = p THEN "idle" ELSE At[x]
      BY <2>1 DEF At, Forgotten
    <3>2. At' = [x \in Callers |-> At'[x]]
      BY DEF At
    <3> QED
      BY <3>1, <3>2
  <2>3. Spent' \in SUBSET Ids /\ Spent \subseteq Spent'
    BY <1>1, <2>1, SpentGrows DEF Forgotten
  <2>4. SingleFlightOf!End(p)
    BY <2>1, <2>2, <2>3 DEF SingleFlightOf!End, Forgotten
  <2> QED
    BY <2>4 DEF SingleFlightOf!SingleFlightNext
<1>3. CASE ClosePool(p)
  <2>1. /\ boxes' = [boxes EXCEPT ![p] = [k \in Keys |-> 0]]
        /\ UNCHANGED <<starting, pc, want, on, mine, got, made>>
    BY <1>3 DEF ClosePool, callerVars, dockerVars
  <2>2. At' = At /\ Spent' = Spent
    BY <2>1 DEF At, Spent
  <2>3. SingleFlightOf!Empty(p)
    BY <2>1, <2>2 DEF SingleFlightOf!Empty
  <2> QED
    BY <2>3 DEF SingleFlightOf!SingleFlightNext
<1>4. CASE Claim(p) \/ List(p) \/ SkipReaping(p) \/ Reaping(p) \/ RemoveBox(p) \/ CloseOwner(p)
  <2>1. UNCHANGED <<boxes, starting, pc, want, on, mine, got, made>>
    BY <1>4 DEF Claim, List, SkipReaping, Reaping, DropLock, Reap, Serve, Keep, Condemn,
                TryLock, RemoveBox, CloseOwner, poolVars, callerVars, dockerVars
  <2>2. At' = At
    BY <2>1 DEF At
  <2> QED
    BY <1>1, <2>1, <2>2, QuietStep
<1> QED
  BY <1>2, <1>3, <1>4 DEF Closing

(***************************************************************************)
(* Pool implements SingleFlight: one caller starts the server, the others  *)
(* wait for that one and share what it made, whatever is closed, fails or  *)
(* is killed meanwhile, and no server is given out twice.                  *)
(***************************************************************************)
THEOREM PoolImplementsSingleFlight == Spec => ImplementsSingleFlight
<1>1. Init => SingleFlightOf!SingleFlightInit
  BY DEF Init, SingleFlightOf!SingleFlightInit, At, Spent
<1>2. PoolInv /\ PoolInv' /\ ContainersInv /\ WaitsFit /\ [Next]_vars
        => [SingleFlightOf!SingleFlightNext]_(SingleFlightOf!SingleFlightVars)
  <2> SUFFICES ASSUME PoolInv, PoolInv', ContainersInv, WaitsFit, [Next]_vars
               PROVE  [SingleFlightOf!SingleFlightNext]_(SingleFlightOf!SingleFlightVars)
    OBVIOUS
  <2>1. CASE UNCHANGED vars
    <3>1. UNCHANGED <<boxes, starting, pc, want, on, mine, got, made>>
      BY <2>1 DEF vars, poolVars, callerVars, dockerVars
    <3>2. At' = At /\ Spent' = Spent
      BY <3>1 DEF At, Spent
    <3> QED
      BY <3>1, <3>2 DEF SingleFlightOf!SingleFlightVars
  <2> QED
    BY <2>1, ProcessFlies, AskingFlies, StartingFlies DEF Next, Rest
<1>3. Init => ContainersInv
  BY ContainersInvHolds
<1>4. PoolInv /\ ContainersInv /\ [Next]_vars => ContainersInv'
  BY ContainersKept
<1> QED
  BY <1>1, <1>2, <1>3, <1>4, PoolInvariant, WaitersInvariant, PTL
  DEF Spec, ImplementsSingleFlight, SingleFlightOf!SingleFlightSpec

-----------------------------------------------------------------------------
(***************************************************************************)
(* Locks, and what a process decides to reap.                              *)
(***************************************************************************)

Up == {"listing", "reaping", "serving", "closing"}
Dead == {"leaving", "exited", "killed"}

\* A process that is up holds its lock; one that is being tried is left, and by
\* one process only.
LocksFit ==
  /\ \A p \in Instances : stage[p] = "off" => ~ claimed[p]
  /\ \A p \in Instances : ~ claimed[p] => lockFile[p] = "absent"
  /\ \A p \in Instances : claimed[p] /\ stage[p] \in Up => lockFile[p] = "held"
  /\ \A p \in Instances : trying[p] # NoOne => lockFile[trying[p]] = "left"
  /\ \A p, q \in Instances : trying[p] # NoOne /\ trying[p] = trying[q] => p = q
  /\ \A p \in Instances : trying[p] # NoOne => doomed[p] # 0
  /\ \A p \in Instances : doomed[p] # 0 => stage[p] = "reaping"

\* A container nobody up has claimed.
Litter(c) == label[c] = NoOne \/ stage[label[c]] \in Dead

\* Whoever can tell condemns nothing but litter.
DoomsWell(p) ==
  doomed[p] # 0 => doomed[p] \in 1..made /\ (Blind(p) \/ Litter(doomed[p]))

DoomedFit == \A p \in Instances : DoomsWell(p)

LocksInv == LocksFit /\ DoomedFit

LEMMA LocksInvHolds == Init => LocksInv
BY PoolAssumption DEF Init, LocksInv, LocksFit, DoomedFit, DoomsWell

\* What is condemned stays condemned, as nobody comes back to life.
LEMMA DoomedStay ==
  ASSUME PoolInv, ContainersInv, LocksInv,
         \A c \in 1..made : label'[c] = label[c],
         1..made \subseteq 1..made',
         \A q \in Instances : stage[q] \in Dead => stage'[q] \in Dead,
         \A q \in Instances : stage[q] # "off" => stage'[q] # "off" /\ (claimed'[q] <=> claimed[q]),
         NEW p \in Instances, doomed'[p] = doomed[p]
  PROVE  DoomsWell(p)'
<1> SUFFICES ASSUME doomed[p] # 0
             PROVE  doomed'[p] \in 1..made' /\ (Blind(p)' \/ Litter(doomed[p])')
  BY DEF DoomsWell
<1>1. doomed[p] \in 1..made /\ (Blind(p) \/ Litter(doomed[p])) /\ stage[p] = "reaping"
  BY DEF LocksInv, LocksFit, DoomedFit, DoomsWell
<1>2. CASE Blind(p)
  <2>1. stage'[p] # "off" /\ (claimed'[p] <=> claimed[p])
    BY <1>1
  <2>2. Blind(p)'
    BY <1>2, <2>1 DEF Blind, KnowsDirectory
  <2> QED
    BY <1>1, <2>2
<1>3. CASE Litter(doomed[p])
  <2>1. label'[doomed[p]] = label[doomed[p]] /\ label[doomed[p]] \in Instances \union {NoOne}
    <3>1. doomed[p] \in Ids /\ label \in [Ids -> Instances \union {NoOne}]
      BY <1>1 DEF PoolInv, PoolTypeOK, Ids
    <3> QED
      BY <1>1, <3>1
  <2>2. Litter(doomed[p])'
    BY <1>3, <2>1 DEF Litter
  <2> QED
    BY <1>1, <2>2
<1> QED
  BY <1>1, <1>2, <1>3

\* Condemn and TryLock: the container on the list is litter.
LEMMA CondemnedAreLitter ==
  ASSUME PoolInv, ContainersInv, LocksInv, NEW p \in Instances, NEW c \in Ids,
         Looking(p, c), Found(p, c) \in {"absent", "left"}
  PROVE  c \in 1..made /\ (Blind(p) \/ Litter(c))
<1>1. c \in 1..made /\ stage[p] = "reaping"
  BY DEF Looking, ContainersInv, ListsFit
<1>2. CASE label[c] = NoOne \/ ~ KnowsDirectory(p)
  BY <1>1, <1>2 DEF Litter, Blind
<1>3. CASE label[c] # NoOne /\ KnowsDirectory(p)
  <2>1. label[c] \in Instances /\ stage[label[c]] \notin Early /\ claimed[label[c]]
    BY <1>1, <1>3 DEF ContainersInv, LabelsFit, Owner
  <2>2. lockFile[label[c]] # "held"
    BY <1>3 DEF Found
  <2>3. stage[label[c]] \in Dead
    BY <2>1, <2>2 DEF LocksInv, LocksFit, PoolInv, PoolTypeOK, Up, Dead, Early
  <2> QED
    BY <1>1, <2>3 DEF Litter
<1> QED
  BY <1>2, <1>3

LEMMA ClaimKeepsLocks ==
  ASSUME PoolInv, ContainersInv, LocksInv, NEW p \in Instances, Claim(p)
  PROVE  LocksInv'
<1> USE PoolAssumption DEF PoolInv, dockerVars, poolVars, callerVars
<1>1. /\ UNCHANGED <<made, label, trying, doomed>> /\ stage[p] = "off"
      /\ \A q \in Instances : stage'[q] = IF q = p THEN "listing" ELSE stage[q]
  BY DEF Claim, PoolTypeOK
<1>2. \A q \in Instances : q # p => (claimed'[q] <=> claimed[q]) /\ lockFile'[q] = lockFile[q]
  BY DEF Claim, PoolTypeOK
<1>3. \/ claimed'[p] /\ lockFile'[p] = "held"
      \/ (claimed'[p] <=> claimed[p]) /\ lockFile'[p] = lockFile[p]
  BY DEF Claim, PoolTypeOK
<1>4. ~ claimed[p] /\ lockFile[p] = "absent"
  BY <1>1 DEF LocksInv, LocksFit
<1>5. LocksFit'
  <2>1. \A q \in Instances : trying[q] # NoOne => trying[q] \in Instances /\ trying[q] # p
    BY <1>4 DEF LocksInv, LocksFit, PoolTypeOK
  <2>2. \A q \in Instances : doomed[q] # 0 \/ trying[q] # NoOne => q # p
    BY <1>1 DEF LocksInv, LocksFit
  <2> QED
    BY <1>1, <1>2, <1>3, <1>4, <2>1, <2>2 DEF LocksInv, LocksFit, Up
<1>6. DoomedFit'
  <2>1. \A q \in Instances : doomed'[q] = doomed[q]
    BY <1>1
  <2>2. \A q \in Instances : stage[q] \in Dead => stage'[q] \in Dead
    BY <1>1 DEF Dead
  <2>3. \A q \in Instances : stage[q] # "off" => stage'[q] # "off" /\ (claimed'[q] <=> claimed[q])
    BY <1>1, <1>2
  <2> QED
    BY <1>1, <2>1, <2>2, <2>3, DoomedStay DEF DoomedFit
<1> QED
  BY <1>5, <1>6 DEF LocksInv

\* A process moves from one stage to another and keeps its lock.
LEMMA MoveKeepsLocks ==
  ASSUME PoolInv, ContainersInv, LocksInv, NEW p \in Instances,
         List(p) \/ SkipReaping(p) \/ Serve(p) \/ ClosePool(p)
  PROVE  LocksInv'
<1> USE PoolAssumption DEF PoolInv, dockerVars, lockVars, poolVars, callerVars
<1>1. UNCHANGED <<made, label, trying, doomed, claimed, lockFile>>
  BY DEF List, SkipReaping, Serve, ClosePool
<1>2. /\ \A q \in Instances : q # p => stage'[q] = stage[q]
      /\ stage[p] \in Up /\ stage'[p] \in Up
  BY DEF List, SkipReaping, Serve, ClosePool, PoolTypeOK, Up
<1>3. (doomed[p] = 0 /\ trying[p] = NoOne) \/ stage'[p] = "reaping"
  <2>1. CASE List(p)
    <3>1. stage' = [stage EXCEPT ![p] = "reaping"]
      BY <2>1 DEF List
    <3> QED
      BY <3>1 DEF PoolTypeOK
  <2>2. CASE Serve(p)
    BY <2>2 DEF Serve, LocksInv, LocksFit
  <2>3. CASE SkipReaping(p) \/ ClosePool(p)
    <3>1. stage[p] # "reaping"
      BY <2>3 DEF SkipReaping, ClosePool
    <3> QED
      BY <3>1 DEF LocksInv, LocksFit
  <2> QED
    BY <2>1, <2>2, <2>3
<1>4. LocksFit'
  BY <1>1, <1>2, <1>3 DEF LocksInv, LocksFit, Up
<1>5. DoomedFit'
  <2>1. \A q \in Instances : stage[q] \in Dead => stage'[q] \in Dead
    BY <1>2 DEF Dead, Up
  <2>2. \A q \in Instances : stage[q] # "off" => stage'[q] # "off" /\ (claimed'[q] <=> claimed[q])
    BY <1>1, <1>2 DEF Up
  <2> QED
    BY <1>1, <2>1, <2>2, DoomedStay DEF DoomedFit
<1> QED
  BY <1>4, <1>5 DEF LocksInv

LEMMA ReapingKeepsLocks ==
  ASSUME PoolInv, ContainersInv, LocksInv, NEW p \in Instances,
         DropLock(p) \/ Reap(p) \/ (\E c \in Ids : Keep(p, c) \/ Condemn(p, c) \/ TryLock(p, c))
  PROVE  LocksInv'
<1> USE PoolAssumption DEF PoolInv, dockerVars, lockVars, processVars, poolVars, callerVars
<1>0. UNCHANGED <<made, label, claimed, stage>> /\ stage[p] = "reaping"
  BY DEF DropLock, Reap, Keep, Condemn, TryLock, Looking
<1>1. \A q \in Instances : doomed'[q] = doomed[q] => DoomsWell(q)'
  BY <1>0, DoomedStay
<1>2. CASE DropLock(p)
  <2>1. UNCHANGED doomed /\ trying[p] # NoOne
    BY <1>2 DEF DropLock
  <2>2. \A q \in Instances : trying'[q] = IF q = p THEN NoOne ELSE trying[q]
    BY <1>2 DEF DropLock, PoolTypeOK
  <2>3. trying[p] \in Instances /\ lockFile[trying[p]] = "left"
    BY <2>1 DEF LocksInv, LocksFit, PoolTypeOK
  <2>4. \A q \in Instances : lockFile'[q] = IF q = trying[p] THEN "absent" ELSE lockFile[q]
    BY <1>2 DEF DropLock, PoolTypeOK
  <2>5. LocksFit'
    BY <1>0, <2>1, <2>2, <2>3, <2>4 DEF LocksInv, LocksFit, PoolTypeOK, Up
  <2>6. DoomedFit'
    BY <1>1, <2>1 DEF DoomedFit
  <2> QED
    BY <2>5, <2>6 DEF LocksInv
<1>3. CASE Reap(p)
  <2>1. UNCHANGED <<lockFile, trying>> /\ trying[p] = NoOne
    BY <1>3 DEF Reap
  <2>2. \A q \in Instances : doomed'[q] = IF q = p THEN 0 ELSE doomed[q]
    BY <1>3 DEF Reap, PoolTypeOK
  <2>3. LocksFit'
    BY <1>0, <2>1, <2>2 DEF LocksInv, LocksFit
  <2>4. DoomedFit'
    BY <1>1, <2>2 DEF DoomedFit, DoomsWell
  <2> QED
    BY <2>3, <2>4 DEF LocksInv
<1>4. ASSUME NEW c \in Ids, Keep(p, c) PROVE LocksInv'
  <2>1. UNCHANGED <<lockFile, trying, doomed>>
    BY <1>4 DEF Keep
  <2>2. LocksFit'
    BY <1>0, <2>1 DEF LocksInv, LocksFit
  <2>3. DoomedFit'
    BY <1>1, <2>1 DEF DoomedFit
  <2> QED
    BY <2>2, <2>3 DEF LocksInv
<1>5. ASSUME NEW c \in Ids, Condemn(p, c) \/ TryLock(p, c) PROVE LocksInv'
  <2>1. UNCHANGED lockFile /\ Looking(p, c) /\ Found(p, c) \in {"absent", "left"}
    BY <1>5 DEF Condemn, TryLock
  <2>2. \A q \in Instances : doomed'[q] = IF q = p THEN c ELSE doomed[q]
    BY <1>5 DEF Condemn, TryLock, PoolTypeOK
  <2>3. c \in 1..made /\ (Blind(p) \/ Litter(c))
    BY <2>1, CondemnedAreLitter
  <2>4. Blind(p)' = Blind(p) /\ Litter(c)' = Litter(c)
    BY <1>0 DEF Blind, KnowsDirectory, Litter
  <2>5. DoomedFit'
    <3>1. DoomsWell(p)'
      BY <1>0, <2>2, <2>3, <2>4 DEF DoomsWell
    <3> QED
      BY <1>1, <2>2, <3>1 DEF DoomedFit
  <2>6. LocksFit'
    <3>0. c # 0
      BY DEF Ids
    <3>1. CASE Condemn(p, c)
      <4>1. UNCHANGED trying
        BY <3>1 DEF Condemn
      <4> QED
        BY <1>0, <2>1, <2>2, <3>0, <4>1 DEF LocksInv, LocksFit
    <3>2. CASE TryLock(p, c)
      <4>1. \A q \in Instances : trying'[q] = IF q = p THEN label[c] ELSE trying[q]
        BY <3>2 DEF TryLock, PoolTypeOK
      <4>2. lockFile[label[c]] = "left" /\ \A q \in Instances : trying[q] # label[c]
        BY <3>2 DEF TryLock, Found
      <4> QED
        BY <1>0, <2>1, <2>2, <3>0, <4>1, <4>2 DEF LocksInv, LocksFit
    <3> QED
      BY <1>5, <3>1, <3>2
  <2> QED
    BY <2>5, <2>6 DEF LocksInv
<1> QED
  BY <1>2, <1>3, <1>4, <1>5

\* A process ends, in order or not.
LEMMA EndKeepsLocks ==
  ASSUME PoolInv, ContainersInv, LocksInv, NEW p \in Instances,
         CloseOwner(p) \/ Exit(p) \/ Killed(p)
  PROVE  LocksInv'
<1> USE PoolAssumption DEF PoolInv, dockerVars, lockVars, poolVars, callerVars
<1>1. UNCHANGED <<made, label, claimed>> /\ stage[p] # "off"
  BY DEF CloseOwner, Exit, Killed
<1>2. /\ \A q \in Instances : q # p => stage'[q] = stage[q]
      /\ stage'[p] \in Dead
  <2>1. stage' \in {[stage EXCEPT ![p] = s] : s \in Dead}
    BY DEF CloseOwner, Exit, Killed, Dead
  <2> QED
    BY <2>1 DEF PoolTypeOK
<1>3. \A q \in Instances : doomed'[q] = doomed[q] \/ (q = p /\ doomed'[q] = 0)
  <2>1. CASE CloseOwner(p)
    BY <2>1 DEF CloseOwner
  <2>2. CASE Exit(p) \/ Killed(p)
    BY <2>2 DEF Exit, Killed, Forgotten, PoolTypeOK
  <2> QED
    BY <2>1, <2>2
<1>4. /\ doomed'[p] = 0 /\ trying'[p] = NoOne
      /\ \A q \in Instances : q # p => trying'[q] = trying[q]
  <2>1. CASE CloseOwner(p) \/ Exit(p)
    <3>1. trying' = trying /\ stage[p] # "reaping"
      BY <2>1 DEF CloseOwner, Exit
    <3> QED
      BY <3>1, <1>3 DEF LocksInv, LocksFit
  <2>2. CASE Killed(p)
    <3>1. doomed'[p] = 0
      BY <2>2 DEF Killed, Forgotten, PoolTypeOK
    <3>2. trying' = [trying EXCEPT ![p] = NoOne]
      BY <2>2 DEF Killed
    <3> QED
      BY <3>1, <3>2 DEF PoolTypeOK
  <2> QED
    BY <2>1, <2>2
<1>5. /\ \A q \in Instances : q # p => lockFile'[q] = lockFile[q]
      /\ lockFile[p] = "absent" => lockFile'[p] = "absent"
      /\ lockFile[p] = "left" => lockFile'[p] = "left"
  <2>1. CASE CloseOwner(p)
    <3>1. stage[p] = "closing" /\ lockFile' = [lockFile EXCEPT ![p] = "absent"]
      BY <2>1 DEF CloseOwner
    <3>2. lockFile[p] # "left"
      BY <3>1 DEF LocksInv, LocksFit, Up
    <3> QED
      BY <3>1, <3>2 DEF PoolTypeOK
  <2>2. CASE Exit(p)
    BY <2>2 DEF Exit
  <2>3. CASE Killed(p)
    <3>1. lockFile' = [lockFile EXCEPT ![p] = IF @ = "held" THEN "left" ELSE @]
      BY <2>3 DEF Killed
    <3> QED
      BY <3>1 DEF PoolTypeOK
  <2> QED
    BY <2>1, <2>2, <2>3
<1>6. LocksFit'
  <2>1. \A q \in Instances : stage'[q] = "off" => ~ claimed'[q]
    BY <1>1, <1>2 DEF LocksInv, LocksFit, Dead
  <2>2. \A q \in Instances : ~ claimed'[q] => lockFile'[q] = "absent"
    BY <1>1, <1>5 DEF LocksInv, LocksFit
  <2>3. \A q \in Instances : claimed'[q] /\ stage'[q] \in Up => lockFile'[q] = "held"
    BY <1>1, <1>2, <1>5 DEF LocksInv, LocksFit, Dead, Up
  <2>4. \A q \in Instances : trying'[q] # NoOne => lockFile'[trying'[q]] = "left"
    <3> SUFFICES ASSUME NEW q \in Instances, trying'[q] # NoOne PROVE lockFile'[trying'[q]] = "left"
      OBVIOUS
    <3>1. q # p /\ trying'[q] = trying[q]
      BY <1>4
    <3>2. lockFile[trying[q]] = "left" /\ trying[q] \in Instances
      BY <3>1 DEF LocksInv, LocksFit, PoolTypeOK
    <3> QED
      BY <1>5, <3>1, <3>2
  <2>5. \A q, s \in Instances : trying'[q] # NoOne /\ trying'[q] = trying'[s] => q = s
    BY <1>4 DEF LocksInv, LocksFit
  <2>6. \A q \in Instances : trying'[q] # NoOne => doomed'[q] # 0
    BY <1>3, <1>4 DEF LocksInv, LocksFit
  <2>7. \A q \in Instances : doomed'[q] # 0 => stage'[q] = "reaping"
    BY <1>2, <1>3, <1>4 DEF LocksInv, LocksFit
  <2> QED
    BY <2>1, <2>2, <2>3, <2>4, <2>5, <2>6, <2>7 DEF LocksFit
<1>7. DoomedFit'
  <2>1. \A q \in Instances : stage[q] \in Dead => stage'[q] \in Dead
    BY <1>2
  <2>2. \A q \in Instances : stage[q] # "off" => stage'[q] # "off" /\ (claimed'[q] <=> claimed[q])
    BY <1>1, <1>2 DEF Dead
  <2> QED
    <3>1. DoomsWell(p)'
      BY <1>4 DEF DoomsWell
    <3> QED
      BY <1>1, <1>3, <2>1, <2>2, <3>1, DoomedStay DEF DoomedFit
<1> QED
  BY <1>6, <1>7 DEF LocksInv

\* Callers and their starts leave locks alone; a new container is not condemned.
LEMMA CallerKeepsLocks ==
  ASSUME PoolInv, ContainersInv, LocksInv, UNCHANGED <<lockVars, stage, claimed, doomed>>,
         UNCHANGED <<made, label>> \/ (\E p \in Instances : Make(p))
  PROVE  LocksInv'
<1> USE PoolAssumption DEF PoolInv, lockVars
<1>1. 1..made \subseteq 1..made' /\ \A c \in 1..made : label'[c] = label[c]
  <2>1. CASE UNCHANGED <<made, label>>
    BY <2>1
  <2>2. ASSUME NEW p \in Instances, Make(p)
        PROVE  1..made \subseteq 1..made' /\ \A c \in 1..made : label'[c] = label[c]
    <3>1. made \in Nat /\ 1..made \subseteq 1..(made + 1)
      BY DEF PoolTypeOK
    <3> QED
      BY <2>2, <3>1, MakeKeepsTypes
  <2> QED
    BY <2>1, <2>2
<1>2. LocksFit'
  BY DEF LocksInv, LocksFit
<1>3. DoomedFit'
  BY <1>1, DoomedStay DEF DoomedFit
<1> QED
  BY <1>2, <1>3 DEF LocksInv

LEMMA LocksKept ==
  ASSUME PoolInv, ContainersInv, LocksInv, [Next]_vars
  PROVE  LocksInv'
<1> USE PoolAssumption
<1>1. ASSUME NEW p \in Instances,
             Claim(p) \/ List(p) \/ SkipReaping(p) \/ Reaping(p)
               \/ ClosePool(p) \/ Closing(p) \/ Killed(p)
      PROVE  LocksInv'
  <2>1. CASE Claim(p)
    BY <2>1, ClaimKeepsLocks
  <2>2. CASE List(p) \/ SkipReaping(p) \/ Serve(p) \/ ClosePool(p)
    BY <2>2, MoveKeepsLocks
  <2>3. CASE DropLock(p) \/ Reap(p) \/ (\E c \in Ids : Keep(p, c) \/ Condemn(p, c) \/ TryLock(p, c))
    BY <2>3, ReapingKeepsLocks
  <2>4. CASE CloseOwner(p) \/ Exit(p) \/ Killed(p)
    BY <2>4, EndKeepsLocks
  <2>5. CASE RemoveBox(p)
    <3>1. UNCHANGED <<lockVars, stage, claimed, doomed, made, label>>
      BY <2>5 DEF RemoveBox, lockVars
    <3> QED
      BY <3>1, CallerKeepsLocks
  <2> QED
    BY <1>1, <2>1, <2>2, <2>3, <2>4, <2>5 DEF Reaping, Closing
<1>2. ASSUME NEW x \in Callers, Acquire(x) \/ Again(x) \/ GiveUp(x) \/ Starting(x)
      PROVE  LocksInv'
  <2>1. UNCHANGED <<lockVars, stage, claimed, doomed>>
    BY <1>2 DEF Acquire, Again, GiveUp, Starting, Create, CreateFails, Boot, BootFails, Conclude,
                Announce, processVars
  <2>2. UNCHANGED <<made, label>> \/ Make(HostOf[x])
    BY <1>2 DEF Acquire, Again, GiveUp, Starting, Create, CreateFails, Boot, BootFails, Conclude,
                Announce, dockerVars
  <2> QED
    BY <2>1, <2>2, CallerKeepsLocks
<1>3. CASE UNCHANGED vars
  <2>1. UNCHANGED <<lockVars, stage, claimed, doomed, made, label>>
    BY <1>3 DEF vars, dockerVars, processVars, lockVars
  <2> QED
    BY <2>1, CallerKeepsLocks
<1> QED
  BY <1>1, <1>2, <1>3 DEF Next, Rest

-----------------------------------------------------------------------------
(***************************************************************************)
(* A registered instance's servers are spared.                             *)
(***************************************************************************)

\* Whoever removes a container removes litter, or one of his own that nobody
\* uses any more.
LEMMA RemovalsSpare ==
  ASSUME PoolInv, ContainersInv, LocksInv, NEW p \in Instances, NEW q \in Instances,
         stage[p] = "serving", claimed[p], ~ Blind(q), NEW c \in InUse(p),
         (Reap(q) /\ doomed[q] = c) \/ (RemoveBox(q) /\ c \in todo[q])
  PROVE  FALSE
<1>1. c \in 1..made /\ maker[c] = p
  BY DEF InUse, InPool, ContainersInv, ServersFit
<1>2. label[c] = p
  BY <1>1 DEF ContainersInv, LabelsFit, Owner
<1>3. CASE Reap(q) /\ doomed[q] = c
  <2>1. Litter(c)
    BY <1>1, <1>3 DEF LocksInv, DoomedFit, DoomsWell, Reap
  <2> QED
    BY <1>2, <2>1, PoolAssumption DEF Litter, Dead
<1>4. CASE RemoveBox(q) /\ c \in todo[q]
  BY <1>1, <1>4 DEF RemoveBox, ContainersInv, ListsFit
<1> QED
  BY <1>3, <1>4

\* What a process uses after a step it used before, or was made for it; and what
\* disappears is not among it.
LEMMA ProcessSpares ==
  ASSUME PoolInv, ContainersInv, LocksInv, LiveContainersSpared, NEW r \in Instances,
         Claim(r) \/ List(r) \/ SkipReaping(r) \/ Reaping(r)
           \/ ClosePool(r) \/ Closing(r) \/ Killed(r)
  PROVE  LiveContainersSpared'
<1> USE PoolAssumption DEF PoolInv, dockerVars, lockVars, processVars, poolVars, callerVars
<1> SUFFICES ASSUME NEW p \in Instances, stage'[p] = "serving", claimed'[p],
                    \A q \in Instances : ~ Blind(q)'
             PROVE  InUse(p)' \subseteq containers'
  BY DEF LiveContainersSpared
<1>1. CASE Claim(r) \/ List(r) \/ SkipReaping(r) \/ Serve(r)
  <2>1. UNCHANGED <<boxes, mine, containers>>
    BY <1>1 DEF Claim, List, SkipReaping, Serve
  <2>2. InUse(p)' = InUse(p)
    BY <2>1 DEF InUse, InPool
  <2>3. CASE stage[p] # "serving"
    <3>1. ~ Running(p)
      BY <1>1, <2>3 DEF Claim, List, SkipReaping, Serve, PoolTypeOK, Running
    <3>2. InPool(p) = {}
      BY <3>1 DEF InPool, PoolFits
    <3>3. \A x \in Callers : HostOf[x] = p => mine[x] = 0
      BY <3>1 DEF CallerFits
    <3> QED
      BY <2>2, <3>2, <3>3 DEF InUse
  <2>4. CASE stage[p] = "serving"
    <3>1. \A q \in Instances : Blind(q) => Blind(q)'
      <4>1. ASSUME NEW q \in Instances, stage[q] # "off"
            PROVE  stage'[q] # "off" /\ (claimed'[q] <=> claimed[q])
        <5>1. /\ stage \in [Instances -> {"off", "listing", "reaping", "serving", "closing",
                                         "leaving", "exited", "killed"}]
              /\ claimed \in [Instances -> BOOLEAN]
          BY DEF PoolTypeOK
        <5>2. stage' \in {[stage EXCEPT ![r] = s] : s \in {"listing", "reaping", "serving"}}
          BY <1>1 DEF Claim, List, SkipReaping, Serve
        <5>3. \/ claimed' = claimed
              \/ claimed' = [claimed EXCEPT ![r] = TRUE] /\ stage[r] = "off"
          BY <1>1 DEF Claim, List, SkipReaping, Serve
        <5>4. stage'[q] # "off"
          BY <4>1, <5>1, <5>2
        <5>5. claimed'[q] = claimed[q]
          BY <4>1, <5>1, <5>3
        <5> QED
          BY <5>4, <5>5
      <4> QED
        BY <4>1 DEF Blind, KnowsDirectory
    <3>2. claimed[p]
      <4>1. claimed \in [Instances -> BOOLEAN]
        BY DEF PoolTypeOK
      <4>2. \/ claimed' = claimed
            \/ claimed' = [claimed EXCEPT ![r] = TRUE] /\ stage[r] = "off"
        BY <1>1 DEF Claim, List, SkipReaping, Serve
      <4> QED
        BY <2>4, <4>1, <4>2
    <3> QED
      BY <2>1, <2>2, <2>4, <3>1, <3>2 DEF LiveContainersSpared
  <2> QED
    BY <2>3, <2>4
<1>2. CASE DropLock(r) \/ Reap(r) \/ RemoveBox(r)
             \/ (\E c \in Ids : Keep(r, c) \/ Condemn(r, c) \/ TryLock(r, c))
  <2>1. UNCHANGED <<boxes, mine, claimed, stage>>
    BY <1>2 DEF DropLock, Reap, RemoveBox, Keep, Condemn, TryLock
  <2>2. InUse(p)' = InUse(p)
    BY <2>1 DEF InUse, InPool
  <2>3. \A q \in Instances : ~ Blind(q)
    BY <2>1 DEF Blind, KnowsDirectory
  <2>4. InUse(p) \subseteq containers
    BY <2>1, <2>3 DEF LiveContainersSpared
  <2>5. CASE UNCHANGED containers
    BY <2>2, <2>4, <2>5
  <2>6. CASE Reap(r)
    <3>1. containers' = containers \ {doomed[r]}
      BY <2>6 DEF Reap
    <3>2. doomed[r] \notin InUse(p)
      BY <2>1, <2>3, <2>6, RemovalsSpare
    <3> QED
      BY <2>2, <2>4, <3>1, <3>2
  <2>7. CASE RemoveBox(r)
    <3>1. PICK c \in todo[r] : containers' = containers \ {c}
      BY <2>7 DEF RemoveBox
    <3>2. c \notin InUse(p)
      BY <2>1, <2>3, <2>7, RemovalsSpare
    <3> QED
      BY <2>2, <2>4, <3>1, <3>2
  <2> QED
    BY <1>2, <2>5, <2>6, <2>7 DEF DropLock, Keep, Condemn, TryLock
<1>3. CASE ClosePool(r) \/ CloseOwner(r) \/ Exit(r) \/ Killed(r)
  <2>1. UNCHANGED <<containers, claimed>>
    BY <1>3 DEF ClosePool, CloseOwner, Exit, Killed
  <2>2. /\ stage[r] # "off" /\ stage'[r] # "serving" /\ stage'[r] # "off"
        /\ \A q \in Instances : q # r => stage'[q] = stage[q]
    <3>1. /\ stage[r] # "off"
          /\ stage' \in {[stage EXCEPT ![r] = s] : s \in {"closing", "leaving", "exited", "killed"}}
      BY <1>3 DEF ClosePool, CloseOwner, Exit, Killed
    <3> QED
      BY <3>1 DEF PoolTypeOK
  <2>3. p # r /\ stage[p] = "serving"
    BY <2>2
  <2>4. \A q \in Instances : ~ Blind(q)
    BY <2>1, <2>2 DEF Blind, KnowsDirectory
  <2>5. \A k \in Keys : boxes'[p][k] = boxes[p][k]
    BY <1>3, <2>3 DEF ClosePool, CloseOwner, Exit, Killed, Forgotten, PoolTypeOK
  <2>6. \A x \in Callers : HostOf[x] = p => mine'[x] = mine[x]
    BY <1>3, <2>3 DEF ClosePool, CloseOwner, Exit, Killed, Forgotten
  <2>7. InUse(p)' = InUse(p)
    BY <2>5, <2>6 DEF InUse, InPool
  <2> QED
    BY <2>1, <2>3, <2>4, <2>7 DEF LiveContainersSpared
<1> QED
  BY <1>1, <1>2, <1>3 DEF Reaping, Closing

LEMMA CallerSpares ==
  ASSUME PoolInv, ContainersInv, LocksInv, LiveContainersSpared, NEW x \in Callers,
         Acquire(x) \/ Again(x) \/ GiveUp(x) \/ Starting(x)
  PROVE  LiveContainersSpared'
<1> USE PoolAssumption DEF PoolInv, dockerVars, lockVars, processVars, poolVars
<1>1. UNCHANGED <<stage, claimed>>
  BY DEF Acquire, Again, GiveUp, Starting, Create, CreateFails, Boot, BootFails, Conclude, Announce
<1> SUFFICES ASSUME NEW p \in Instances, stage[p] = "serving", claimed[p],
                    \A q \in Instances : ~ Blind(q)
             PROVE  InUse(p)' \subseteq containers'
  BY <1>1 DEF LiveContainersSpared, Blind, KnowsDirectory
<1>2. InUse(p) \subseteq containers
  BY DEF LiveContainersSpared
<1>3. CASE Acquire(x) \/ Again(x) \/ GiveUp(x) \/ Boot(x) \/ Announce(x)
  <2>1. UNCHANGED <<containers, boxes, mine>>
    BY <1>3 DEF Acquire, Again, GiveUp, Boot, Announce
  <2> QED
    BY <1>2, <2>1 DEF InUse, InPool
<1>4. CASE Create(x)
  <2>1. containers' = containers \union {made + 1} /\ UNCHANGED boxes
    BY <1>4 DEF Create, Make
  <2>2. \A y \in Callers : mine'[y] \in {mine[y], made + 1}
    BY <1>4 DEF Create, PoolTypeOK
  <2>3. InPool(p)' = InPool(p)
    BY <2>1 DEF InPool
  <2> QED
    BY <1>2, <2>1, <2>2, <2>3 DEF InUse
<1>5. CASE CreateFails(x)
  <2>1. containers \subseteq containers' /\ UNCHANGED <<boxes, mine>>
    BY <1>5 DEF CreateFails, Make
  <2> QED
    BY <1>2, <2>1 DEF InUse, InPool
<1>6. CASE BootFails(x)
  <2>1. /\ containers' = containers \ {mine[x]} /\ UNCHANGED boxes /\ mine[x] # 0
        /\ mine' = [mine EXCEPT ![x] = 0]
    BY <1>6 DEF BootFails, CallerFits
  <2>2. \A y \in Callers : mine'[y] = IF y = x THEN 0 ELSE mine[y]
    BY <2>1 DEF PoolTypeOK
  <2>3. InUse(p)' \subseteq InUse(p)
    BY <2>1, <2>2 DEF InUse, InPool
  <2>4. mine[x] \notin InUse(p)'
    <3>1. \A k \in Keys : boxes[p][k] # mine[x]
      <4>1. \A k \in Keys : boxes[p][k] # 0 => maker[boxes[p][k]] = p
        BY DEF ContainersInv, ServersFit
      <4>2. maker[mine[x]] = HostOf[x] /\ \A k \in Keys : boxes[HostOf[x]][k] # mine[x]
        BY <2>1 DEF ContainersInv, ServersFit
      <4> QED
        BY <2>1, <4>1, <4>2
    <3>2. \A y \in Callers : mine'[y] # mine[x]
      BY <2>1, <2>2 DEF ContainersInv, ServersFit
    <3> QED
      BY <2>1, <3>1, <3>2 DEF InUse, InPool
  <2> QED
    BY <1>2, <2>1, <2>3, <2>4
<1>7. CASE Conclude(x)
  <2>1. UNCHANGED containers /\ HostOf[x] \in Instances
    BY <1>7 DEF Conclude
  <2>2. \A y \in Callers : mine'[y] \in {mine[y], 0}
    BY <1>7 DEF Conclude, PoolTypeOK
  <2>3. \A k \in Keys : boxes'[p][k] = boxes[p][k] \/ (HostOf[x] = p /\ boxes'[p][k] = mine[x])
    <3>1. boxes' = boxes \/ boxes' = [boxes EXCEPT ![HostOf[x]][want[x]] = mine[x]]
      BY <1>7 DEF Conclude
    <3>2. boxes \in [Instances -> [Keys -> Ids \union {0}]]
      BY DEF PoolTypeOK
    <3> QED
      BY <2>1, <3>1, <3>2
  <2>4. InUse(p)' \subseteq InUse(p)
    BY <2>2, <2>3 DEF InUse, InPool
  <2> QED
    BY <1>2, <2>1, <2>4
<1> QED
  BY <1>3, <1>4, <1>5, <1>6, <1>7 DEF Starting

(***************************************************************************)
(* Whatever other instances start, reap or die of meanwhile, nobody takes  *)
(* a server from under a registered instance that is serving, when every   *)
(* process knows where the locks are.                                      *)
(***************************************************************************)
THEOREM LiveContainersAreSpared == Spec => []LiveContainersSpared
<1>1. Init => ContainersInv /\ LocksInv /\ LiveContainersSpared
  <2>1. Init => LiveContainersSpared
    BY DEF Init, LiveContainersSpared
  <2> QED
    BY <2>1, ContainersInvHolds, LocksInvHolds
<1>2. PoolInv /\ ContainersInv /\ LocksInv /\ LiveContainersSpared /\ [Next]_vars
        => (ContainersInv /\ LocksInv /\ LiveContainersSpared)'
  <2> SUFFICES ASSUME PoolInv, ContainersInv, LocksInv, LiveContainersSpared, [Next]_vars
               PROVE  LiveContainersSpared'
    BY ContainersKept, LocksKept
  <2>1. CASE UNCHANGED vars
    <3>1. UNCHANGED <<containers, boxes, mine, stage, claimed>>
      BY <2>1 DEF vars, dockerVars, processVars, poolVars, callerVars
    <3> QED
      BY <3>1 DEF LiveContainersSpared, InUse, InPool, Blind, KnowsDirectory
  <2> QED
    BY <2>1, ProcessSpares, CallerSpares DEF Next, Rest
<1> QED
  BY <1>1, <1>2, PoolInvariant, PTL DEF Spec
=============================================================================
