--------------------------- MODULE RegistryProofs ---------------------------
(***************************************************************************)
(* Theorems about Registry, for any number of runs, starters, users and    *)
(* steppers and any cap: the cap is kept up to the starts under way, no    *)
(* open run is dropped, a run that is gone does not come back, and the     *)
(* record of a registered run keeps up with it.                            *)
(***************************************************************************)
EXTENDS Registry, FiniteSetTheorems, SequenceTheorems, TLAPS

(***************************************************************************)
(* The inductive invariant: where each kind of hand can be and what it has *)
(* in hand there, and that a run somebody knows of has been made.          *)
(***************************************************************************)

\* A hand at one of these steps is at it with a run.
Busy(h) ==
  pc[h] \in {"setup", "publish", "snapshot", "put", "close"} => job[h] \in Runs

\* A starter holds the run it made until it has registered it.
StarterFits(s) ==
  /\ pc[s] \in {"idle", "make", "setup", "publish", "snapshot", "put", "hook", "register", "close"}
  /\ pc[s] \in {"publish", "snapshot", "put"} => then[s] \in {"close", "register", "setup", "hook"}
  /\ pc[s] \in {"idle", "make"} => mine[s] = NoRun
  /\ pc[s] \in {"setup", "hook", "register", "publish"} => mine[s] \in Runs
  /\ pc[s] \in {"snapshot", "put"} /\ then[s] # "close" => mine[s] \in Runs

\* A user records a run only to close it, and a run that is still on its list
\* then is the only one there.
UserFits(u) ==
  /\ pc[u] \in {"idle", "closing", "snapshot", "put", "close", "retire", "list", "forget"}
  /\ pc[u] \in {"snapshot", "put"} => then[u] = "close"
  /\ pc[u] \in {"idle", "closing", "retire", "list", "forget"} => job[u] = NoRun
  /\ pc[u] = "idle" => todo[u] = {}
  /\ pc[u] = "closing" \/ job[u] \in todo[u] => \A x, y \in todo[u] : x = y

\* Nobody else works through a list.
OtherFits(h) ==
  /\ todo[h] = {}
  /\ pc[h] \notin {"closing", "retire", "list", "forget"}

HandsFit ==
  /\ \A h \in Hands : Busy(h)
  /\ \A s \in Starters : StarterFits(s)
  /\ \A u \in Users : UserFits(u)
  /\ \A h \in Hands \ Users : OtherFits(h)
  /\ \A r \in Runs : job[r] \in {r, NoRun}

\* Whatever is known of a run, the run has been made.
Known(r) ==
  \/ r \in Range(order) \/ r \in Range(logged)
  \/ \E h \in Hands : job[h] = r \/ r \in todo[h]
  \/ \E s \in Starters : mine[s] = r

KnownAreMade == \A r \in Runs : Known(r) => status[r] # "none"

ClosedAreMade == \A r \in Runs : closed[r] => status[r] # "none"

RegistryInv == TypeOK /\ HandsFit /\ KnownAreMade /\ ClosedAreMade

-----------------------------------------------------------------------------
(***************************************************************************)
(* Lists of runs.                                                          *)
(***************************************************************************)

LEMMA AppendedList ==
  ASSUME NEW S, NEW s \in Seq(S), NEW x \in S
  PROVE  /\ Append(s, x) \in Seq(S) /\ Len(Append(s, x)) = Len(s) + 1
         /\ Range(Append(s, x)) = Range(s) \union {x}
<1>1. Append(s, x) \in Seq(S) /\ Len(Append(s, x)) = Len(s) + 1
  OBVIOUS
<1>2. \A y : y \in Range(Append(s, x)) => y \in Range(s) \union {x}
  BY DEF Range
<1>3. \A y \in Range(s) : y \in Range(Append(s, x))
  <2> SUFFICES ASSUME NEW i \in 1..Len(s) PROVE s[i] \in Range(Append(s, x))
    BY DEF Range
  <2>1. i \in DOMAIN Append(s, x) /\ Append(s, x)[i] = s[i]
    OBVIOUS
  <2> QED
    BY <2>1 DEF Range
<1>4. x \in Range(Append(s, x))
  <2>1. Len(s) + 1 \in DOMAIN Append(s, x) /\ Append(s, x)[Len(s) + 1] = x
    OBVIOUS
  <2> QED
    BY <2>1 DEF Range
<1> QED
  BY <1>1, <1>2, <1>3, <1>4

LEMMA ShortenedList ==
  ASSUME NEW S, NEW s \in Seq(S), s # <<>>
  PROVE  /\ Tail(s) \in Seq(S) /\ Len(Tail(s)) = Len(s) - 1
         /\ Head(s) \in S
         /\ Range(s) = Range(Tail(s)) \union {Head(s)}
<1>1. /\ Tail(s) \in Seq(S) /\ Len(Tail(s)) = Len(s) - 1
      /\ Head(s) \in S /\ Len(s) \in Nat /\ Len(s) > 0
  OBVIOUS
<1>2. ASSUME NEW i \in 1..Len(s) PROVE s[i] \in Range(Tail(s)) \union {Head(s)}
  <2>1. CASE i = 1
    BY <2>1
  <2>2. CASE i # 1
    <3>1. i - 1 \in DOMAIN Tail(s) /\ Tail(s)[i - 1] = s[i]
      BY <2>2
    <3> QED
      BY <3>1 DEF Range
  <2> QED
    BY <2>1, <2>2
<1>3. ASSUME NEW i \in 1..Len(Tail(s)) PROVE Tail(s)[i] \in Range(s)
  <2>1. i + 1 \in DOMAIN s /\ Tail(s)[i] = s[i + 1]
    BY <1>1
  <2> QED
    BY <2>1 DEF Range
<1>4. Head(s) \in Range(s)
  BY <1>1 DEF Range
<1>5. \A y \in Range(s) : y \in Range(Tail(s)) \union {Head(s)}
  BY <1>2 DEF Range
<1>6. \A y \in Range(Tail(s)) : y \in Range(s)
  BY <1>1, <1>3 DEF Range
<1> QED
  BY <1>1, <1>4, <1>5, <1>6

\* Where the entries of a list are that one was cut out of.
LEMMA RemovedEntries ==
  ASSUME NEW S, NEW s \in Seq(S), NEW r \in Range(s)
  PROVE  \E i \in 1..Len(s) :
           /\ s[i] = r
           /\ Removed(s, r) \in Seq(S) /\ Len(Removed(s, r)) = Len(s) - 1
           /\ \A j \in 1..(Len(s) - 1) : Removed(s, r)[j] = IF j < i THEN s[j] ELSE s[j + 1]
<1> DEFINE i == CHOOSE j \in DOMAIN s : s[j] = r
           before == SubSeq(s, 1, i - 1)
           after == SubSeq(s, i + 1, Len(s))
<1>1. i \in 1..Len(s) /\ s[i] = r
  BY DEF Range
<1>2. Removed(s, r) = before \o after
  BY DEF Removed, RemoveAt
<1> HIDE DEF i
<1>3. before \in Seq(S) /\ Len(before) = i - 1 /\ \A j \in 1..(i - 1) : before[j] = s[j]
  BY <1>1
<1>4. after \in Seq(S) /\ Len(after) = Len(s) - i /\ \A j \in 1..(Len(s) - i) : after[j] = s[i + j]
  BY <1>1
<1> HIDE DEF before, after
<1> DEFINE cut == before \o after
<1>5. cut \in Seq(S) /\ Len(cut) = Len(s) - 1
  <2>1. before \in Seq(S) /\ after \in Seq(S)
    BY <1>3, <1>4
  <2>2. cut \in Seq(S) /\ Len(cut) = Len(before) + Len(after)
    BY <2>1, ConcatProperties
  <2> QED
    BY <2>2, <1>1, <1>3, <1>4
<1>6. ASSUME NEW j \in 1..(Len(s) - 1) PROVE cut[j] = IF j < i THEN s[j] ELSE s[j + 1]
  <2>1. cut[j] = IF j <= Len(before) THEN before[j] ELSE after[j - Len(before)]
    <3>1. j \in 1 .. Len(before) + Len(after)
      BY <1>1, <1>3, <1>4
    <3> QED
      BY <3>1, <1>3, <1>4, ConcatProperties
  <2>2. CASE j < i
    BY <2>1, <2>2, <1>1, <1>3
  <2>3. CASE ~ j < i
    <3>1. j - (i - 1) \in 1..(Len(s) - i) /\ i + (j - (i - 1)) = j + 1 /\ ~ j <= i - 1
      BY <2>3, <1>1
    <3>2. cut[j] = after[j - (i - 1)]
      BY <2>1, <3>1, <1>3
    <3>3. after[j - (i - 1)] = s[j + 1]
      BY <3>1, <1>4
    <3> QED
      BY <2>3, <3>2, <3>3
  <2> QED
    BY <2>2, <2>3
<1>7. Removed(s, r) = cut
  BY <1>2 DEF cut
<1> QED
  BY <1>1, <1>5, <1>6, <1>7

\* Cutting one entry out of a list loses no other.
LEMMA RemovedFromList ==
  ASSUME NEW S, NEW s \in Seq(S), NEW r
  PROVE  /\ Removed(s, r) \in Seq(S) /\ Len(Removed(s, r)) <= Len(s)
         /\ Range(Removed(s, r)) \subseteq Range(s)
         /\ Range(s) \subseteq Range(Removed(s, r)) \union {r}
<1>1. CASE r \notin Range(s)
  BY <1>1 DEF Removed
<1>2. CASE r \in Range(s)
  <2> DEFINE cut == Removed(s, r)
  <2>1. PICK i \in 1..Len(s) :
          /\ s[i] = r
          /\ cut \in Seq(S) /\ Len(cut) = Len(s) - 1
          /\ \A j \in 1..(Len(s) - 1) : cut[j] = IF j < i THEN s[j] ELSE s[j + 1]
    BY <1>2, RemovedEntries
  <2> HIDE DEF cut
  <2>2. ASSUME NEW j \in 1..Len(cut) PROVE cut[j] \in Range(s)
    <3>1. j \in 1..(Len(s) - 1) /\ Len(s) \in Nat
      BY <2>1
    <3>2. \/ j \in DOMAIN s /\ cut[j] = s[j]
          \/ j + 1 \in DOMAIN s /\ cut[j] = s[j + 1]
      BY <3>1, <2>1
    <3> QED
      BY <3>2 DEF Range
  <2>3. ASSUME NEW j \in 1..Len(s), s[j] # r PROVE s[j] \in Range(cut)
    <3>1. CASE j < i
      <4>1. j \in DOMAIN cut /\ cut[j] = s[j]
        BY <3>1, <2>1
      <4> QED
        BY <4>1 DEF Range
    <3>2. CASE j > i
      <4>1. j - 1 \in DOMAIN cut /\ cut[j - 1] = s[j]
        BY <3>2, <2>1
      <4> QED
        BY <4>1 DEF Range
    <3> QED
      BY <3>1, <3>2, <2>1, <2>3
  <2>4. \A y \in Range(s) : y \in Range(cut) \union {r}
    BY <2>3 DEF Range
  <2>5. \A y \in Range(cut) : y \in Range(s)
    BY <2>1, <2>2 DEF Range
  <2> QED
    BY <2>1, <2>4, <2>5 DEF cut
<1> QED
  BY <1>1, <1>2

\* A list that names nothing twice.
Once(s) == \A i, j \in DOMAIN s : s[i] = s[j] => i = j

LEMMA AppendedOnce ==
  ASSUME NEW S, NEW s \in Seq(S), NEW x \in S, Once(s), x \notin Range(s)
  PROVE  Once(Append(s, x))
<1> DEFINE longer == Append(s, x)
<1>1. longer \in Seq(S) /\ Len(longer) = Len(s) + 1 /\ Len(s) \in Nat
  OBVIOUS
<1>2. \A i \in 1..Len(s) : longer[i] = s[i]
  OBVIOUS
<1>3. longer[Len(s) + 1] = x
  OBVIOUS
<1>4. \A i \in 1..Len(s) : s[i] # x
  BY DEF Range
<1> HIDE DEF longer
<1>5. ASSUME NEW i \in 1..(Len(s) + 1), NEW j \in 1..(Len(s) + 1), longer[i] = longer[j]
      PROVE  i = j
  <2>1. CASE i \in 1..Len(s) /\ j \in 1..Len(s)
    <3>1. s[i] = s[j] /\ i \in DOMAIN s /\ j \in DOMAIN s
      BY <2>1, <1>2, <1>5
    <3> QED
      BY <3>1 DEF Once
  <2>2. CASE ~ (i \in 1..Len(s) /\ j \in 1..Len(s))
    BY <2>2, <1>1, <1>2, <1>3, <1>4, <1>5
  <2> QED
    BY <2>1, <2>2
<1>6. DOMAIN longer = 1..(Len(s) + 1)
  BY <1>1
<1> QED
  BY <1>5, <1>6 DEF Once, longer

LEMMA ShortenedOnce ==
  ASSUME NEW S, NEW s \in Seq(S), s # <<>>, Once(s)
  PROVE  Once(Tail(s)) /\ Head(s) \notin Range(Tail(s))
<1>1. /\ Tail(s) \in Seq(S) /\ Len(Tail(s)) = Len(s) - 1 /\ Len(s) \in Nat \ {0}
      /\ Head(s) = s[1]
      /\ \A i \in 1..(Len(s) - 1) : Tail(s)[i] = s[i + 1]
  OBVIOUS
<1>2. DOMAIN Tail(s) = 1..(Len(s) - 1) /\ DOMAIN s = 1..Len(s)
  BY <1>1
<1>3. ASSUME NEW i \in 1..(Len(s) - 1), NEW j \in 1..(Len(s) - 1), Tail(s)[i] = Tail(s)[j]
      PROVE  i = j
  <2>1. s[i + 1] = s[j + 1] /\ i + 1 \in DOMAIN s /\ j + 1 \in DOMAIN s
    BY <1>1, <1>2, <1>3
  <2>2. i + 1 = j + 1
    BY <2>1 DEF Once
  <2> QED
    BY <2>2
<1>4. ASSUME NEW i \in 1..(Len(s) - 1) PROVE Tail(s)[i] # Head(s)
  <2>1. 1 \in DOMAIN s /\ i + 1 \in DOMAIN s /\ i + 1 # 1
    BY <1>1, <1>2
  <2>2. s[i + 1] # s[1]
    BY <2>1 DEF Once
  <2> QED
    BY <2>2, <1>1
<1> QED
  BY <1>2, <1>3, <1>4 DEF Once, Range

LEMMA RemovedOnce ==
  ASSUME NEW S, NEW s \in Seq(S), NEW r, Once(s)
  PROVE  Once(Removed(s, r)) /\ r \notin Range(Removed(s, r))
<1>1. CASE r \notin Range(s)
  BY <1>1 DEF Removed
<1>2. CASE r \in Range(s)
  <2> DEFINE cut == Removed(s, r)
  <2>1. PICK i \in 1..Len(s) :
          /\ s[i] = r
          /\ cut \in Seq(S) /\ Len(cut) = Len(s) - 1
          /\ \A j \in 1..(Len(s) - 1) : cut[j] = IF j < i THEN s[j] ELSE s[j + 1]
    BY <1>2, RemovedEntries
  <2> HIDE DEF cut
  <2>2. DOMAIN cut = 1..(Len(s) - 1) /\ DOMAIN s = 1..Len(s) /\ Len(s) \in Nat
    BY <2>1
  <2> DEFINE at(j) == IF j < i THEN j ELSE j + 1
  <2>3. \A j \in DOMAIN cut : at(j) \in DOMAIN s /\ at(j) # i /\ cut[j] = s[at(j)]
    BY <2>1, <2>2
  <2>4. \A j, k \in DOMAIN cut : at(j) = at(k) => j = k
    BY <2>2
  <2>5. i \in DOMAIN s
    BY <2>2
  <2> HIDE DEF at
  <2>6. Once(cut)
    BY <2>3, <2>4 DEF Once
  <2>7. \A j \in DOMAIN cut : cut[j] # r
    BY <2>1, <2>3, <2>5 DEF Once
  <2> QED
    BY <2>6, <2>7 DEF cut, Range
<1> QED
  BY <1>1, <1>2

-----------------------------------------------------------------------------
(***************************************************************************)
(* Every action keeps the invariant.                                       *)
(***************************************************************************)

\* The kinds of hands do not overlap.
LEMMA KindsOfHands ==
  /\ Starters \subseteq Hands /\ Users \subseteq Hands
  /\ Steppers \subseteq Hands /\ Runs \subseteq Hands
  /\ \A s \in Starters : s \notin Users /\ s \notin Runs
  /\ \A r \in Runs : r \notin Users /\ r # NoRun
  BY RegistryAssumption DEF Hands

\* A step of one hand: the others stay where they are.
OnlyMoves(h) ==
  \A g \in Hands \ {h} :
    pc'[g] = pc[g] /\ job'[g] = job[g] /\ then'[g] = then[g] /\ todo'[g] = todo[g]

LEMMA OneHandMoves ==
  ASSUME RegistryInv, NEW h \in Hands, OnlyMoves(h),
         \A s \in Starters \ {h} : mine'[s] = mine[s],
         Busy(h)', h \in Starters => StarterFits(h)',
         h \in Users => UserFits(h)', h \notin Users => OtherFits(h)',
         h \in Runs => job'[h] \in {h, NoRun}
  PROVE  HandsFit'
<1>1. \A g \in Hands : Busy(g)'
  BY DEF RegistryInv, HandsFit, Busy, OnlyMoves
<1>2. \A s \in Starters : StarterFits(s)'
  BY KindsOfHands DEF RegistryInv, HandsFit, StarterFits, OnlyMoves
<1>3. \A u \in Users : UserFits(u)'
  BY KindsOfHands DEF RegistryInv, HandsFit, UserFits, OnlyMoves
<1>4. \A g \in Hands \ Users : OtherFits(g)'
  BY DEF RegistryInv, HandsFit, OtherFits, OnlyMoves
<1>5. \A r \in Runs : job'[r] \in {r, NoRun}
  BY KindsOfHands DEF RegistryInv, HandsFit, OnlyMoves
<1> QED
  BY <1>1, <1>2, <1>3, <1>4, <1>5 DEF HandsFit

\* A step that makes no run and brings no run to notice.
LEMMA NothingNewKnown ==
  ASSUME RegistryInv, closed' = closed,
         \A r \in Runs : status[r] # "none" => status'[r] # "none",
         \A r \in Runs : Known(r)' => Known(r)
  PROVE  KnownAreMade' /\ ClosedAreMade'
  BY DEF RegistryInv, KnownAreMade, ClosedAreMade

\* What TurnTo does to the hand that turns.
LEMMA HandTurns ==
  ASSUME RegistryInv, NEW h \in Hands, NEW next, TurnTo(h, next), todo' = todo,
         next \in {"idle", "make", "setup", "hook", "register", "retire", "close", "closing", "forget"}
  PROVE  /\ OnlyMoves(h)
         /\ pc'[h] = next /\ then'[h] = "idle"
         /\ job'[h] = (IF next \in {"close", "setup"} THEN job[h] ELSE NoRun)
         /\ pc' \in [Hands -> {"idle", "make", "setup", "publish", "snapshot", "put",
                       "hook", "register", "retire", "closing", "close", "list", "forget"}]
         /\ job' \in [Hands -> Runs \union {NoRun}]
         /\ then' \in [Hands -> {"idle", "close", "register", "setup", "hook"}]
<1>1. /\ job \in [Hands -> Runs \union {NoRun}]
      /\ pc \in [Hands -> {"idle", "make", "setup", "publish", "snapshot", "put",
                       "hook", "register", "retire", "closing", "close", "list", "forget"}]
      /\ then \in [Hands -> {"idle", "close", "register", "setup", "hook"}]
  BY DEF RegistryInv, TypeOK
<1>2. pc' = [pc EXCEPT ![h] = next] /\ then' = [then EXCEPT ![h] = "idle"]
  BY DEF TurnTo
<1>3. job' = [job EXCEPT ![h] = IF next \in {"close", "setup"} THEN job[h] ELSE NoRun]
  BY DEF TurnTo
<1>4. job'[h] = (IF next \in {"close", "setup"} THEN job[h] ELSE NoRun)
  BY <1>1, <1>3
<1>5. job' \in [Hands -> Runs \union {NoRun}]
  BY <1>1, <1>3
<1>6. OnlyMoves(h)
  BY <1>1, <1>2, <1>3 DEF OnlyMoves
<1>7. /\ pc'[h] = next /\ then'[h] = "idle"
      /\ pc' \in [Hands -> {"idle", "make", "setup", "publish", "snapshot", "put",
                       "hook", "register", "retire", "closing", "close", "list", "forget"}]
      /\ then' \in [Hands -> {"idle", "close", "register", "setup", "hook"}]
  BY <1>1, <1>2
<1> QED
  BY <1>4, <1>5, <1>6, <1>7

\* A hand that turns learns of no run.
LEMMA TurningTellsNothing ==
  ASSUME RegistryInv, NEW h \in Hands, OnlyMoves(h), job'[h] \in {job[h], NoRun},
         todo' = todo, mine' = mine
  PROVE  \A r \in Runs :
           /\ (\E g \in Hands : job'[g] = r \/ r \in todo'[g]) =>
                \E g \in Hands : job[g] = r \/ r \in todo[g]
           /\ (\E s \in Starters : mine'[s] = r) => \E s \in Starters : mine[s] = r
  BY KindsOfHands DEF OnlyMoves

LEMMA SnapshotKeeps ==
  ASSUME RegistryInv, NEW h \in Hands, Snapshot(h)
  PROVE  RegistryInv'
<1>1. job[h] \in Runs
  BY DEF RegistryInv, HandsFit, Busy, Snapshot
<1>2. TypeOK'
  BY <1>1 DEF RegistryInv, TypeOK, Snapshot, runVars, logVars, News
<1>3. HandsFit'
  BY KindsOfHands DEF RegistryInv, TypeOK, HandsFit, Busy, StarterFits, UserFits, OtherFits,
       Snapshot, runVars, logVars
<1>4. KnownAreMade' /\ ClosedAreMade'
  BY DEF RegistryInv, KnownAreMade, Known, ClosedAreMade, Snapshot, runVars, logVars
<1> QED
  BY <1>2, <1>3, <1>4 DEF RegistryInv

\* Turning to what comes after a record or a report leaves the hands fit.
LEMMA TurningFits ==
  ASSUME RegistryInv, NEW h \in Hands, pc[h] \in {"publish", "put"}, TurnTo(h, then[h]),
         todo' = todo, mine' = mine
  PROVE  HandsFit'
<1>1. then[h] \in {"idle", "close", "register", "setup", "hook"} /\ job[h] \in Runs
  BY DEF RegistryInv, TypeOK, HandsFit, Busy
<1>2. /\ OnlyMoves(h)
      /\ pc'[h] = then[h] /\ then'[h] = "idle"
      /\ job'[h] = (IF then[h] \in {"close", "setup"} THEN job[h] ELSE NoRun)
  BY <1>1, HandTurns
<1>3. Busy(h)' /\ (h \in Runs => job'[h] \in {h, NoRun})
  BY <1>1, <1>2 DEF Busy, RegistryInv, HandsFit
<1>4. h \in Starters => StarterFits(h)'
  BY <1>1, <1>2 DEF StarterFits, RegistryInv, HandsFit
<1>5. h \in Users => UserFits(h)'
  BY <1>1, <1>2, KindsOfHands DEF UserFits, RegistryInv, HandsFit
<1>6. h \notin Users => OtherFits(h)'
  BY <1>1, <1>2 DEF OtherFits, RegistryInv, HandsFit
<1> QED
  BY <1>2, <1>3, <1>4, <1>5, <1>6, OneHandMoves

LEMMA PublishKeeps ==
  ASSUME RegistryInv, NEW h \in Hands, Publish(h)
  PROVE  RegistryInv'
<1>1. /\ pc[h] = "publish"
      /\ UNCHANGED <<order, runVars, logVars, mine, snap, todo, shaken>>
  BY DEF Publish
<1>2. \/ pc' = [pc EXCEPT ![h] = "snapshot"] /\ UNCHANGED <<job, then>>
      \/ TurnTo(h, then[h])
  BY Zenon DEF Publish
<1>3. job[h] \in Runs /\ then[h] \in {"idle", "close", "register", "setup", "hook"}
  BY <1>1 DEF RegistryInv, TypeOK, HandsFit, Busy
<1>4. CASE pc' = [pc EXCEPT ![h] = "snapshot"] /\ UNCHANGED <<job, then>>
  <2>1. TypeOK'
    BY <1>1, <1>4 DEF RegistryInv, TypeOK, runVars, logVars, News
  <2>2. HandsFit'
    BY <1>1, <1>3, <1>4, KindsOfHands DEF RegistryInv, TypeOK, HandsFit, Busy, StarterFits, UserFits,
         OtherFits
  <2>3. KnownAreMade' /\ ClosedAreMade'
    BY <1>1, <1>4 DEF RegistryInv, KnownAreMade, Known, ClosedAreMade, runVars, logVars
  <2> QED
    BY <2>1, <2>2, <2>3 DEF RegistryInv
<1>5. CASE TurnTo(h, then[h])
  <2>1. TypeOK'
    BY <1>1, <1>3, <1>5, HandTurns DEF RegistryInv, TypeOK, runVars, logVars, News
  <2>2. HandsFit'
    BY <1>1, <1>5, TurningFits
  <2>3. OnlyMoves(h) /\ job'[h] \in {job[h], NoRun}
    BY <1>1, <1>3, <1>5, HandTurns
  <2>4. \A r \in Runs : Known(r)' => Known(r)
    BY <2>3, <1>1, TurningTellsNothing DEF Known, logVars
  <2>5. KnownAreMade' /\ ClosedAreMade'
    BY <2>4, <1>1, NothingNewKnown DEF runVars
  <2> QED
    BY <2>1, <2>2, <2>5 DEF RegistryInv
<1> QED
  BY <1>2, <1>4, <1>5

LEMMA PutKeeps ==
  ASSUME RegistryInv, NEW h \in Hands, Put(h)
  PROVE  RegistryInv'
<1> DEFINE r == job[h]
           grown == IF r \in Logged THEN logged ELSE Append(logged, r)
<1>1. r \in Runs
  BY DEF RegistryInv, HandsFit, Busy, Put
<1>2. grown \in Seq(Runs) /\ Range(grown) = Range(logged) \union {r}
  BY <1>1, AppendedList DEF RegistryInv, TypeOK, Logged
<1> HIDE DEF grown
<1>3. logged' \in Seq(Runs) /\ Range(logged') \subseteq Range(logged) \union {r}
  <2>1. CASE Len(grown) > HistoryLimit
    <3>1. grown # <<>>
      BY <2>1, RegistryAssumption
    <3> QED
      <4>1. logged' = Tail(grown)
        BY <2>1 DEF Put, grown
      <4>2. grown \in Seq(Runs)
        BY <1>2
      <4> QED
        BY <1>2, <3>1, <4>1, <4>2, ShortenedList
  <2>2. CASE ~ Len(grown) > HistoryLimit
    BY <2>2, <1>2 DEF Put, grown
  <2> QED
    BY <2>1, <2>2
<1>4. record' \in [Runs -> News] /\ shaken' \subseteq Runs
  <2>1. Len(grown) > HistoryLimit => Head(grown) \in Runs
    BY <1>2, RegistryAssumption
  <2>2. snap[h] \in News /\ 0 \in News
    BY RegistryAssumption DEF RegistryInv, TypeOK, News
  <2>3. record' \in [Runs -> News]
    BY <2>1, <2>2, <1>1 DEF RegistryInv, TypeOK, Put, grown
  <2>4. shaken' \in {shaken, shaken \union {r}, shaken \union {Head(grown)},
                     shaken \union {r} \union {Head(grown)}}
        /\ (~ Len(grown) > HistoryLimit => shaken' \in {shaken, shaken \union {r}})
    BY Zenon DEF Put, grown
  <2> QED
    BY <2>1, <2>3, <2>4, <1>1 DEF RegistryInv, TypeOK
<1>5. /\ pc[h] = "put" /\ TurnTo(h, then[h])
      /\ snap' = [snap EXCEPT ![h] = 0]
      /\ UNCHANGED <<order, runVars, mine, todo>>
  BY DEF Put
<1>6. then[h] \in {"idle", "close", "register", "setup", "hook"}
  BY DEF RegistryInv, TypeOK
<1>7. TypeOK'
  <2>1. TypeOK /\ 0 \in News
    BY RegistryAssumption DEF RegistryInv, News
  <2>2. /\ pc' \in [Hands -> {"idle", "make", "setup", "publish", "snapshot", "put",
                       "hook", "register", "retire", "closing", "close", "list", "forget"}]
        /\ job' \in [Hands -> Runs \union {NoRun}]
        /\ then' \in [Hands -> {"idle", "close", "register", "setup", "hook"}]
    BY <1>5, <1>6, HandTurns
  <2>3. snap' \in [Hands -> News]
    BY <1>5, <2>1 DEF TypeOK
  <2> QED
    BY <1>3, <1>4, <1>5, <2>1, <2>2, <2>3 DEF TypeOK, runVars
<1>8. HandsFit'
  BY <1>5, TurningFits
<1>9. OnlyMoves(h) /\ job'[h] \in {job[h], NoRun}
  BY <1>5, <1>6, HandTurns
<1>10. \A x \in Runs : Known(x)' => Known(x)
  BY <1>3, <1>5, <1>9, TurningTellsNothing DEF Known
<1>11. KnownAreMade' /\ ClosedAreMade'
  BY <1>5, <1>10, NothingNewKnown DEF runVars
<1> QED
  BY <1>7, <1>8, <1>11 DEF RegistryInv

\* A run made, and known to its starter only.
LEMMA MakesRun ==
  ASSUME RegistryInv, NEW s \in Starters, NEW r \in Runs, status[r] = "none",
         status' = [status EXCEPT ![r] = "preparing"],
         job' = [job EXCEPT ![s] = r], mine' = [mine EXCEPT ![s] = r],
         UNCHANGED <<order, closed, logVars, todo>>
  PROVE  KnownAreMade' /\ ClosedAreMade'
<1>1. \A x \in Runs : Known(x)' => Known(x) \/ x = r
  BY KindsOfHands DEF RegistryInv, TypeOK, Known, logVars
<1>2. status'[r] = "preparing" /\ \A x \in Runs \ {r} : status'[x] = status[x]
  BY DEF RegistryInv, TypeOK
<1> QED
  BY <1>1, <1>2 DEF RegistryInv, KnownAreMade, ClosedAreMade

LEMMA EvictKeeps ==
  ASSUME RegistryInv, NEW s \in Starters, Evict(s)
  PROVE  RegistryInv'
<1>1. /\ pc[s] = "idle" /\ mine[s] = NoRun /\ s \in Hands
      /\ UNCHANGED <<runVars, logVars, mine, snap, todo, shaken>>
  BY KindsOfHands DEF RegistryInv, HandsFit, StarterFits, Evict
<1>2. CASE Len(order) >= MaxRuns
  <2>1. order # <<>>
    BY <1>2, RegistryAssumption
  <2>2. /\ order' \in Seq(Runs) /\ Head(order) \in Runs
        /\ Range(order) = Range(order') \union {Head(order)}
    <3>1. order \in Seq(Runs) /\ order' = Tail(order)
      BY <1>2 DEF RegistryInv, TypeOK, Evict
    <3> QED
      BY <3>1, <2>1, ShortenedList
  <2>3. /\ job' = [job EXCEPT ![s] = Head(order)]
        /\ then' = [then EXCEPT ![s] = "close"] /\ pc' = [pc EXCEPT ![s] = "snapshot"]
    BY <1>2 DEF Evict
  <2>4. TypeOK'
    BY <1>1, <2>2, <2>3 DEF RegistryInv, TypeOK, runVars, logVars, News
  <2>5. HandsFit'
    BY <1>1, <2>2, <2>3, KindsOfHands DEF RegistryInv, TypeOK, HandsFit, Busy, StarterFits,
         UserFits, OtherFits
  <2>6. \A r \in Runs : Known(r)' => Known(r)
    BY <1>1, <2>2, <2>3 DEF RegistryInv, TypeOK, Known, logVars
  <2> QED
    BY <1>1, <2>4, <2>5, <2>6, NothingNewKnown DEF RegistryInv, runVars
<1>3. CASE ~ Len(order) >= MaxRuns
  <2>1. pc' = [pc EXCEPT ![s] = "make"] /\ UNCHANGED <<order, job, then>>
    BY <1>3 DEF Evict
  <2>2. TypeOK'
    BY <1>1, <2>1 DEF RegistryInv, TypeOK, runVars, logVars, News
  <2>3. HandsFit'
    BY <1>1, <2>1, KindsOfHands DEF RegistryInv, TypeOK, HandsFit, Busy, StarterFits, UserFits,
         OtherFits
  <2>4. \A r \in Runs : Known(r)' => Known(r)
    BY <1>1, <2>1 DEF Known, logVars
  <2> QED
    BY <1>1, <2>2, <2>3, <2>4, NothingNewKnown DEF RegistryInv, runVars
<1> QED
  BY <1>2, <1>3

LEMMA StartAsyncKeeps ==
  ASSUME RegistryInv, NEW s \in Starters, NEW r \in Runs, StartAsync(s, r)
  PROVE  RegistryInv'
<1>1. s \in Hands
  BY KindsOfHands
<1>2. TypeOK'
  BY <1>1 DEF RegistryInv, TypeOK, StartAsync, Make, logVars, News
<1>3. HandsFit'
  BY <1>1, KindsOfHands DEF RegistryInv, TypeOK, HandsFit, Busy, StarterFits, UserFits, OtherFits,
       StartAsync, Make
<1>4. KnownAreMade' /\ ClosedAreMade'
  BY MakesRun DEF StartAsync, Make
<1> QED
  BY <1>2, <1>3, <1>4 DEF RegistryInv

LEMMA StartKeeps ==
  ASSUME RegistryInv, NEW s \in Starters, NEW r \in Runs, Start(s, r)
  PROVE  RegistryInv'
<1>1. s \in Hands
  BY KindsOfHands
<1>2. TypeOK'
  BY <1>1 DEF RegistryInv, TypeOK, Start, Make, logVars, News
<1>3. HandsFit'
  BY <1>1, KindsOfHands DEF RegistryInv, TypeOK, HandsFit, Busy, StarterFits, UserFits, OtherFits,
       Start, Make
<1>4. KnownAreMade' /\ ClosedAreMade'
  BY MakesRun DEF Start, Make
<1> QED
  BY <1>2, <1>3, <1>4 DEF RegistryInv

LEMMA MakeFailsKeeps ==
  ASSUME RegistryInv, NEW s \in Starters, MakeFails(s)
  PROVE  RegistryInv'
<1>1. s \in Hands
  BY KindsOfHands
<1>2. TypeOK'
  BY <1>1 DEF RegistryInv, TypeOK, MakeFails, runVars, logVars, News
<1>3. HandsFit'
  BY <1>1, KindsOfHands DEF RegistryInv, TypeOK, HandsFit, Busy, StarterFits, UserFits, OtherFits,
       MakeFails
<1>4. KnownAreMade' /\ ClosedAreMade'
  BY NothingNewKnown DEF MakeFails, runVars, logVars, Known
<1> QED
  BY <1>2, <1>3, <1>4 DEF RegistryInv

LEMMA HookKeeps ==
  ASSUME RegistryInv, NEW s \in Starters, Hook(s)
  PROVE  RegistryInv'
<1>1. s \in Hands /\ mine[s] \in Runs
  BY KindsOfHands DEF RegistryInv, HandsFit, StarterFits, Hook
<1>2. TypeOK'
  BY <1>1 DEF RegistryInv, TypeOK, Hook, logVars, News
<1>3. HandsFit'
  BY <1>1, KindsOfHands DEF RegistryInv, TypeOK, HandsFit, Busy, StarterFits, UserFits, OtherFits,
       Hook
<1>4. \A r \in Runs : Known(r)' => Known(r)
  BY <1>1 DEF RegistryInv, TypeOK, Known, Hook, logVars
<1>5. KnownAreMade' /\ ClosedAreMade'
  BY <1>4, NothingNewKnown DEF Hook
<1> QED
  BY <1>2, <1>3, <1>5 DEF RegistryInv

LEMMA RegisterKeeps ==
  ASSUME RegistryInv, NEW s \in Starters, Register(s)
  PROVE  RegistryInv'
<1> DEFINE r == mine[s]
<1>1. s \in Hands /\ r \in Runs /\ r \in Hands /\ pc[s] = "register" /\ r # s
  BY KindsOfHands DEF RegistryInv, HandsFit, StarterFits, Register
<1>2. /\ order' = Append(order, r) /\ mine' = [mine EXCEPT ![s] = NoRun]
      /\ UNCHANGED <<runVars, logVars, snap, then, todo, shaken>>
      /\ \/ pc' = [pc EXCEPT ![s] = "idle", ![r] = "setup"] /\ job' = [job EXCEPT ![r] = r]
         \/ pc' = [pc EXCEPT ![s] = "idle"] /\ job' = job
  BY DEF Register
<1>3. order' \in Seq(Runs) /\ Range(order') = Range(order) \union {r}
  BY <1>1, <1>2, AppendedList DEF RegistryInv, TypeOK
<1>4. TypeOK'
  BY <1>1, <1>2, <1>3 DEF RegistryInv, TypeOK, runVars, logVars, News
<1>5. HandsFit'
  <2>1. \A h \in Hands : Busy(h)'
    BY <1>1, <1>2 DEF RegistryInv, TypeOK, HandsFit, Busy
  <2>2. \A x \in Starters : StarterFits(x)'
    BY <1>1, <1>2, KindsOfHands DEF RegistryInv, TypeOK, HandsFit, StarterFits
  <2>3. \A u \in Users : UserFits(u)'
    BY <1>1, <1>2, KindsOfHands DEF RegistryInv, TypeOK, HandsFit, UserFits
  <2>4. ASSUME NEW h \in Hands \ Users PROVE OtherFits(h)'
    <3>1. pc'[h] \in {pc[h], "idle", "setup"} /\ todo'[h] = todo[h]
      BY <1>1, <1>2 DEF RegistryInv, TypeOK
    <3>2. OtherFits(h)
      BY DEF RegistryInv, HandsFit
    <3> QED
      BY <3>1, <3>2 DEF OtherFits
  <2>5. \A x \in Runs : job'[x] \in {x, NoRun}
    BY <1>1, <1>2, KindsOfHands DEF RegistryInv, TypeOK, HandsFit
  <2> QED
    BY <2>1, <2>2, <2>3, <2>4, <2>5 DEF HandsFit
<1>6. \A x \in Runs : Known(x)' => Known(x)
  BY <1>1, <1>2, <1>3, KindsOfHands DEF RegistryInv, TypeOK, Known, logVars
<1>7. KnownAreMade' /\ ClosedAreMade'
  BY <1>2, <1>6, NothingNewKnown DEF runVars
<1> QED
  BY <1>4, <1>5, <1>7 DEF RegistryInv

LEMMA SetupProgressKeeps ==
  ASSUME RegistryInv, NEW h \in Hands, SetupProgress(h)
  PROVE  RegistryInv'
<1>1. job[h] \in Runs
  BY DEF RegistryInv, HandsFit, Busy, SetupProgress
<1>2. TypeOK'
  BY <1>1, RegistryAssumption DEF RegistryInv, TypeOK, SetupProgress, logVars, News
<1>3. HandsFit'
  BY KindsOfHands DEF RegistryInv, TypeOK, HandsFit, Busy, StarterFits, UserFits, OtherFits,
       SetupProgress
<1>4. KnownAreMade' /\ ClosedAreMade'
  BY NothingNewKnown DEF SetupProgress, logVars, Known
<1> QED
  BY <1>2, <1>3, <1>4 DEF RegistryInv

LEMMA SetupKeeps ==
  ASSUME RegistryInv, NEW h \in Hands, Setup(h)
  PROVE  RegistryInv'
<1> DEFINE r == job[h]
<1>1. /\ r \in Runs /\ pc[h] = "setup" /\ news[r] <= MaxNews
      /\ news' = [news EXCEPT ![r] = @ + 1] /\ pc' = [pc EXCEPT ![h] = "publish"]
      /\ UNCHANGED <<order, closed, hooked, logVars, job, mine, snap, todo, shaken>>
  BY DEF RegistryInv, HandsFit, Busy, Setup
<1>2. \E next \in {"hook", "idle", "close"} :
        /\ then' = [then EXCEPT ![h] = next]
        /\ h \in Starters => next # "idle"
  BY DEF Setup
<1>3. \E new \in {"ready", "failed"} : status' = [status EXCEPT ![r] = new]
  BY DEF Setup
<1>4. TypeOK'
  BY <1>1, <1>2, <1>3, RegistryAssumption DEF RegistryInv, TypeOK, logVars, News
<1>5. HandsFit'
  BY <1>1, <1>2, KindsOfHands DEF RegistryInv, TypeOK, HandsFit, Busy, StarterFits, UserFits,
       OtherFits
<1>6. \A x \in Runs : status[x] # "none" => status'[x] # "none"
  BY <1>1, <1>3 DEF RegistryInv, TypeOK
<1>7. KnownAreMade' /\ ClosedAreMade'
  BY <1>1, <1>6, NothingNewKnown DEF logVars, Known
<1> QED
  BY <1>4, <1>5, <1>7 DEF RegistryInv

LEMMA AdvanceKeeps ==
  ASSUME RegistryInv, NEW w \in Steppers, NEW r \in Runs, Advance(w, r)
  PROVE  RegistryInv'
<1>1. /\ w \in Hands /\ w \notin Starters /\ w \notin Users /\ w \notin Runs
  BY RegistryAssumption DEF Hands
<1>2. /\ status[r] = "ready" /\ news[r] <= MaxNews
      /\ news' = [news EXCEPT ![r] = @ + 1] /\ job' = [job EXCEPT ![w] = r]
      /\ pc' = [pc EXCEPT ![w] = "publish"] /\ then' = [then EXCEPT ![w] = "idle"]
      /\ UNCHANGED <<order, status, closed, hooked, logVars, mine, snap, todo, shaken>>
  BY DEF Advance
<1>3. TypeOK'
  BY <1>1, <1>2, RegistryAssumption DEF RegistryInv, TypeOK, logVars, News
<1>4. HandsFit'
  BY <1>1, <1>2, KindsOfHands DEF RegistryInv, TypeOK, HandsFit, Busy, StarterFits, UserFits,
       OtherFits
<1>5. \A x \in Runs : Known(x)' => Known(x) \/ x = r
  BY <1>1, <1>2 DEF RegistryInv, TypeOK, Known, logVars
<1>6. KnownAreMade' /\ ClosedAreMade'
  BY <1>2, <1>5 DEF RegistryInv, KnownAreMade, ClosedAreMade
<1> QED
  BY <1>3, <1>4, <1>6 DEF RegistryInv

\* A run taken out of the register, by a user who is about to close it.
LEMMA UnregisterKeeps ==
  ASSUME RegistryInv, NEW u \in Users, NEW r \in Range(order), Unregister(u, r),
         pc[u] \in {"idle", "closing"}, r \in todo[u] \/ pc[u] = "idle",
         UNCHANGED <<runVars, logVars, mine, snap, todo, shaken>>
  PROVE  RegistryInv'
<1>1. u \in Hands /\ r \in Runs
  BY KindsOfHands DEF RegistryInv, TypeOK, Range
<1>2. order' \in Seq(Runs) /\ Range(order') \subseteq Range(order)
  BY RemovedFromList DEF RegistryInv, TypeOK, Unregister
<1>3. /\ job' = [job EXCEPT ![u] = r] /\ pc' = [pc EXCEPT ![u] = "snapshot"]
      /\ then' = [then EXCEPT ![u] = "close"]
  BY DEF Unregister
<1>4. TypeOK'
  BY <1>1, <1>2, <1>3 DEF RegistryInv, TypeOK, runVars, logVars, News
<1>5. OnlyMoves(u)
  BY <1>3 DEF OnlyMoves, RegistryInv, TypeOK
<1>6. Busy(u)' /\ UserFits(u)'
  BY <1>1, <1>3 DEF RegistryInv, TypeOK, HandsFit, Busy, UserFits
<1>7. HandsFit'
  BY <1>1, <1>5, <1>6, KindsOfHands, OneHandMoves
<1>8. \A x \in Runs : Known(x)' => Known(x)
  BY <1>1, <1>2, <1>3 DEF RegistryInv, TypeOK, Known, logVars
<1>9. KnownAreMade' /\ ClosedAreMade'
  BY <1>8, NothingNewKnown DEF runVars
<1> QED
  BY <1>4, <1>7, <1>9 DEF RegistryInv

LEMMA CloseRunKeeps ==
  ASSUME RegistryInv, NEW u \in Users, NEW r \in Runs, CloseRun(u, r)
  PROVE  RegistryInv'
  BY UnregisterKeeps DEF CloseRun

\* A hand with a list is a user's.
LEMMA ListsAreUsers ==
  ASSUME RegistryInv, NEW h \in Hands, pc[h] \in {"closing", "retire", "list", "forget"}
  PROVE  h \in Users
  BY DEF RegistryInv, HandsFit, OtherFits

\* A user whose list changes, and nothing else it holds.
LEMMA ListChangesKeeps ==
  ASSUME RegistryInv, NEW u \in Users, NEW next \in {"idle", "closing", "retire", "list", "forget"},
         NEW rest \in SUBSET Runs, job[u] = NoRun,
         next = "idle" => rest = {}, next = "closing" => \A x, y \in rest : x = y,
         \A r \in rest : Known(r),
         pc' = [pc EXCEPT ![u] = next], todo' = [todo EXCEPT ![u] = rest],
         order' \in Seq(Runs), Range(order') \subseteq Range(order),
         logged' \in Seq(Runs), Range(logged') \subseteq Range(logged),
         record' \in [Runs -> News], shaken' \subseteq Runs,
         UNCHANGED <<runVars, job, mine, snap, then>>
  PROVE  RegistryInv'
<1>1. u \in Hands
  BY KindsOfHands
<1>2. TypeOK'
  BY <1>1 DEF RegistryInv, TypeOK, runVars
<1>3. OnlyMoves(u)
  BY DEF OnlyMoves, RegistryInv, TypeOK
<1>4. Busy(u)' /\ UserFits(u)'
  BY <1>1, RegistryAssumption DEF RegistryInv, TypeOK, HandsFit, Busy, UserFits
<1>5. HandsFit'
  BY <1>1, <1>3, <1>4, KindsOfHands, OneHandMoves
<1>6. \A x \in Runs : Known(x)' => Known(x)
  BY <1>1 DEF RegistryInv, TypeOK, Known
<1>7. KnownAreMade' /\ ClosedAreMade'
  BY <1>6, NothingNewKnown DEF runVars
<1> QED
  BY <1>2, <1>5, <1>7 DEF RegistryInv

LEMMA ForgetRunKeeps ==
  ASSUME RegistryInv, NEW u \in Users, NEW r \in Runs, ForgetRun(u, r)
  PROVE  RegistryInv'
<1>1. pc[u] = "idle" /\ job[u] = NoRun /\ Known(r)
  BY DEF RegistryInv, HandsFit, UserFits, ForgetRun, Known, Logged
<1>2. \E next \in {"closing", "forget"} : pc' = [pc EXCEPT ![u] = next]
  BY DEF ForgetRun
<1>3. /\ todo' = [todo EXCEPT ![u] = {r}]
      /\ UNCHANGED <<order, runVars, logVars, job, mine, snap, then, shaken>>
  BY DEF ForgetRun
<1> DEFINE rest == {r}
<1>4. /\ rest \in SUBSET Runs /\ rest # {} /\ \A x, y \in rest : x = y
      /\ \A x \in rest : Known(x)
  BY <1>1
<1>5. todo' = [todo EXCEPT ![u] = rest]
  BY <1>3
<1> HIDE DEF rest
<1> QED
  BY <1>1, <1>2, <1>3, <1>4, <1>5, ListChangesKeeps DEF RegistryInv, TypeOK, logVars

LEMMA ForgetClosesKeeps ==
  ASSUME RegistryInv, NEW h \in Hands, ForgetCloses(h)
  PROVE  RegistryInv'
<1>1. h \in Users /\ pc[h] = "closing" /\ job[h] = NoRun
  BY ListsAreUsers DEF ForgetCloses, RegistryInv, HandsFit, UserFits
<1>2. PICK r \in todo[h] :
        \/ r \in Range(order) /\ Unregister(h, r) /\ UNCHANGED todo
        \/ /\ pc' = [pc EXCEPT ![h] = "idle"]
           /\ todo' = [todo EXCEPT ![h] = {}]
           /\ UNCHANGED <<order, job, then>>
  BY DEF ForgetCloses
<1>3. UNCHANGED <<runVars, logVars, mine, snap, shaken>>
  BY DEF ForgetCloses
<1>4. CASE r \in Range(order) /\ Unregister(h, r) /\ UNCHANGED todo
  BY <1>1, <1>3, <1>4, UnregisterKeeps
<1>5. CASE /\ pc' = [pc EXCEPT ![h] = "idle"]
           /\ todo' = [todo EXCEPT ![h] = {}]
           /\ UNCHANGED <<order, job, then>>
  <2> DEFINE rest == {}
             next == "idle"
  <2>1. /\ rest \in SUBSET Runs /\ \A x \in rest : Known(x)
        /\ next \in {"idle", "closing", "retire", "list", "forget"}
        /\ (next = "idle" => rest = {}) /\ (next = "closing" => \A x, y \in rest : x = y)
    OBVIOUS
  <2>2. pc' = [pc EXCEPT ![h] = next] /\ todo' = [todo EXCEPT ![h] = rest]
    BY <1>5
  <2> HIDE DEF rest, next
  <2> QED
    BY <2>1, <2>2, <1>1, <1>3, <1>5, ListChangesKeeps DEF RegistryInv, TypeOK, logVars
<1> QED
  BY <1>2, <1>4, <1>5

LEMMA ClearRunsKeeps ==
  ASSUME RegistryInv, NEW u \in Users, ClearRuns(u)
  PROVE  RegistryInv'
<1>1. pc[u] = "idle" /\ job[u] = NoRun
  BY DEF RegistryInv, HandsFit, UserFits, ClearRuns
<1>2. Range(order) \in SUBSET Runs /\ \A r \in Range(order) : Known(r)
  BY DEF RegistryInv, TypeOK, Range, Known
<1> QED
  BY <1>1, <1>2, ListChangesKeeps DEF ClearRuns, RegistryInv, TypeOK, logVars

LEMMA ClearListsKeeps ==
  ASSUME RegistryInv, NEW h \in Hands, ClearLists(h)
  PROVE  RegistryInv'
<1> DEFINE rest == Logged \ todo[h]
<1>1. h \in Users /\ job[h] = NoRun
  BY ListsAreUsers DEF ClearLists, RegistryInv, HandsFit, UserFits
<1>2. rest \in SUBSET Runs /\ \A r \in rest : Known(r)
  BY DEF RegistryInv, TypeOK, Range, Known, Logged
<1>3. \E next \in {"idle", "forget"} :
        pc' = [pc EXCEPT ![h] = next] /\ (next = "idle" => rest = {})
  BY DEF ClearLists
<1>4. /\ todo' = [todo EXCEPT ![h] = rest]
      /\ UNCHANGED <<order, runVars, logVars, job, mine, snap, then, shaken>>
  BY DEF ClearLists
<1> HIDE DEF rest
<1> QED
  BY <1>1, <1>2, <1>3, <1>4, ListChangesKeeps DEF RegistryInv, TypeOK, logVars

LEMMA ForgetKeeps ==
  ASSUME RegistryInv, NEW h \in Hands, Forget(h)
  PROVE  RegistryInv'
<1>1. h \in Users /\ job[h] = NoRun
  BY ListsAreUsers DEF Forget, RegistryInv, HandsFit, UserFits
<1>2. PICK r \in todo[h] :
        /\ logged' = Removed(logged, r)
        /\ record' = [record EXCEPT ![r] = 0]
        /\ shaken' = shaken \union {r}
        /\ todo' = [todo EXCEPT ![h] = @ \ {r}]
        /\ pc' = [pc EXCEPT ![h] = IF todo[h] = {r} THEN "idle" ELSE "forget"]
  BY DEF Forget
<1> DEFINE rest == todo[h] \ {r}
<1>3. todo[h] \subseteq Runs
  BY DEF RegistryInv, TypeOK
<1>4. rest \in SUBSET Runs /\ todo' = [todo EXCEPT ![h] = rest] /\ \A x \in rest : Known(x)
  BY <1>2, <1>3 DEF RegistryInv, TypeOK, Known
<1>5. \E next \in {"idle", "forget"} :
        pc' = [pc EXCEPT ![h] = next] /\ (next = "idle" => rest = {})
  BY <1>2
<1>6. /\ logged' \in Seq(Runs) /\ Range(logged') \subseteq Range(logged)
      /\ record' \in [Runs -> News] /\ shaken' \subseteq Runs
  <2>1. logged' \in Seq(Runs) /\ Range(logged') \subseteq Range(logged)
    BY <1>2, RemovedFromList DEF RegistryInv, TypeOK
  <2>2. record' \in [Runs -> News] /\ shaken' \subseteq Runs
    BY <1>2, <1>3, RegistryAssumption DEF RegistryInv, TypeOK, News
  <2> QED
    BY <2>1, <2>2
<1>7. UNCHANGED <<order, runVars, job, mine, snap, then>>
  BY DEF Forget
<1> HIDE DEF rest
<1>8. order' \in Seq(Runs) /\ Range(order') \subseteq Range(order)
  BY <1>7 DEF RegistryInv, TypeOK
<1> QED
  BY <1>1, <1>4, <1>5, <1>6, <1>7, <1>8, ListChangesKeeps

LEMMA CloseAllKeeps ==
  ASSUME RegistryInv, NEW u \in Users, CloseAll(u)
  PROVE  RegistryInv'
<1>1. pc[u] = "idle" /\ job[u] = NoRun
  BY DEF RegistryInv, HandsFit, UserFits, CloseAll
<1>2. Range(order) \in SUBSET Runs /\ \A r \in Range(order) : Known(r)
  BY DEF RegistryInv, TypeOK, Range, Known
<1>3. order' \in Seq(Runs) /\ Range(order') \subseteq Range(order)
  BY DEF CloseAll, Range
<1> QED
  BY <1>1, <1>2, <1>3, ListChangesKeeps DEF CloseAll, RegistryInv, TypeOK, logVars

LEMMA RetireKeeps ==
  ASSUME RegistryInv, NEW h \in Hands, Retire(h)
  PROVE  RegistryInv'
<1>1. h \in Users
  BY ListsAreUsers DEF Retire
<1>2. PICK r \in todo[h] :
        job' = [job EXCEPT ![h] = r] /\ todo' = [todo EXCEPT ![h] = @ \ {r}]
  BY DEF Retire
<1>3. /\ pc' = [pc EXCEPT ![h] = "snapshot"] /\ then' = [then EXCEPT ![h] = "close"]
      /\ UNCHANGED <<order, runVars, logVars, mine, snap, shaken>>
  BY DEF Retire
<1>4. r \in Runs
  BY <1>2 DEF RegistryInv, TypeOK
<1>5. TypeOK'
  BY <1>2, <1>3, <1>4 DEF RegistryInv, TypeOK, runVars, logVars, News
<1>6. OnlyMoves(h)
  BY <1>2, <1>3 DEF OnlyMoves, RegistryInv, TypeOK
<1>7. Busy(h)' /\ UserFits(h)'
  BY <1>2, <1>3, <1>4 DEF RegistryInv, TypeOK, Busy, UserFits
<1>8. HandsFit'
  BY <1>1, <1>3, <1>6, <1>7, KindsOfHands, OneHandMoves
<1>9. \A x \in Runs : Known(x)' => Known(x)
  BY <1>2, <1>3 DEF RegistryInv, TypeOK, Known, logVars
<1>10. KnownAreMade' /\ ClosedAreMade'
  BY <1>3, <1>9, NothingNewKnown DEF runVars
<1> QED
  BY <1>5, <1>8, <1>10 DEF RegistryInv

\* Where a hand goes after it closed a run.
LEMMA AfterCloseIs ==
  ASSUME RegistryInv, NEW h \in Hands, NEW next \in AfterClose(h)
  PROVE  /\ next \in {"make", "hook", "idle", "forget", "closing", "retire"}
         /\ h \in Starters => next = IF mine[h] = NoRun THEN "make" ELSE "hook"
         /\ h \notin Users => next \in {"make", "hook", "idle"}
         /\ h \in Users => IF job[h] \in todo[h] THEN next \in {"forget", "closing"}
                           ELSE next = IF todo[h] = {} THEN "idle" ELSE "retire"
<1>1. CASE h \in Starters
  <2>1. next = IF mine[h] = NoRun THEN "make" ELSE "hook"
    BY <1>1, KindsOfHands DEF AfterClose
  <2> QED
    BY <2>1, <1>1, KindsOfHands
<1>2. CASE h \in Runs
  <2>1. next = "idle"
    BY <1>2, KindsOfHands DEF AfterClose
  <2> QED
    BY <2>1, <1>2, KindsOfHands
<1>3. CASE h \notin Starters /\ h \notin Runs
  <2>1. IF job[h] \in todo[h] THEN next \in {"forget", "closing"}
        ELSE next = IF todo[h] = {} THEN "idle" ELSE "retire"
    BY <1>3 DEF AfterClose
  <2>2. h \notin Users => todo[h] = {}
    BY DEF RegistryInv, HandsFit, OtherFits
  <2> QED
    BY <2>1, <2>2, <1>3
<1> QED
  BY <1>1, <1>2, <1>3

LEMMA CloseKeeps ==
  ASSUME RegistryInv, NEW h \in Hands, Close(h)
  PROVE  RegistryInv'
<1> DEFINE r == job[h]
<1>1. r \in Runs /\ pc[h] = "close" /\ Known(r)
  BY DEF RegistryInv, HandsFit, Busy, Close, Known
<1>0. PICK next \in AfterClose(h) : TurnTo(h, next)
  BY DEF Close
<1>2. /\ TurnTo(h, next) /\ closed' = [closed EXCEPT ![r] = TRUE]
      /\ UNCHANGED <<order, hooked, news, logVars, mine, snap, todo, shaken>>
  BY <1>0 DEF Close
<1>3. \E new \in {status[r], "closed"} : status' = [status EXCEPT ![r] = new]
  BY Zenon DEF Close
<1>4. /\ OnlyMoves(h) /\ pc'[h] = next /\ then'[h] = "idle" /\ job'[h] = NoRun
      /\ pc' \in [Hands -> {"idle", "make", "setup", "publish", "snapshot", "put",
                       "hook", "register", "retire", "closing", "close", "list", "forget"}]
      /\ job' \in [Hands -> Runs \union {NoRun}]
      /\ then' \in [Hands -> {"idle", "close", "register", "setup", "hook"}]
  <2>1. next \in {"make", "hook", "idle", "forget", "closing", "retire"}
    BY AfterCloseIs
  <2> QED
    BY <2>1, <1>2, HandTurns
<1>5. TypeOK'
  <2>1. status' \in [Runs -> {"none", "preparing", "ready", "failed", "closed"}]
    BY <1>1, <1>3 DEF RegistryInv, TypeOK
  <2>2. closed' \in [Runs -> BOOLEAN]
    BY <1>1, <1>2 DEF RegistryInv, TypeOK
  <2> QED
    BY <2>1, <2>2, <1>2, <1>4 DEF RegistryInv, TypeOK, logVars, News
<1>6. HandsFit'
  <2>1. Busy(h)' /\ (h \in Runs => job'[h] \in {h, NoRun})
    BY <1>4, AfterCloseIs DEF Busy
  <2>2. h \in Starters => StarterFits(h)'
    BY <1>1, <1>2, <1>4, AfterCloseIs DEF StarterFits, RegistryInv, TypeOK
  <2>3. ASSUME h \in Users PROVE UserFits(h)'
    <3>1. job[h] \in todo[h] => \A x, y \in todo[h] : x = y
      BY <2>3 DEF RegistryInv, HandsFit, UserFits
    <3>2. /\ next \in {"idle", "closing", "retire", "forget"}
          /\ next = "idle" => todo[h] = {}
          /\ next = "closing" => job[h] \in todo[h]
      BY <2>3, <1>0, AfterCloseIs
    <3>3. job'[h] \notin todo'[h]
      BY <1>2, <1>4, RegistryAssumption DEF RegistryInv, TypeOK
    <3> QED
      BY <1>2, <1>4, <3>1, <3>2, <3>3 DEF UserFits
  <2>4. h \notin Users => OtherFits(h)'
    BY <1>2, <1>4, AfterCloseIs DEF OtherFits, RegistryInv, HandsFit
  <2> QED
    BY <2>1, <2>2, <2>3, <2>4, <1>2, <1>4, OneHandMoves
<1>7. \A x \in Runs : status[x] # "none" => status'[x] # "none"
  BY <1>1, <1>3 DEF RegistryInv, TypeOK
<1>8. KnownAreMade'
  <2>1. \A x \in Runs : Known(x)' => Known(x)
    BY <1>2, <1>4, TurningTellsNothing DEF Known, logVars
  <2> QED
    BY <2>1, <1>7 DEF RegistryInv, KnownAreMade
<1>9. ClosedAreMade'
  <2>1. \A x \in Runs \ {r} : closed'[x] = closed[x]
    BY <1>1, <1>2 DEF RegistryInv, TypeOK
  <2>2. status[r] # "none"
    BY <1>1 DEF RegistryInv, KnownAreMade
  <2>3. \A x \in Runs : closed'[x] => status[x] # "none"
    BY Zenon, <2>1, <2>2 DEF RegistryInv, ClosedAreMade
  <2> QED
    BY <2>3, <1>7 DEF ClosedAreMade
<1> QED
  BY <1>5, <1>6, <1>8, <1>9 DEF RegistryInv

LEMMA RegistryInitially == Init => RegistryInv
<1> SUFFICES ASSUME Init PROVE RegistryInv
  OBVIOUS
<1>1. TypeOK
  BY RegistryAssumption DEF Init, TypeOK, News
<1>2. HandsFit
  BY KindsOfHands DEF Init, HandsFit, Busy, StarterFits, UserFits, OtherFits
<1>3. \A r \in Runs : ~ Known(r) /\ closed[r] = FALSE
  BY KindsOfHands DEF Init, Known, Range
<1>4. KnownAreMade /\ ClosedAreMade
  BY <1>3 DEF KnownAreMade, ClosedAreMade
<1> QED
  BY <1>1, <1>2, <1>4 DEF RegistryInv

LEMMA RegistryStep == RegistryInv /\ [Next]_vars => RegistryInv'
<1> SUFFICES ASSUME RegistryInv, [Next]_vars PROVE RegistryInv'
  OBVIOUS
<1>1. ASSUME NEW h \in Hands, Work(h) \/ SetupProgress(h) PROVE RegistryInv'
  <2>1. CASE Snapshot(h) \/ Put(h) \/ Publish(h) \/ SetupProgress(h)
    BY <2>1, SnapshotKeeps, PutKeeps, PublishKeeps, SetupProgressKeeps
  <2>2. CASE Setup(h) \/ Close(h) \/ Retire(h)
    BY <2>2, SetupKeeps, CloseKeeps, RetireKeeps
  <2>3. CASE ForgetCloses(h) \/ ClearLists(h) \/ Forget(h)
    BY <2>3, ForgetClosesKeeps, ClearListsKeeps, ForgetKeeps
  <2> QED
    BY <1>1, <2>1, <2>2, <2>3 DEF Work
<1>2. ASSUME NEW s \in Starters, Evict(s) \/ WorkOfStarter(s) PROVE RegistryInv'
  <2>1. ASSUME NEW r \in Runs, StartAsync(s, r) \/ Start(s, r) PROVE RegistryInv'
    BY <2>1, StartAsyncKeeps, StartKeeps
  <2>2. CASE Evict(s) \/ MakeFails(s)
    BY <2>2, EvictKeeps, MakeFailsKeeps
  <2>3. CASE Hook(s) \/ Register(s)
    BY <2>3, HookKeeps, RegisterKeeps
  <2> QED
    BY <1>2, <2>1, <2>2, <2>3 DEF WorkOfStarter
<1>3. ASSUME NEW w \in Steppers, NEW r \in Runs, Advance(w, r) PROVE RegistryInv'
  BY <1>3, AdvanceKeeps
<1>4. ASSUME NEW u \in Users, NEW r \in Runs, CloseRun(u, r) \/ ForgetRun(u, r) PROVE RegistryInv'
  BY <1>4, CloseRunKeeps, ForgetRunKeeps
<1>5. ASSUME NEW u \in Users, ClearRuns(u) \/ CloseAll(u) PROVE RegistryInv'
  BY <1>5, ClearRunsKeeps, CloseAllKeeps
<1>6. CASE UNCHANGED vars
  BY <1>6 DEF vars, runVars, logVars, handVars, RegistryInv, TypeOK, HandsFit, Busy, StarterFits,
       UserFits, OtherFits, KnownAreMade, Known, ClosedAreMade
<1> QED
  BY <1>1, <1>2, <1>3, <1>4, <1>5, <1>6 DEF Next

\* Where hands can be and what they hold there (manager.go, history.go).
THEOREM RegistryInvariant == Spec => []RegistryInv
  BY RegistryInitially, RegistryStep, PTL DEF Spec

-----------------------------------------------------------------------------
(***************************************************************************)
(* The cap on resident runs (CapKept).                                     *)
(***************************************************************************)

LEMMA StartersUnderWay ==
  /\ IsFiniteSet(UnderWay) /\ Cardinality(UnderWay) \in Nat /\ Cardinality(Starters) \in Nat
  /\ Cardinality(UnderWay) <= Cardinality(Starters)
<1>1. UnderWay \subseteq Starters
  BY DEF UnderWay
<1> QED
  BY <1>1, FS_Subset, FS_CardinalityType, RegistryAssumption

\* No starter sets out, and the register does not grow.
LEMMA CapUndisturbed ==
  ASSUME CapKept, RegistryInv, UnderWay' = UnderWay, Len(order') <= Len(order), order' \in Seq(Runs)
  PROVE  CapKept'
<1>1. Cardinality(UnderWay') = Cardinality(UnderWay) /\ Len(order') \in Nat /\ Len(order) \in Nat
  BY DEF RegistryInv, TypeOK
<1> QED
  BY <1>1, StartersUnderWay, RegistryAssumption DEF CapKept

\* A starter stops counting as it is done; at most one run comes in its place.
LEMMA StarterDone ==
  ASSUME CapKept, RegistryInv, NEW s \in Starters, s \in UnderWay, UnderWay' = UnderWay \ {s},
         Len(order') <= Len(order) + 1, order' \in Seq(Runs)
  PROVE  CapKept'
<1>1. Cardinality(UnderWay \ {s}) = Cardinality(UnderWay) - 1
  BY StartersUnderWay, FS_RemoveElement
<1>2. Cardinality(UnderWay') = Cardinality(UnderWay) - 1
  BY <1>1
<1>3. Len(order') \in Nat /\ Len(order) \in Nat /\ Cardinality(UnderWay) - 1 \in Nat
  <2>1. Cardinality(UnderWay \ {s}) \in Nat
    BY StartersUnderWay, FS_RemoveElement, FS_CardinalityType
  <2> QED
    BY <1>1, <2>1 DEF RegistryInv, TypeOK
<1> QED
  BY <1>2, <1>3, StartersUnderWay, RegistryAssumption DEF CapKept

\* A starter that sets out has made room, or there was room.
LEMMA StarterSetsOut ==
  ASSUME CapKept, RegistryInv, NEW s \in Starters, Evict(s)
  PROVE  CapKept'
<1>1. /\ s \notin UnderWay /\ s \in Hands /\ UnderWay' = UnderWay \union {s}
  BY KindsOfHands DEF UnderWay, Evict, RegistryInv, TypeOK
<1>2. Cardinality(UnderWay \union {s}) = Cardinality(UnderWay) + 1
  BY <1>1, StartersUnderWay, FS_AddElement
<1>3. Cardinality(UnderWay \union {s}) <= Cardinality(Starters)
  <2>1. UnderWay \union {s} \subseteq Starters
    BY DEF UnderWay
  <2> QED
    BY <2>1, FS_Subset, RegistryAssumption
<1>4. CASE Len(order) >= MaxRuns
  <2>1. order # <<>> /\ order \in Seq(Runs) /\ order' = Tail(order)
    BY <1>4, RegistryAssumption DEF Evict, RegistryInv, TypeOK
  <2>2. Len(order') = Len(order) - 1 /\ order' \in Seq(Runs)
    BY <2>1, ShortenedList
  <2> QED
    BY <2>1, <2>2, <1>1, <1>2, StartersUnderWay, RegistryAssumption DEF CapKept
<1>5. CASE ~ Len(order) >= MaxRuns
  <2>1. order' = order /\ Len(order) \in Nat /\ Len(order) <= MaxRuns - 1
    BY <1>5, RegistryAssumption DEF Evict, RegistryInv, TypeOK
  <2> QED
    BY <2>1, <1>1, <1>2, <1>3, StartersUnderWay, RegistryAssumption DEF CapKept
<1> QED
  BY <1>4, <1>5

LEMMA SameUnderWay ==
  ASSUME NEW h \in Hands, \A s \in Starters \ {h} : pc'[s] = pc[s],
         h \in Starters => pc[h] # "idle" /\ pc'[h] # "idle"
  PROVE  UnderWay' = UnderWay
  BY DEF UnderWay

\* What a hand turns to after a record or a report is not idleness, in a starter.
LEMMA TurningStaysUnderWay ==
  ASSUME RegistryInv, NEW h \in Hands, pc[h] \in {"publish", "put"}, TurnTo(h, then[h]),
         todo' = todo
  PROVE  UnderWay' = UnderWay
<1>1. then[h] \in {"idle", "close", "register", "setup", "hook"}
  BY DEF RegistryInv, TypeOK
<1>2. OnlyMoves(h) /\ pc'[h] = then[h]
  BY <1>1, HandTurns
<1>3. h \in Starters => then[h] # "idle"
  BY DEF RegistryInv, HandsFit, StarterFits
<1>4. \A s \in Starters \ {h} : pc'[s] = pc[s]
  BY <1>2, KindsOfHands DEF OnlyMoves
<1> QED
  BY <1>2, <1>3, <1>4, SameUnderWay

LEMMA WorkKeepsCap ==
  ASSUME RegistryInv, RegistryInv', CapKept, NEW h \in Hands, Work(h) \/ SetupProgress(h)
  PROVE  CapKept'
<1> USE KindsOfHands
<1>1. order' \in Seq(Runs) /\ order \in Seq(Runs)
  BY DEF RegistryInv, TypeOK
<1>2. CASE Snapshot(h) \/ SetupProgress(h) \/ Setup(h)
  <2>1. /\ order' = order /\ pc[h] # "idle"
        /\ \E next \in {"put", "publish"} : pc' = [pc EXCEPT ![h] = next]
    BY <1>2 DEF Snapshot, SetupProgress, Setup
  <2>2. UnderWay' = UnderWay
    BY <2>1, SameUnderWay DEF RegistryInv, TypeOK
  <2> QED
    BY <2>1, <2>2, <1>1, CapUndisturbed
<1>3. CASE Put(h)
  <2>1. UnderWay' = UnderWay /\ order' = order
    BY <1>3, TurningStaysUnderWay DEF Put
  <2> QED
    BY <2>1, <1>1, CapUndisturbed
<1>4. CASE Publish(h)
  <2>1. /\ order' = order /\ pc[h] = "publish" /\ todo' = todo
    BY <1>4 DEF Publish
  <2>2. pc' = [pc EXCEPT ![h] = "snapshot"] \/ TurnTo(h, then[h])
    BY Zenon, <1>4 DEF Publish
  <2>3. UnderWay' = UnderWay
    <3>1. CASE pc' = [pc EXCEPT ![h] = "snapshot"]
      BY <2>1, <3>1, SameUnderWay DEF RegistryInv, TypeOK
    <3>2. CASE TurnTo(h, then[h])
      BY <2>1, <3>2, TurningStaysUnderWay
    <3> QED
      BY <2>2, <3>1, <3>2
  <2> QED
    BY <2>1, <2>3, <1>1, CapUndisturbed
<1>5. CASE Close(h)
  <2>0. PICK next \in AfterClose(h) : TurnTo(h, next)
    BY <1>5 DEF Close
  <2>1. /\ TurnTo(h, next) /\ order' = order /\ pc[h] = "close" /\ todo' = todo
    BY <1>5, <2>0 DEF Close
  <2>2. /\ next \in {"make", "hook", "idle", "forget", "closing", "retire"}
        /\ h \in Starters => next # "idle"
    BY AfterCloseIs
  <2>3. OnlyMoves(h) /\ pc'[h] = next
    BY <2>1, <2>2, HandTurns
  <2>4. UnderWay' = UnderWay
    BY <2>1, <2>2, <2>3, SameUnderWay DEF OnlyMoves
  <2> QED
    BY <2>1, <2>4, <1>1, CapUndisturbed
<1>6. CASE ForgetCloses(h) \/ ClearLists(h) \/ Forget(h) \/ Retire(h)
  <2>1. h \in Users
    BY <1>6, ListsAreUsers DEF ForgetCloses, ClearLists, Forget, Retire
  <2>2. \E next \in {"snapshot", "idle", "forget"} : pc' = [pc EXCEPT ![h] = next]
    BY <1>6 DEF ForgetCloses, Unregister, ClearLists, Forget, Retire
  <2>3. UnderWay' = UnderWay
    BY <2>1, <2>2, SameUnderWay DEF RegistryInv, TypeOK
  <2>4. order' = order \/ \E r \in Runs : order' = Removed(order, r)
    BY <1>6 DEF ForgetCloses, Unregister, ClearLists, Forget, Retire, RegistryInv, TypeOK
  <2>5. Len(order') <= Len(order)
    <3>1. CASE order' = order
      BY <3>1, <1>1
    <3>2. CASE \E r \in Runs : order' = Removed(order, r)
      BY <3>2, <1>1, RemovedFromList
    <3> QED
      BY <2>4, <3>1, <3>2
  <2> QED
    BY <2>3, <2>5, <1>1, CapUndisturbed
<1> QED
  BY <1>2, <1>3, <1>4, <1>5, <1>6 DEF Work

LEMMA StartersKeepCap ==
  ASSUME RegistryInv, RegistryInv', CapKept, NEW s \in Starters, Evict(s) \/ WorkOfStarter(s)
  PROVE  CapKept'
<1> USE KindsOfHands
<1>1. order' \in Seq(Runs) /\ order \in Seq(Runs)
  BY DEF RegistryInv, TypeOK
<1>2. CASE Hook(s) \/ \E r \in Runs : StartAsync(s, r) \/ Start(s, r)
  <2>1. /\ order' = order /\ pc[s] # "idle"
        /\ \E next \in {"snapshot", "setup"} : pc' = [pc EXCEPT ![s] = next]
    BY <1>2 DEF Hook, StartAsync, Start, Make
  <2>2. UnderWay' = UnderWay
    BY <2>1, SameUnderWay DEF RegistryInv, TypeOK
  <2> QED
    BY <2>1, <2>2, <1>1, CapUndisturbed
<1>3. CASE MakeFails(s)
  <2>1. order' = order /\ s \in UnderWay /\ UnderWay' = UnderWay \ {s}
    BY <1>3 DEF MakeFails, UnderWay, RegistryInv, TypeOK
  <2> QED
    BY <2>1, <1>1, StarterDone
<1>4. CASE Register(s)
  <2>1. mine[s] \in Runs
    BY <1>4 DEF Register, RegistryInv, HandsFit, StarterFits
  <2>2. Len(order') = Len(order) + 1
    BY <1>1, <1>4, <2>1, AppendedList DEF Register
  <2>3. \/ pc' = [pc EXCEPT ![s] = "idle", ![mine[s]] = "setup"]
        \/ pc' = [pc EXCEPT ![s] = "idle"]
    BY <1>4 DEF Register
  <2>4. s \in UnderWay /\ UnderWay' = UnderWay \ {s}
    BY <1>4, <2>1, <2>3 DEF Register, UnderWay, RegistryInv, TypeOK
  <2> QED
    BY <2>2, <2>4, <1>1, StarterDone
<1>5. CASE Evict(s)
  BY <1>5, StarterSetsOut
<1> QED
  BY <1>2, <1>3, <1>4, <1>5 DEF WorkOfStarter

LEMMA OthersKeepCap ==
  ASSUME RegistryInv, RegistryInv', CapKept, NEW h \in Users \union Steppers,
         \/ h \in Steppers /\ \E r \in Runs : Advance(h, r)
         \/ h \in Users /\ \E r \in Runs : CloseRun(h, r) \/ ForgetRun(h, r)
         \/ h \in Users /\ (ClearRuns(h) \/ CloseAll(h))
  PROVE  CapKept'
<1>1. order' \in Seq(Runs) /\ order \in Seq(Runs)
  BY DEF RegistryInv, TypeOK
<1>2. h \in Hands /\ h \notin Starters
  BY RegistryAssumption DEF Hands
<1>3. \E next \in {"publish", "snapshot", "closing", "forget", "list", "retire"} :
        pc' = [pc EXCEPT ![h] = next]
  BY DEF Advance, CloseRun, Unregister, ForgetRun, ClearRuns, CloseAll
<1>4. UnderWay' = UnderWay
  BY <1>2, <1>3, SameUnderWay, KindsOfHands DEF RegistryInv, TypeOK
<1>5. order' = order \/ order' = <<>> \/ \E r \in Runs : order' = Removed(order, r)
  BY DEF Advance, CloseRun, Unregister, ForgetRun, ClearRuns, CloseAll
<1>6. Len(order') <= Len(order)
  BY <1>1, <1>5, RemovedFromList
<1> QED
  BY <1>1, <1>4, <1>6, CapUndisturbed

\* Registered runs and starts under way together exceed the cap by less than the
\* number of starters (Manager.evictIfNeeded makes room in one critical section
\* and Manager.Start or StartAsync takes it in another).
THEOREM CapIsKept == Spec => []CapKept
<1>1. Init => CapKept
  <2> SUFFICES ASSUME Init PROVE CapKept
    OBVIOUS
  <2>1. UnderWay = {} /\ Len(order) = 0
    BY KindsOfHands DEF Init, UnderWay
  <2> QED
    BY <2>1, FS_EmptySet, StartersUnderWay, RegistryAssumption DEF CapKept
<1>2. RegistryInv /\ RegistryInv' /\ CapKept /\ [Next]_vars => CapKept'
  <2> SUFFICES ASSUME RegistryInv, RegistryInv', CapKept, [Next]_vars PROVE CapKept'
    OBVIOUS
  <2>1. CASE UNCHANGED vars
    <3>1. UnderWay' = UnderWay /\ order' = order
      BY <2>1 DEF vars, handVars, UnderWay
    <3> QED
      BY <3>1, CapUndisturbed DEF RegistryInv, TypeOK
  <2> QED
    BY <2>1, WorkKeepsCap, StartersKeepCap, OthersKeepCap DEF Next
<1> QED
  BY <1>1, <1>2, RegistryInvariant, PTL DEF Spec

-----------------------------------------------------------------------------
(***************************************************************************)
(* No open run is dropped (NothingDropped).                                *)
(***************************************************************************)

Open(r) == status[r] # "none" /\ ~ closed[r]

Kept(r) ==
  \/ r \in Range(order)
  \/ \E s \in Starters : mine[s] = r
  \/ \E h \in Hands : Closing(h, r)

LEMMA DroppedMeansNotKept == NothingDropped <=> \A r \in Runs : Open(r) => Kept(r)
  BY Zenon DEF NothingDropped, Open, Kept

\* A step of one hand that lets go of no run, but into another's keeping.
LEMMA HandDropsNothing ==
  ASSUME NothingDropped, NEW h \in Hands, OnlyMoves(h),
         \A r \in Runs : Open(r)' => Open(r) \/ \E s \in Starters : mine'[s] = r,
         \A r \in Range(order) : r \in Range(order') \/ Closing(h, r)',
         \A s \in Starters : mine'[s] = mine[s] \/ mine[s] = NoRun \/ mine[s] \in Range(order'),
         \A r \in Runs : Closing(h, r) => Closing(h, r)' \/ ~ Open(r)'
  PROVE  NothingDropped'
<1> SUFFICES ASSUME NEW r \in Runs, Open(r)', ~ \E s \in Starters : mine'[s] = r
             PROVE  r \in Range(order') \/ \E g \in Hands : Closing(g, r)'
  BY DroppedMeansNotKept, Zenon DEF NothingDropped, Open
<1>1. Open(r)
  OBVIOUS
<1>2. Kept(r)
  BY <1>1, DroppedMeansNotKept
<1>3. CASE r \in Range(order)
  BY <1>3
<1>4. ASSUME NEW s \in Starters, mine[s] = r PROVE r \in Range(order')
  BY <1>4, KindsOfHands
<1>5. ASSUME NEW g \in Hands, Closing(g, r) PROVE Closing(g, r)'
  <2>1. CASE g = h
    BY <2>1, <1>5
  <2>2. CASE g # h
    BY <2>2, <1>5 DEF Closing, OnlyMoves
  <2> QED
    BY <2>1, <2>2
<1> QED
  BY <1>2, <1>3, <1>4, <1>5 DEF Kept

LEMMA NoneOpened ==
  ASSUME closed' = closed, \A r \in Runs : status'[r] # "none" => status[r] # "none"
  PROVE  \A r \in Runs : Open(r)' => Open(r)
  BY Zenon DEF Open

\* A hand that is not about to close anything has nothing to let go of.
LEMMA ClosingWhere ==
  ASSUME NEW h, NEW r, Closing(h, r)
  PROVE  pc[h] \in {"snapshot", "put", "close", "retire"}
  BY DEF Closing

LEMMA TurningDropsNothing ==
  ASSUME RegistryInv, NothingDropped, NEW h \in Hands, pc[h] \in {"publish", "put"},
         TurnTo(h, then[h]), UNCHANGED <<order, runVars, mine, todo>>
  PROVE  NothingDropped'
<1>1. then[h] \in {"idle", "close", "register", "setup", "hook"}
  BY DEF RegistryInv, TypeOK
<1>2. /\ OnlyMoves(h) /\ pc'[h] = then[h]
      /\ then[h] = "close" => job'[h] = job[h]
  BY <1>1, HandTurns
<1>3. h \in Users /\ pc[h] = "put" => then[h] = "close"
  BY DEF RegistryInv, HandsFit, UserFits
<1>4. h \notin Users => todo[h] = {}
  BY DEF RegistryInv, HandsFit, OtherFits
<1>5. \A r \in Runs : Closing(h, r) => Closing(h, r)'
  BY <1>2, <1>3, <1>4 DEF Closing
<1>6. \A r \in Runs : Open(r)' => Open(r)
  BY NoneOpened DEF runVars
<1> QED
  BY <1>2, <1>5, <1>6, HandDropsNothing

LEMMA SnapshotDropsNothing ==
  ASSUME RegistryInv, NothingDropped, NEW h \in Hands, Snapshot(h)
  PROVE  NothingDropped'
<1>1. pc[h] = "snapshot" /\ pc' = [pc EXCEPT ![h] = "put"]
      /\ UNCHANGED <<order, runVars, job, mine, then, todo>>
  BY DEF Snapshot
<1>2. OnlyMoves(h) /\ pc'[h] = "put"
  BY <1>1 DEF RegistryInv, TypeOK, OnlyMoves
<1>3. \A r \in Runs : Closing(h, r) => Closing(h, r)'
  BY <1>1, <1>2 DEF Closing
<1>4. \A r \in Runs : Open(r)' => Open(r)
  BY <1>1, NoneOpened DEF runVars
<1> QED
  BY <1>1, <1>2, <1>3, <1>4, HandDropsNothing

LEMMA SetupDropsNothing ==
  ASSUME RegistryInv, NothingDropped, NEW h \in Hands, Setup(h) \/ SetupProgress(h)
  PROVE  NothingDropped'
<1>1. /\ pc[h] = "setup" /\ pc' = [pc EXCEPT ![h] = "publish"]
      /\ \E next \in {"setup", "hook", "idle", "close"} : then' = [then EXCEPT ![h] = next]
      /\ UNCHANGED <<order, closed, job, mine, todo>>
  BY DEF Setup, SetupProgress
<1>2. OnlyMoves(h)
  BY <1>1 DEF RegistryInv, TypeOK, OnlyMoves
<1>3. \A r \in Runs : ~ Closing(h, r)
  BY <1>1, ClosingWhere
<1>4. job[h] \in Runs /\ status[job[h]] # "none"
  BY <1>1 DEF RegistryInv, HandsFit, Busy, KnownAreMade, Known
<1>5. \A r \in Runs : status'[r] # "none" => status[r] # "none"
  BY <1>4 DEF Setup, SetupProgress, RegistryInv, TypeOK
<1>6. \A r \in Runs : Open(r)' => Open(r)
  BY <1>1, <1>5, NoneOpened
<1> QED
  BY <1>1, <1>2, <1>3, <1>6, HandDropsNothing

LEMMA CloseDropsNothing ==
  ASSUME RegistryInv, NothingDropped, NEW h \in Hands, Close(h)
  PROVE  NothingDropped'
<1>1. PICK r \in Runs : r = job[h]
  BY DEF RegistryInv, HandsFit, Busy, Close
<1>0. PICK next \in AfterClose(h) : TurnTo(h, next)
  BY DEF Close
<1>2. /\ pc[h] = "close" /\ TurnTo(h, next) /\ closed' = [closed EXCEPT ![r] = TRUE]
      /\ UNCHANGED <<order, mine, todo>>
      /\ \E new : status' = [status EXCEPT ![r] = new]
  BY Zenon, <1>0, <1>1 DEF Close
<1>3. OnlyMoves(h) /\ pc'[h] = next
  <2>1. next \in {"make", "hook", "idle", "forget", "closing", "retire"}
    BY AfterCloseIs
  <2> QED
    BY <1>2, <2>1, HandTurns
<1>4. \A x \in Runs \ {r} : status'[x] = status[x] /\ closed'[x] = closed[x]
  BY <1>2, <1>1 DEF RegistryInv, TypeOK
<1>5. ~ Open(r)'
  <2>1. closed'[r] = TRUE
    BY <1>1, <1>2 DEF RegistryInv, TypeOK
  <2> QED
    BY <2>1 DEF Open
<1>6. \A x \in Runs : Open(x)' => Open(x)
  BY Zenon, <1>4, <1>5 DEF Open
<1>7. \A x \in Runs : Closing(h, x) => Closing(h, x)' \/ ~ Open(x)'
  <2> SUFFICES ASSUME NEW x \in Runs, Closing(h, x), x # r PROVE Closing(h, x)'
    BY <1>5
  <2>1. x \in todo[h]
    BY <1>1, <1>2 DEF Closing
  <2>2. h \in Users
    BY <2>1 DEF RegistryInv, HandsFit, OtherFits
  <2>3. r \notin todo[h]
    BY <1>1, <2>1, <2>2 DEF RegistryInv, HandsFit, UserFits
  <2>4. next = "retire"
    BY <1>1, <2>1, <2>2, <2>3, AfterCloseIs
  <2> QED
    BY <2>1, <2>4, <1>2, <1>3 DEF Closing
<1> QED
  BY <1>2, <1>3, <1>6, <1>7, HandDropsNothing

LEMMA ListDropsNothing ==
  ASSUME RegistryInv, NothingDropped, NEW h \in Hands,
         ForgetCloses(h) \/ ClearLists(h) \/ Forget(h) \/ Retire(h)
  PROVE  NothingDropped'
<1>1. UNCHANGED <<runVars, mine>>
  BY DEF ForgetCloses, ClearLists, Forget, Retire
<1>2. \A r \in Runs : Open(r)' => Open(r)
  BY <1>1, NoneOpened DEF runVars
<1>3. CASE ForgetCloses(h)
  <2>1. PICK r \in todo[h] :
          \/ r \in Range(order) /\ Unregister(h, r) /\ UNCHANGED todo
          \/ /\ pc' = [pc EXCEPT ![h] = "idle"]
             /\ todo' = [todo EXCEPT ![h] = {}]
             /\ UNCHANGED <<order, job, then>>
    BY <1>3 DEF ForgetCloses
  <2>2. \A x \in Runs : ~ Closing(h, x)
    BY <1>3, ClosingWhere DEF ForgetCloses
  <2>3. OnlyMoves(h)
    BY <2>1 DEF OnlyMoves, Unregister, RegistryInv, TypeOK
  <2>4. \A x \in Range(order) : x \in Range(order') \/ Closing(h, x)'
    <3>1. CASE order' = order
      BY <3>1
    <3>2. CASE Unregister(h, r)
      <4>1. Range(order) \subseteq Range(order') \union {r}
        BY <3>2, RemovedFromList DEF Unregister, RegistryInv, TypeOK
      <4>2. Closing(h, r)'
        BY <3>2 DEF Unregister, Closing, RegistryInv, TypeOK
      <4> QED
        BY <4>1, <4>2
    <3> QED
      BY <2>1, <3>1, <3>2
  <2> QED
    BY <1>1, <1>2, <2>2, <2>3, <2>4, HandDropsNothing
<1>4. CASE ClearLists(h) \/ Forget(h)
  <2>1. \A x \in Runs : ~ Closing(h, x)
    BY <1>4, ClosingWhere DEF ClearLists, Forget
  <2>2. OnlyMoves(h) /\ order' = order
    BY <1>4 DEF OnlyMoves, ClearLists, Forget, RegistryInv, TypeOK
  <2> QED
    BY <1>1, <1>2, <2>1, <2>2, HandDropsNothing
<1>5. CASE Retire(h)
  <2>1. PICK r \in todo[h] :
          job' = [job EXCEPT ![h] = r] /\ todo' = [todo EXCEPT ![h] = @ \ {r}]
    BY <1>5 DEF Retire
  <2>2. /\ pc[h] = "retire" /\ pc' = [pc EXCEPT ![h] = "snapshot"]
        /\ then' = [then EXCEPT ![h] = "close"] /\ order' = order
    BY <1>5 DEF Retire
  <2>3. OnlyMoves(h)
    BY <2>1, <2>2 DEF OnlyMoves, RegistryInv, TypeOK
  <2>4. \A x \in Runs : Closing(h, x) => Closing(h, x)'
    BY <2>1, <2>2 DEF Closing, RegistryInv, TypeOK
  <2> QED
    BY <1>1, <1>2, <2>2, <2>3, <2>4, HandDropsNothing
<1> QED
  BY <1>3, <1>4, <1>5

LEMMA StartersDropNothing ==
  ASSUME RegistryInv, NothingDropped, NEW s \in Starters, Evict(s) \/ WorkOfStarter(s)
  PROVE  NothingDropped'
<1>1. s \in Hands
  BY KindsOfHands
<1>2. CASE Evict(s)
  <2>1. /\ pc[s] = "idle" /\ UNCHANGED <<runVars, mine, todo>>
    BY <1>2 DEF Evict
  <2>2. \A r \in Runs : Open(r)' => Open(r)
    BY <2>1, NoneOpened DEF runVars
  <2>3. \A r \in Runs : ~ Closing(s, r)
    BY <2>1, ClosingWhere
  <2>4. OnlyMoves(s)
    BY <1>2, <2>1 DEF Evict, OnlyMoves, RegistryInv, TypeOK
  <2>5. \A r \in Range(order) : r \in Range(order') \/ Closing(s, r)'
    <3>1. CASE Len(order) >= MaxRuns
      <4>1. order # <<>> /\ order \in Seq(Runs) /\ order' = Tail(order)
        BY <1>2, <3>1, RegistryAssumption DEF Evict, RegistryInv, TypeOK
      <4>2. PICK oldest : oldest = Head(order)
        OBVIOUS
      <4>3. Range(order) = Range(order') \union {oldest}
        BY <4>1, <4>2, ShortenedList
      <4>4. Closing(s, oldest)'
        <5>1. job'[s] = oldest /\ then'[s] = "close" /\ pc'[s] = "snapshot"
          BY <1>1, <1>2, <3>1, <4>2 DEF Evict, RegistryInv, TypeOK
        <5> QED
          BY <5>1 DEF Closing
      <4> QED
        BY <4>3, <4>4
    <3>2. CASE ~ Len(order) >= MaxRuns
      BY <1>2, <3>2 DEF Evict
    <3> QED
      BY <3>1, <3>2
  <2> QED
    BY <1>1, <2>1, <2>2, <2>3, <2>4, <2>5, HandDropsNothing
<1>3. ASSUME NEW r \in Runs, StartAsync(s, r) \/ Start(s, r) PROVE NothingDropped'
  <2>1. /\ pc[s] = "make" /\ status' = [status EXCEPT ![r] = "preparing"]
        /\ mine' = [mine EXCEPT ![s] = r] /\ UNCHANGED <<order, closed, todo>>
    BY <1>3 DEF StartAsync, Start, Make
  <2>2. OnlyMoves(s)
    BY <1>3 DEF StartAsync, Start, Make, OnlyMoves, RegistryInv, TypeOK
  <2>3. mine[s] = NoRun /\ mine'[s] = r
    BY <2>1 DEF RegistryInv, HandsFit, StarterFits, TypeOK
  <2>4. \A x \in Runs \ {r} : status'[x] = status[x] /\ closed'[x] = closed[x]
    BY <2>1 DEF RegistryInv, TypeOK
  <2>5. \A x \in Runs : Open(x)' => Open(x) \/ \E t \in Starters : mine'[t] = x
    <3> SUFFICES ASSUME NEW x \in Runs, x # r PROVE Open(x)' => Open(x)
      BY <2>3
    <3> QED
      BY Zenon, <2>4 DEF Open
  <2>6. \A x \in Runs : ~ Closing(s, x)
    BY <2>1, ClosingWhere
  <2>7. \A t \in Starters : mine'[t] = mine[t] \/ mine[t] = NoRun
    BY <2>1, <2>3 DEF RegistryInv, TypeOK
  <2> QED
    BY <1>1, <2>1, <2>2, <2>5, <2>6, <2>7, HandDropsNothing
<1>4. CASE MakeFails(s) \/ Hook(s)
  <2>1. /\ pc[s] \in {"make", "hook"} /\ UNCHANGED <<order, status, closed, mine, todo>>
    BY <1>4 DEF MakeFails, Hook, runVars
  <2>2. OnlyMoves(s)
    BY <1>4 DEF MakeFails, Hook, OnlyMoves, RegistryInv, TypeOK
  <2>3. \A r \in Runs : ~ Closing(s, r)
    BY <2>1, ClosingWhere
  <2>4. \A r \in Runs : Open(r)' => Open(r)
    BY <2>1, NoneOpened
  <2> QED
    BY <1>1, <2>1, <2>2, <2>3, <2>4, HandDropsNothing
<1>5. CASE Register(s)
  <2>1. PICK r \in Runs : r = mine[s]
    BY <1>5 DEF Register, RegistryInv, HandsFit, StarterFits
  <2>2. /\ pc[s] = "register" /\ order' = Append(order, r) /\ mine' = [mine EXCEPT ![s] = NoRun]
        /\ UNCHANGED <<runVars, then, todo>>
        /\ \/ pc' = [pc EXCEPT ![s] = "idle", ![r] = "setup"] /\ job' = [job EXCEPT ![r] = r]
           \/ pc' = [pc EXCEPT ![s] = "idle"] /\ job' = job
    BY <1>5, <2>1 DEF Register
  <2>3. Range(order') = Range(order) \union {r}
    BY <2>2, AppendedList DEF RegistryInv, TypeOK
  <2>4. ASSUME NEW x \in Runs, Open(x)', x # r PROVE Kept(x)'
    <3>1. Kept(x)
      <4>1. Open(x)
        BY <2>2, <2>4, NoneOpened DEF runVars
      <4> QED
        BY <4>1, DroppedMeansNotKept
    <3>2. CASE x \in Range(order)
      BY <3>2, <2>3 DEF Kept
    <3>3. ASSUME NEW t \in Starters, mine[t] = x PROVE mine'[t] = x
      BY <3>3, <2>1, <2>2, <2>4 DEF RegistryInv, TypeOK
    <3>4. ASSUME NEW h \in Hands, Closing(h, x) PROVE Closing(h, x)'
      <4>1. h # s
        BY <3>4, <2>2, ClosingWhere
      <4>2. h # r
        <5>1. job[r] \in {r, NoRun} /\ todo[r] = {}
          BY KindsOfHands DEF RegistryInv, HandsFit, OtherFits
        <5> QED
          BY <5>1, <3>4, <2>4, KindsOfHands DEF Closing
      <4>3. pc'[h] = pc[h] /\ job'[h] = job[h] /\ then'[h] = then[h] /\ todo'[h] = todo[h]
        BY <4>1, <4>2, <2>2 DEF RegistryInv, TypeOK
      <4> QED
        BY <4>3, <3>4 DEF Closing
    <3> QED
      BY <3>1, <3>2, <3>3, <3>4 DEF Kept
  <2>5. Kept(r)'
    BY <2>3 DEF Kept
  <2>6. \A x \in Runs : Open(x)' => Kept(x)'
    BY <2>4, <2>5
  <2> QED
    BY <2>6, Zenon DEF NothingDropped, Open, Kept
<1> QED
  BY <1>2, <1>3, <1>4, <1>5 DEF WorkOfStarter

LEMMA OthersDropNothing ==
  ASSUME RegistryInv, NothingDropped, NEW h \in Users \union Steppers,
         \/ h \in Steppers /\ \E r \in Runs : Advance(h, r)
         \/ h \in Users /\ \E r \in Runs : CloseRun(h, r) \/ ForgetRun(h, r)
         \/ h \in Users /\ (ClearRuns(h) \/ CloseAll(h))
  PROVE  NothingDropped'
<1>1. h \in Hands
  BY KindsOfHands
<1>2. pc[h] = "idle" /\ UNCHANGED <<status, closed, mine>>
  BY DEF Advance, CloseRun, ForgetRun, ClearRuns, CloseAll, runVars
<1>3. \A r \in Runs : ~ Closing(h, r)
  BY <1>2, ClosingWhere
<1>4. \A r \in Runs : Open(r)' => Open(r)
  BY <1>2, NoneOpened
<1>5. OnlyMoves(h)
  BY DEF Advance, CloseRun, Unregister, ForgetRun, ClearRuns, CloseAll, OnlyMoves, RegistryInv, TypeOK
<1>6. \A r \in Range(order) : r \in Range(order') \/ Closing(h, r)'
  <2>1. CASE order' = order
    BY <2>1
  <2>2. ASSUME NEW r \in Runs, CloseRun(h, r)
               PROVE  \A x \in Range(order) : x \in Range(order') \/ Closing(h, x)'
    <3>1. Range(order) \subseteq Range(order') \union {r}
      BY <2>2, RemovedFromList DEF CloseRun, Unregister, RegistryInv, TypeOK
    <3>2. Closing(h, r)'
      BY <1>1, <2>2 DEF CloseRun, Unregister, Closing, RegistryInv, TypeOK
    <3> QED
      BY <3>1, <3>2
  <2>3. CASE CloseAll(h)
    <3>1. todo'[h] = Range(order) /\ pc'[h] = "retire"
      BY <1>1, <2>3 DEF CloseAll, RegistryInv, TypeOK
    <3> QED
      BY <3>1 DEF Closing
  <2> QED
    BY <2>1, <2>2, <2>3 DEF Advance, ForgetRun, ClearRuns
<1> QED
  BY <1>1, <1>2, <1>3, <1>4, <1>5, <1>6, HandDropsNothing

\* An open run is in the register, with the starter that made it, or with a hand
\* that is about to close it: what Manager.Start, StartAsync, CloseRun and
\* CloseAll hand to each other outside the manager's lock is never lost.
THEOREM NothingIsDropped == Spec => []NothingDropped
<1>1. Init => NothingDropped
  BY DEF Init, NothingDropped
<1>2. RegistryInv /\ NothingDropped /\ [Next]_vars => NothingDropped'
  <2> SUFFICES ASSUME RegistryInv, NothingDropped, [Next]_vars PROVE NothingDropped'
    OBVIOUS
  <2>1. ASSUME NEW h \in Hands, Work(h) \/ SetupProgress(h) PROVE NothingDropped'
    <3>1. CASE Put(h)
      BY <3>1, TurningDropsNothing DEF Put
    <3>2. CASE Publish(h)
      <4>1. pc[h] = "publish" /\ UNCHANGED <<order, runVars, mine, todo>>
        BY <3>2 DEF Publish
      <4>2. \/ pc' = [pc EXCEPT ![h] = "snapshot"] /\ UNCHANGED <<job, then>>
            \/ TurnTo(h, then[h])
        BY Zenon, <3>2 DEF Publish
      <4>3. CASE pc' = [pc EXCEPT ![h] = "snapshot"] /\ UNCHANGED <<job, then>>
        <5>1. OnlyMoves(h)
          BY <4>1, <4>3 DEF OnlyMoves, RegistryInv, TypeOK
        <5>2. \A r \in Runs : ~ Closing(h, r)
          BY <4>1, ClosingWhere
        <5>3. \A r \in Runs : Open(r)' => Open(r)
          BY <4>1, NoneOpened DEF runVars
        <5> QED
          BY <4>1, <5>1, <5>2, <5>3, HandDropsNothing
      <4>4. CASE TurnTo(h, then[h])
        BY <4>1, <4>4, TurningDropsNothing
      <4> QED
        BY <4>2, <4>3, <4>4
    <3> QED
      BY <2>1, <3>1, <3>2, SnapshotDropsNothing, SetupDropsNothing, CloseDropsNothing,
         ListDropsNothing DEF Work
  <2>2. CASE UNCHANGED vars
    BY <2>2, Zenon DEF vars, runVars, handVars, NothingDropped, Closing
  <2> QED
    BY <2>1, <2>2, StartersDropNothing, OthersDropNothing DEF Next
<1> QED
  BY <1>1, <1>2, RegistryInvariant, PTL DEF Spec

-----------------------------------------------------------------------------
(***************************************************************************)
(* What is forgotten stays forgotten (ForgottenStaysForgotten).            *)
(***************************************************************************)

\* h writes a record of r, or has r on the list of what to write.
WritesNow(h, r) == job[h] = r /\ pc[h] \in {"snapshot", "put"}
WritesLater(h, r) ==
  job[h] # r /\ r \in todo[h] /\ pc[h] \in {"retire", "snapshot", "put", "close"}

LEMMA WritingIs ==
  ASSUME NEW h \in Hands, NEW r
  PROVE  Writing(h, r) <=> WritesNow(h, r) \/ WritesLater(h, r) \/ (h \in Starters /\ mine[h] = r)
  BY DEF Writing, WritesNow, WritesLater, Closing

\* What is known of a run that is gone.
LEMMA GoneMeans ==
  ASSUME RegistryInv, NEW r \in Runs, Gone(r)
  PROVE  /\ status[r] # "none" /\ closed[r]
         /\ r \notin Range(order) /\ r \notin Range(logged)
         /\ \A h \in Hands : ~ WritesNow(h, r) /\ ~ WritesLater(h, r)
         /\ \A s \in Starters : mine[s] # r
<1>1. closed[r] /\ r \notin Range(order) /\ r \notin Range(logged) /\ \A h \in Hands : ~ Writing(h, r)
  BY Zenon DEF Gone, Logged
<1>2. status[r] # "none"
  BY <1>1, Zenon DEF RegistryInv, ClosedAreMade
<1>3. \A h \in Hands : ~ WritesNow(h, r) /\ ~ WritesLater(h, r)
  BY <1>1, WritingIs
<1>4. \A s \in Starters : mine[s] # r
  BY <1>1, WritingIs, KindsOfHands
<1> QED
  BY <1>1, <1>2, <1>3, <1>4

\* A step of one hand, after which it writes nothing of r.
LEMMA HandLeavesGone ==
  ASSUME RegistryInv, NEW r \in Runs, Gone(r), NEW h \in Hands, OnlyMoves(h), closed'[r],
         r \notin Range(order'), r \notin Range(logged'),
         \A s \in Starters : mine'[s] # r,
         ~ WritesNow(h, r)', ~ WritesLater(h, r)'
  PROVE  Gone(r)'
<1>1. ASSUME NEW g \in Hands PROVE ~ WritesNow(g, r)' /\ ~ WritesLater(g, r)'
  <2>1. CASE g = h
    BY <2>1
  <2>2. CASE g # h
    BY <2>2, GoneMeans DEF OnlyMoves, WritesNow, WritesLater
  <2> QED
    BY <2>1, <2>2
<1>2. ASSUME NEW g \in Hands PROVE ~ Writing(g, r)'
  BY <1>1 DEF Writing, WritesNow, WritesLater, Closing
<1> QED
  BY <1>2, Zenon DEF Gone, Logged

LEMMA TurningLeavesGone ==
  ASSUME RegistryInv, NEW r \in Runs, Gone(r), NEW h \in Hands, NEW next,
         next \in {"idle", "make", "setup", "hook", "register", "retire", "close", "closing", "forget"},
         TurnTo(h, next), UNCHANGED <<order, mine, todo>>, closed'[r], r \notin Range(logged'),
         next = "close" => pc[h] \in {"put", "publish"},
         next = "retire" => pc[h] = "close" /\ job[h] \notin todo[h],
         pc[h] = "publish" => todo[h] = {}
  PROVE  Gone(r)'
<1>1. /\ OnlyMoves(h) /\ pc'[h] = next
      /\ job'[h] = (IF next \in {"close", "setup"} THEN job[h] ELSE NoRun)
  BY HandTurns
<1>2. ~ WritesNow(h, r)'
  BY <1>1 DEF WritesNow
<1>3. ~ WritesLater(h, r)'
  <2>1. CASE next = "close"
    <3>1. r \in todo[h] => job[h] = r /\ pc[h] = "put"
      BY <2>1, GoneMeans DEF WritesLater
    <3>2. r \notin todo[h]
      BY <3>1, GoneMeans DEF WritesNow
    <3> QED
      BY <3>2 DEF WritesLater
  <2>2. CASE next = "retire"
    <3>1. r \notin todo[h]
      BY <2>2, GoneMeans DEF WritesLater
    <3> QED
      BY <3>1 DEF WritesLater
  <2>3. CASE next \notin {"close", "retire"}
    BY <2>3, <1>1 DEF WritesLater
  <2> QED
    BY <2>1, <2>2, <2>3
<1> QED
  BY <1>1, <1>2, <1>3, GoneMeans, HandLeavesGone

LEMMA WorkLeavesGone ==
  ASSUME RegistryInv, NEW r \in Runs, Gone(r), NEW h \in Hands, Work(h) \/ SetupProgress(h)
  PROVE  Gone(r)'
<1>1. CASE Snapshot(h)
  <2>1. /\ pc[h] = "snapshot" /\ pc' = [pc EXCEPT ![h] = "put"]
        /\ UNCHANGED <<order, closed, logged, job, mine, then, todo>>
    BY <1>1 DEF Snapshot, runVars, logVars
  <2>2. OnlyMoves(h) /\ ~ WritesNow(h, r) /\ ~ WritesLater(h, r)
    BY <2>1, GoneMeans DEF OnlyMoves, RegistryInv, TypeOK
  <2>3. ~ WritesNow(h, r)' /\ ~ WritesLater(h, r)'
    BY <2>1, <2>2 DEF WritesNow, WritesLater
  <2> QED
    BY <2>1, <2>2, <2>3, GoneMeans, HandLeavesGone
<1>2. CASE Put(h)
  <2>1. /\ pc[h] = "put" /\ TurnTo(h, then[h]) /\ UNCHANGED <<order, closed, mine, todo>>
    BY <1>2 DEF Put, runVars
  <2>2. job[h] \in Runs /\ job[h] # r
    BY <2>1, GoneMeans DEF WritesNow, RegistryInv, HandsFit, Busy
  <2>3. r \notin Range(logged')
    <3> DEFINE grown == IF job[h] \in Logged THEN logged ELSE Append(logged, job[h])
    <3>1. grown \in Seq(Runs) /\ Range(grown) \subseteq Range(logged) \union {job[h]}
      BY <2>2, AppendedList DEF RegistryInv, TypeOK, Logged
    <3> HIDE DEF grown
    <3>2. logged' = grown \/ (logged' = Tail(grown) /\ Len(grown) > HistoryLimit)
      BY <1>2, Zenon DEF Put, grown
    <3>3. CASE logged' = Tail(grown) /\ Len(grown) > HistoryLimit
      <4>1. grown # <<>>
        BY <3>3, RegistryAssumption
      <4>2. Range(Tail(grown)) \subseteq Range(grown)
        BY <4>1, <3>1, ShortenedList
      <4> QED
        BY <3>1, <3>3, <4>2, <2>2, GoneMeans
    <3> QED
      BY <3>1, <3>2, <3>3, <2>2, GoneMeans
  <2>4. then[h] \in {"idle", "close", "register", "setup", "hook"}
    BY DEF RegistryInv, TypeOK
  <2> QED
    BY <2>1, <2>3, <2>4, GoneMeans, TurningLeavesGone
<1>3. CASE Publish(h)
  <2>1. /\ pc[h] = "publish" /\ UNCHANGED <<order, closed, logged, mine, todo>>
    BY <1>3 DEF Publish, runVars, logVars
  <2>2. \/ pc' = [pc EXCEPT ![h] = "snapshot"] /\ UNCHANGED <<job, then>> /\ ~ closed[job[h]]
        \/ TurnTo(h, then[h])
    BY Zenon, <1>3 DEF Publish
  <2>3. todo[h] = {}
    <3>1. h \notin Users
      BY <2>1 DEF RegistryInv, HandsFit, UserFits
    <3> QED
      BY <3>1 DEF RegistryInv, HandsFit, OtherFits
  <2>4. CASE pc' = [pc EXCEPT ![h] = "snapshot"] /\ UNCHANGED <<job, then>> /\ ~ closed[job[h]]
    <3>1. OnlyMoves(h)
      BY <2>1, <2>4 DEF OnlyMoves, RegistryInv, TypeOK
    <3>2. job[h] # r
      BY <2>4, GoneMeans
    <3>3. ~ WritesNow(h, r)' /\ ~ WritesLater(h, r)'
      BY <2>1, <2>3, <2>4, <3>2 DEF WritesNow, WritesLater
    <3> QED
      BY <2>1, <3>1, <3>3, GoneMeans, HandLeavesGone
  <2>5. CASE TurnTo(h, then[h])
    <3>1. then[h] \in {"idle", "close", "register", "setup", "hook"}
      BY DEF RegistryInv, TypeOK
    <3> QED
      BY <2>1, <2>3, <2>5, <3>1, GoneMeans, TurningLeavesGone
  <2> QED
    BY <2>2, <2>4, <2>5
<1>4. CASE Setup(h) \/ SetupProgress(h)
  <2>1. /\ pc[h] = "setup" /\ pc' = [pc EXCEPT ![h] = "publish"]
        /\ \E next : then' = [then EXCEPT ![h] = next]
        /\ UNCHANGED <<order, closed, logged, job, mine, todo>>
    BY <1>4 DEF Setup, SetupProgress, logVars
  <2>2. OnlyMoves(h) /\ pc'[h] = "publish"
    BY <2>1 DEF OnlyMoves, RegistryInv, TypeOK
  <2>3. ~ WritesNow(h, r)' /\ ~ WritesLater(h, r)'
    BY <2>2 DEF WritesNow, WritesLater
  <2> QED
    BY <2>1, <2>2, <2>3, GoneMeans, HandLeavesGone
<1>5. CASE Close(h)
  <2>0. PICK next \in AfterClose(h) : TurnTo(h, next)
    BY <1>5 DEF Close
  <2>1. /\ pc[h] = "close" /\ TurnTo(h, next)
        /\ closed' = [closed EXCEPT ![job[h]] = TRUE]
        /\ UNCHANGED <<order, logged, mine, todo>>
    BY <1>5, <2>0 DEF Close, logVars
  <2>2. closed'[r]
    <3>1. closed'[r] = TRUE \/ closed'[r] = closed[r]
      BY <2>1 DEF RegistryInv, TypeOK
    <3> QED
      BY <3>1, GoneMeans
  <2>3. /\ next \in {"make", "hook", "idle", "forget", "closing", "retire"}
        /\ next = "retire" => job[h] \notin todo[h]
    BY AfterCloseIs
  <2> QED
    BY <2>1, <2>2, <2>3, GoneMeans, TurningLeavesGone
<1>6. CASE ForgetCloses(h)
  <2>1. PICK x \in todo[h] :
          \/ x \in Range(order) /\ Unregister(h, x) /\ UNCHANGED todo
          \/ /\ pc' = [pc EXCEPT ![h] = "idle"]
             /\ todo' = [todo EXCEPT ![h] = {}]
             /\ UNCHANGED <<order, job, then>>
    BY <1>6 DEF ForgetCloses
  <2>2. /\ pc[h] = "closing" /\ UNCHANGED <<closed, logged, mine>>
    BY <1>6 DEF ForgetCloses, runVars, logVars
  <2>3. CASE x \in Range(order) /\ Unregister(h, x) /\ UNCHANGED todo
    <3>1. x # r
      BY <2>3, GoneMeans
    <3>2. Range(order') \subseteq Range(order)
      BY <2>3, RemovedFromList DEF Unregister, RegistryInv, TypeOK
    <3>3. OnlyMoves(h) /\ pc'[h] = "snapshot" /\ job'[h] = x
      BY <2>3 DEF OnlyMoves, Unregister, RegistryInv, TypeOK
    <3>4. r \notin todo[h]
      BY <2>2, <3>1, ListsAreUsers DEF RegistryInv, HandsFit, UserFits
    <3>5. ~ WritesNow(h, r)' /\ ~ WritesLater(h, r)'
      BY <2>3, <3>1, <3>3, <3>4 DEF WritesNow, WritesLater
    <3> QED
      BY <2>2, <3>2, <3>3, <3>5, GoneMeans, HandLeavesGone
  <2>4. CASE /\ pc' = [pc EXCEPT ![h] = "idle"]
             /\ todo' = [todo EXCEPT ![h] = {}]
             /\ UNCHANGED <<order, job, then>>
    <3>1. OnlyMoves(h) /\ pc'[h] = "idle"
      BY <2>4 DEF OnlyMoves, RegistryInv, TypeOK
    <3>2. ~ WritesNow(h, r)' /\ ~ WritesLater(h, r)'
      BY <3>1 DEF WritesNow, WritesLater
    <3> QED
      BY <2>2, <2>4, <3>1, <3>2, GoneMeans, HandLeavesGone
  <2> QED
    BY <2>1, <2>3, <2>4
<1>7. CASE ClearLists(h) \/ Forget(h)
  <2>1. \E next \in {"idle", "forget"} : pc' = [pc EXCEPT ![h] = next]
    BY <1>7 DEF ClearLists, Forget
  <2>2. OnlyMoves(h) /\ pc'[h] \in {"idle", "forget"} /\ UNCHANGED <<order, closed, mine>>
    BY <1>7, <2>1 DEF OnlyMoves, ClearLists, Forget, RegistryInv, TypeOK, runVars
  <2>3. Range(logged') \subseteq Range(logged)
    <3>1. logged' = logged \/ \E x : logged' = Removed(logged, x)
      BY <1>7 DEF ClearLists, Forget, logVars
    <3> QED
      BY <3>1, RemovedFromList DEF RegistryInv, TypeOK
  <2>4. ~ WritesNow(h, r)' /\ ~ WritesLater(h, r)'
    BY <2>2 DEF WritesNow, WritesLater
  <2> QED
    BY <2>2, <2>3, <2>4, GoneMeans, HandLeavesGone
<1>8. CASE Retire(h)
  <2>1. PICK x \in todo[h] :
          job' = [job EXCEPT ![h] = x] /\ todo' = [todo EXCEPT ![h] = @ \ {x}]
    BY <1>8 DEF Retire
  <2>2. /\ pc[h] = "retire" /\ pc' = [pc EXCEPT ![h] = "snapshot"]
        /\ UNCHANGED <<order, closed, logged, mine>>
        /\ then' = [then EXCEPT ![h] = "close"]
    BY <1>8 DEF Retire, runVars, logVars
  <2>3. r \notin todo[h]
    <3>1. job[h] = NoRun
      BY <2>2, ListsAreUsers DEF RegistryInv, HandsFit, UserFits
    <3> QED
      BY <2>2, <3>1, GoneMeans, KindsOfHands DEF WritesLater
  <2>4. OnlyMoves(h) /\ job'[h] = x /\ todo'[h] \subseteq todo[h]
    BY <2>1, <2>2 DEF OnlyMoves, RegistryInv, TypeOK
  <2>5. ~ WritesNow(h, r)' /\ ~ WritesLater(h, r)'
    BY <2>1, <2>3, <2>4 DEF WritesNow, WritesLater
  <2> QED
    BY <2>2, <2>4, <2>5, GoneMeans, HandLeavesGone
<1> QED
  BY <1>1, <1>2, <1>3, <1>4, <1>5, <1>6, <1>7, <1>8 DEF Work

LEMMA StartersLeaveGone ==
  ASSUME RegistryInv, NEW r \in Runs, Gone(r), NEW s \in Starters, Evict(s) \/ WorkOfStarter(s)
  PROVE  Gone(r)'
<1>1. s \in Hands /\ s \notin Users /\ todo[s] = {}
  BY KindsOfHands DEF RegistryInv, HandsFit, OtherFits
<1>2. CASE Evict(s)
  <2>1. UNCHANGED <<closed, logged, mine, todo>>
    BY <1>2 DEF Evict, runVars, logVars
  <2>2. OnlyMoves(s)
    BY <1>2, <2>1 DEF Evict, OnlyMoves, RegistryInv, TypeOK
  <2>3. CASE Len(order) >= MaxRuns
    <3>1. order # <<>> /\ order \in Seq(Runs) /\ order' = Tail(order)
      BY <1>2, <2>3, RegistryAssumption DEF Evict, RegistryInv, TypeOK
    <3>2. Range(order) = Range(order') \union {Head(order)}
      BY <3>1, ShortenedList
    <3>3. job'[s] = Head(order)
      BY <1>1, <1>2, <2>3 DEF Evict, RegistryInv, TypeOK
    <3>4. ~ WritesNow(s, r)' /\ ~ WritesLater(s, r)'
      BY <1>1, <2>1, <3>2, <3>3, GoneMeans DEF WritesNow, WritesLater
    <3> QED
      BY <1>1, <2>1, <2>2, <3>2, <3>4, GoneMeans, HandLeavesGone
  <2>4. CASE ~ Len(order) >= MaxRuns
    <3>1. pc'[s] = "make" /\ order' = order
      BY <1>1, <1>2, <2>4 DEF Evict, RegistryInv, TypeOK
    <3>2. ~ WritesNow(s, r)' /\ ~ WritesLater(s, r)'
      BY <3>1 DEF WritesNow, WritesLater
    <3> QED
      BY <1>1, <2>1, <2>2, <3>1, <3>2, GoneMeans, HandLeavesGone
  <2> QED
    BY <2>3, <2>4
<1>3. ASSUME NEW x \in Runs, StartAsync(s, x) \/ Start(s, x) PROVE Gone(r)'
  <2>1. /\ status[x] = "none" /\ mine' = [mine EXCEPT ![s] = x] /\ job' = [job EXCEPT ![s] = x]
        /\ UNCHANGED <<order, closed, logged, todo>>
    BY <1>3 DEF StartAsync, Start, Make, logVars
  <2>2. OnlyMoves(s)
    BY <1>3 DEF StartAsync, Start, Make, OnlyMoves, RegistryInv, TypeOK
  <2>3. x # r
    BY <2>1, GoneMeans
  <2>4. \A t \in Starters : mine'[t] # r
    BY <2>1, <2>3, GoneMeans DEF RegistryInv, TypeOK
  <2>5. ~ WritesNow(s, r)' /\ ~ WritesLater(s, r)'
    BY <1>1, <2>1, <2>3 DEF WritesNow, WritesLater, RegistryInv, TypeOK
  <2> QED
    BY <1>1, <2>1, <2>2, <2>4, <2>5, GoneMeans, HandLeavesGone
<1>4. CASE MakeFails(s)
  <2>1. UNCHANGED <<order, closed, logged, mine, job, todo>> /\ pc'[s] = "idle"
    BY <1>1, <1>4 DEF MakeFails, runVars, logVars, RegistryInv, TypeOK
  <2>2. OnlyMoves(s)
    BY <1>4 DEF MakeFails, OnlyMoves, RegistryInv, TypeOK
  <2>3. ~ WritesNow(s, r)' /\ ~ WritesLater(s, r)'
    BY <2>1 DEF WritesNow, WritesLater
  <2> QED
    BY <1>1, <2>1, <2>2, <2>3, GoneMeans, HandLeavesGone
<1>5. CASE Hook(s)
  <2>1. UNCHANGED <<order, closed, logged, mine, todo>> /\ job'[s] = mine[s]
    BY <1>1, <1>5 DEF Hook, logVars, RegistryInv, TypeOK
  <2>2. OnlyMoves(s)
    BY <1>5 DEF Hook, OnlyMoves, RegistryInv, TypeOK
  <2>3. ~ WritesNow(s, r)' /\ ~ WritesLater(s, r)'
    BY <1>1, <2>1, GoneMeans DEF WritesNow, WritesLater
  <2> QED
    BY <1>1, <2>1, <2>2, <2>3, GoneMeans, HandLeavesGone
<1>6. CASE Register(s)
  <2>1. PICK x \in Runs : x = mine[s]
    BY <1>6 DEF Register, RegistryInv, HandsFit, StarterFits
  <2>2. /\ order' = Append(order, x) /\ mine' = [mine EXCEPT ![s] = NoRun]
        /\ UNCHANGED <<closed, logged, then, todo>>
        /\ \/ pc' = [pc EXCEPT ![s] = "idle", ![x] = "setup"] /\ job' = [job EXCEPT ![x] = x]
           \/ pc' = [pc EXCEPT ![s] = "idle"] /\ job' = job
    BY <1>6, <2>1 DEF Register, runVars, logVars
  <2>3. x # r /\ Range(order') = Range(order) \union {x}
    BY <2>1, <2>2, GoneMeans, AppendedList DEF RegistryInv, TypeOK
  <2>4. \A t \in Starters : mine'[t] # r
    BY <2>2, GoneMeans, KindsOfHands DEF RegistryInv, TypeOK
  <2>5. ASSUME NEW g \in Hands PROVE ~ WritesNow(g, r)' /\ ~ WritesLater(g, r)'
    <3>1. \/ pc'[g] \in {"idle", "setup"}
          \/ pc'[g] = pc[g] /\ job'[g] = job[g]
      BY <1>1, <2>2 DEF RegistryInv, TypeOK
    <3>2. todo'[g] = todo[g]
      BY <2>2
    <3> QED
      BY <3>1, <3>2, GoneMeans DEF WritesNow, WritesLater
  <2>6. ASSUME NEW g \in Hands PROVE ~ Writing(g, r)'
    BY <2>4, <2>5 DEF Writing, WritesNow, WritesLater, Closing
  <2>7. closed'[r] /\ r \notin Range(order') /\ r \notin Range(logged')
    BY <2>2, <2>3, GoneMeans
  <2> QED
    BY <2>6, <2>7, Zenon DEF Gone, Logged
<1> QED
  BY <1>2, <1>3, <1>4, <1>5, <1>6 DEF WorkOfStarter

LEMMA OthersLeaveGone ==
  ASSUME RegistryInv, NEW r \in Runs, Gone(r), NEW h \in Users \union Steppers,
         \/ h \in Steppers /\ \E x \in Runs : Advance(h, x)
         \/ h \in Users /\ \E x \in Runs : CloseRun(h, x) \/ ForgetRun(h, x)
         \/ h \in Users /\ (ClearRuns(h) \/ CloseAll(h))
  PROVE  Gone(r)'
<1>1. h \in Hands
  BY KindsOfHands
<1>2. UNCHANGED <<closed, logged, mine>>
  BY DEF Advance, CloseRun, ForgetRun, ClearRuns, CloseAll, runVars, logVars
<1>3. OnlyMoves(h)
  BY DEF Advance, CloseRun, Unregister, ForgetRun, ClearRuns, CloseAll, OnlyMoves, RegistryInv, TypeOK
<1>4. Range(order') \subseteq Range(order)
  <2>1. order' = order \/ order' = <<>> \/ \E x : order' = Removed(order, x)
    BY DEF Advance, CloseRun, Unregister, ForgetRun, ClearRuns, CloseAll
  <2>2. CASE order' = <<>>
    BY <2>2 DEF Range
  <2> QED
    BY <2>1, <2>2, RemovedFromList DEF RegistryInv, TypeOK
<1>5. ~ WritesNow(h, r)' /\ ~ WritesLater(h, r)'
  <2>1. ASSUME NEW x \in Runs, CloseRun(h, x), h \in Users
        PROVE  ~ WritesNow(h, r)' /\ ~ WritesLater(h, r)'
    <3>1. x # r /\ todo[h] = {}
      BY <2>1, GoneMeans DEF CloseRun, RegistryInv, HandsFit, UserFits
    <3>2. job'[h] = x /\ todo'[h] = {}
      BY <1>1, <2>1, <3>1 DEF CloseRun, Unregister, RegistryInv, TypeOK
    <3> QED
      BY <3>1, <3>2 DEF WritesNow, WritesLater
  <2>2. CASE CloseAll(h)
    <3>1. pc'[h] = "retire" /\ todo'[h] = Range(order)
      BY <1>1, <2>2 DEF CloseAll, RegistryInv, TypeOK
    <3> QED
      BY <3>1, GoneMeans DEF WritesNow, WritesLater
  <2>3. CASE ClearRuns(h) \/ \E x \in Runs : Advance(h, x) \/ ForgetRun(h, x)
    <3>1. pc'[h] \in {"publish", "list", "closing", "forget"}
      BY <1>1, <2>3 DEF ClearRuns, Advance, ForgetRun, RegistryInv, TypeOK
    <3> QED
      BY <3>1 DEF WritesNow, WritesLater
  <2> QED
    BY <2>1, <2>2, <2>3
<1> QED
  BY <1>1, <1>2, <1>3, <1>4, <1>5, GoneMeans, HandLeavesGone

\* A run that was closed, left the register and the log, and of which no record
\* is being written, does not come back: neither a setup that concludes late nor
\* a statement that resolves late puts its record back (the hook of
\* Manager.Start, Run.publishState, History.Put).
THEOREM ForgottenIsForgotten == Spec => ForgottenStaysForgotten
<1>1. RegistryInv /\ [Next]_vars => [\A r \in Runs : Gone(r) => Gone(r)']_vars
  <2> SUFFICES ASSUME RegistryInv, Next, NEW r \in Runs, Gone(r) PROVE Gone(r)'
    OBVIOUS
  <2> QED
    BY WorkLeavesGone, StartersLeaveGone, OthersLeaveGone DEF Next
<1> QED
  BY <1>1, RegistryInvariant, PTL DEF Spec, ForgottenStaysForgotten

-----------------------------------------------------------------------------
(***************************************************************************)
(* The record of a registered run keeps up with it.  The inductive         *)
(* invariant says who can be at work on a registered run, and on one that  *)
(* is about to be registered: what was written of it is up to date, or was *)
(* spoilt, or somebody has yet to write something newer.                   *)
(***************************************************************************)

\* The log goes as far as the run does.
UpToDate(r) == r \in Logged /\ record[r] = news[r]

\* h will write a record of r that is up to date.
Reporting(h, r) ==
  /\ job[h] = r
  /\ \/ pc[h] \in {"publish", "snapshot"}
     \/ pc[h] = "put" /\ snap[h] = news[r]

HeardOf(r) == r \in shaken \/ UpToDate(r) \/ \E h \in Hands : Reporting(h, r)

\* What h can be doing with a registered run: only its own goroutine sets it up,
\* and closes it when that failed, and nobody else is at it before it is ready.
InHand(h, r) ==
  job[h] = r =>
    /\ ~ closed[r]
    /\ h = r \/ status[r] = "ready"
    /\ "close" \in {pc[h], then[h]} => h = r /\ status[r] # "ready"
    /\ "setup" \in {pc[h], then[h]} => status[r] = "preparing"

\* Nobody is about to close r off a list.
OnList(u, r) == r \in todo[u] => pc[u] \in {"closing", "list", "forget"}

Settled(r) ==
  /\ hooked[r] /\ HeardOf(r)
  /\ \A h \in Hands : InHand(h, r)
  /\ \A u \in Users : OnList(u, r)

\* The run that s is to register is nobody else's, and on record by then.
Unregistered(s) ==
  /\ mine[s] \in Runs \ Range(order)
  /\ \A t \in Starters : mine[t] = mine[s] => s = t
  /\ \A h \in Hands \ {s} : job[h] # mine[s]
  /\ \A u \in Users : OnList(u, mine[s])

Prepared(s) ==
  /\ "register" \in {pc[s], then[s]} => hooked[mine[s]]
  /\ then[s] = "register" => 
       /\ job[s] = mine[s]
       /\ pc[s] = "snapshot" \/ (pc[s] = "put" /\ snap[s] = news[mine[s]])
  /\ pc[s] = "register" => job[s] = NoRun /\ (mine[s] \in shaken \/ UpToDate(mine[s]))

ClosedAreSetUp == \A r \in Runs : closed[r] => status[r] \notin {"none", "preparing"}

\* A snapshot is no newer than its run.
SnapshotsAge == \A h \in Hands : pc[h] = "put" => snap[h] <= news[job[h]]

\* A starter registers its run next when the record it writes is the first one.
RecordFirst ==
  \A s \in Starters : then[s] = "register" => pc[s] \in {"snapshot", "put"}

RecordInv ==
  /\ Once(order) /\ ClosedAreSetUp /\ SnapshotsAge /\ RecordFirst
  /\ \A r \in Range(order) : Settled(r)
  /\ \A s \in Starters : mine[s] # NoRun => Unregistered(s) /\ Prepared(s)

LEMMA RecordInitially == Init => RecordInv
<1> SUFFICES ASSUME Init PROVE RecordInv
  OBVIOUS
<1>1. Range(order) = {} /\ Once(order)
  BY DEF Init, Range, Once
<1> QED
  BY <1>1, KindsOfHands DEF Init, RecordInv, ClosedAreSetUp, SnapshotsAge, RecordFirst

\* Nobody has anything left to report of a run that is heard of.
LEMMA RecordsKeepUp == RegistryInv /\ RecordInv => RecordKeepsUp
<1> SUFFICES ASSUME RegistryInv, RecordInv, NEW r \in Range(order) \ shaken,
                    \A h \in Hands : job[h] = r => pc[h] = "setup"
             PROVE  r \in Logged /\ record[r] = news[r]
  BY DEF RecordKeepsUp
<1>1. \A h \in Hands : ~ Reporting(h, r)
  BY DEF Reporting
<1>2. HeardOf(r)
  BY DEF RecordInv, Settled
<1> QED
  BY <1>1, <1>2 DEF HeardOf, UpToDate

\* What a step does to everybody's lists and hands but those of h.
HandSteps(h) ==
  /\ OnlyMoves(h)
  /\ \A g \in Hands \ {h} : snap'[g] = snap[g]
  /\ \A s \in Starters \ {h} : mine'[s] = mine[s]

\* A step that leaves r and what is recorded of it, or spoils its record.
LeavesRecord(r) ==
  /\ news'[r] = news[r]
  /\ hooked[r] => hooked'[r]
  /\ r \in shaken => r \in shaken'
  /\ UpToDate(r) => r \in shaken' \/ UpToDate(r)'

\* A registered run stays settled if the hand that steps sees to it.
LEMMA StaysSettled ==
  ASSUME NEW r \in Runs, Settled(r), NEW h \in Hands, HandSteps(h), LeavesRecord(r),
         closed'[r] = closed[r], status'[r] = status[r],
         InHand(h, r)', OnList(h, r)', Reporting(h, r) => HeardOf(r)'
  PROVE  Settled(r)'
<1>1. \A g \in Hands \ {h} : InHand(g, r)'
  BY DEF Settled, InHand, HandSteps, OnlyMoves
<1>2. \A u \in Users \ {h} : OnList(u, r)'
  BY KindsOfHands DEF Settled, OnList, HandSteps, OnlyMoves
<1>3. HeardOf(r)'
  <2>1. CASE r \in shaken \/ UpToDate(r)
    BY <2>1 DEF HeardOf, LeavesRecord
  <2>2. ASSUME NEW g \in Hands \ {h}, Reporting(g, r) PROVE HeardOf(r)'
    <3>1. Reporting(g, r)'
      BY <2>2 DEF Reporting, HandSteps, OnlyMoves, LeavesRecord
    <3> QED
      BY <3>1 DEF HeardOf
  <2> QED
    BY <2>1, <2>2 DEF Settled, HeardOf
<1> QED
  BY <1>1, <1>2, <1>3 DEF Settled, LeavesRecord

\* So does a run that another starter is to register.
LEMMA StaysUnregistered ==
  ASSUME RegistryInv, NEW t \in Starters, NEW r \in Runs, r = mine[t],
         Unregistered(t), Prepared(t), NEW h \in Hands \ {t},
         HandSteps(h), LeavesRecord(r), r \notin Range(order'),
         h \in Starters => mine'[h] # r,
         job'[h] # r, OnList(h, r)'
  PROVE  Unregistered(t)' /\ Prepared(t)'
<1>1. mine'[t] = r /\ t \in Hands
  BY KindsOfHands DEF HandSteps
<1>2. \A s \in Starters : mine'[s] = r => t = s
  BY DEF Unregistered, HandSteps
<1>3. \A g \in Hands \ {t} : job'[g] # r
  BY DEF Unregistered, HandSteps, OnlyMoves
<1>4. \A u \in Users : r \in todo'[u] => pc'[u] \in {"closing", "list", "forget"}
  BY KindsOfHands DEF Unregistered, OnList, HandSteps, OnlyMoves
<1>5. Unregistered(t)'
  BY <1>1, <1>2, <1>3, <1>4 DEF Unregistered, OnList
<1>6. /\ pc'[t] = pc[t] /\ then'[t] = then[t] /\ job'[t] = job[t] /\ snap'[t] = snap[t]
      /\ news'[r] = news[r] /\ (hooked[r] => hooked'[r])
  BY <1>1 DEF HandSteps, OnlyMoves, LeavesRecord
<1>7. r \in shaken \/ UpToDate(r) => r \in shaken' \/ (r \in Logged' /\ record'[r] = news'[r])
  BY DEF LeavesRecord, UpToDate
<1>8. Prepared(t)'
  BY <1>1, <1>6, <1>7 DEF Prepared, UpToDate
<1> QED
  BY <1>5, <1>8

\* What is left to show of a step of one hand.
LEMMA HandKeepsRecords ==
  ASSUME RegistryInv, RegistryInv', RecordInv, NEW h \in Hands, HandSteps(h),
         Once(order'), ClosedAreSetUp',
         pc'[h] = "put" => snap'[h] <= news'[job'[h]],
         h \in Starters /\ then'[h] = "register" => pc'[h] \in {"snapshot", "put"},
         \A r \in Runs : news[r] <= news'[r],
         \A r \in Range(order') : Settled(r)',
         \A s \in Starters : mine'[s] # NoRun => Unregistered(s)' /\ Prepared(s)'
  PROVE  RecordInv'
<1>1. ASSUME NEW g \in Hands, pc'[g] = "put" PROVE snap'[g] <= news'[job'[g]]
  <2>1. CASE g = h
    BY <1>1, <2>1
  <2>2. CASE g # h
    <3>1. /\ snap'[g] = snap[g] /\ pc[g] = "put" /\ job'[g] = job[g]
      BY <1>1, <2>2 DEF HandSteps, OnlyMoves
    <3>2. job[g] \in Runs
      BY <3>1 DEF RegistryInv, HandsFit, Busy
    <3>3. snap[g] \in Nat /\ news[job[g]] \in Nat /\ news'[job[g]] \in Nat
      BY <3>2, RegistryAssumption DEF RegistryInv, TypeOK, News
    <3>4. snap[g] <= news[job[g]] /\ news[job[g]] <= news'[job[g]]
      BY <3>1, <3>2 DEF RecordInv, SnapshotsAge
    <3> QED
      BY <3>1, <3>3, <3>4
  <2> QED
    BY <2>1, <2>2
<1>2. SnapshotsAge'
  BY <1>1 DEF SnapshotsAge
<1>3. RecordFirst'
  BY KindsOfHands DEF RecordInv, RecordFirst, HandSteps, OnlyMoves
<1> QED
  BY <1>2, <1>3 DEF RecordInv

\* The registered runs and those about to be registered are runs.
LEMMA RunsOfRecord ==
  ASSUME RegistryInv
  PROVE  /\ Range(order) \subseteq Runs
         /\ \A s \in Starters : mine[s] # NoRun => mine[s] \in Runs
BY DEF RegistryInv, TypeOK, Range

\* A step that leaves the runs and the log alone.
LEMMA CalmStep ==
  ASSUME RegistryInv, RegistryInv', RecordInv, NEW h \in Hands, HandSteps(h),
         UNCHANGED <<runVars, logVars, shaken, mine>>,
         Once(order'), Range(order') \subseteq Range(order),
         pc'[h] = "put" => snap'[h] <= news[job'[h]],
         h \in Starters /\ then'[h] = "register" => pc'[h] \in {"snapshot", "put"},
         \A r \in Range(order') :
           InHand(h, r)' /\ OnList(h, r)' /\ (Reporting(h, r) => Reporting(h, r)'),
         \A t \in Starters \ {h}, r \in Runs : mine[t] = r => job'[h] # r /\ OnList(h, r)',
         h \in Starters /\ mine[h] # NoRun => Prepared(h)'
  PROVE  RecordInv'
<1>1. ASSUME NEW r \in Runs PROVE LeavesRecord(r)
  BY DEF LeavesRecord, UpToDate, runVars, logVars, Logged
<1>2. ASSUME NEW r \in Range(order') PROVE Settled(r)'
  <2>1. r \in Runs /\ Settled(r)
    BY RunsOfRecord DEF RecordInv
  <2>2. Reporting(h, r) => HeardOf(r)'
    BY DEF HeardOf
  <2>3. closed'[r] = closed[r] /\ status'[r] = status[r]
    BY DEF runVars
  <2> QED
    BY <1>1, <2>1, <2>2, <2>3, StaysSettled
<1>3. ASSUME NEW s \in Starters, mine'[s] # NoRun PROVE Unregistered(s)' /\ Prepared(s)'
  <2>1. PICK r \in Runs : r = mine[s]
    BY <1>3, RunsOfRecord
  <2>2. Unregistered(s) /\ Prepared(s) /\ mine' = mine /\ mine[s] # NoRun
    BY <1>3 DEF RecordInv
  <2>3. r \notin Range(order')
    BY <2>1, <2>2 DEF Unregistered
  <2>4. CASE s = h
    <3>1. \A g \in Hands \ {s} : job'[g] # r
      BY <2>1, <2>2, <2>4 DEF Unregistered, HandSteps, OnlyMoves
    <3>2. \A u \in Users : r \in todo'[u] => pc'[u] \in {"closing", "list", "forget"}
      BY <2>1, <2>2, <2>4, KindsOfHands DEF Unregistered, OnList, HandSteps, OnlyMoves
    <3>3. \A t \in Starters : mine'[t] = mine'[s] => s = t
      BY <2>2 DEF Unregistered
    <3>4. Unregistered(s)'
      BY <2>1, <2>2, <2>3, <3>1, <3>2, <3>3 DEF Unregistered, OnList
    <3> QED
      BY <2>2, <2>4, <3>4
  <2>5. CASE s # h
    <3>1. h \in Starters => mine'[h] # r
      BY <2>1, <2>2, <2>5 DEF Unregistered
    <3>2. job'[h] # r /\ OnList(h, r)'
      BY <2>1, <2>5
    <3> QED
      BY <1>1, <2>1, <2>2, <2>3, <2>5, <3>1, <3>2, StaysUnregistered
  <2> QED
    BY <2>4, <2>5
<1>4. ClosedAreSetUp' /\ \A r \in Runs : news[r] <= news'[r]
  BY RegistryAssumption DEF RecordInv, ClosedAreSetUp, runVars, RegistryInv, TypeOK, News
<1>5. pc'[h] = "put" => snap'[h] <= news'[job'[h]]
  BY DEF runVars
<1> QED
  BY <1>2, <1>3, <1>4, <1>5, HandKeepsRecords

-----------------------------------------------------------------------------
\* What a hand is at and has in hand, with its run.
LEMMA SnapshotKeepsRecords ==
  ASSUME RegistryInv, RegistryInv', RecordInv, NEW h \in Hands, Snapshot(h)
  PROVE  RecordInv'
<1>1. PICK x \in Runs : x = job[h]
  BY DEF RegistryInv, HandsFit, Busy, Snapshot
<1>2. /\ pc[h] = "snapshot" /\ pc' = [pc EXCEPT ![h] = "put"]
      /\ snap' = [snap EXCEPT ![h] = news[x]]
      /\ UNCHANGED <<order, runVars, logVars, job, mine, then, todo, shaken>>
  BY <1>1 DEF Snapshot
<1>3. pc'[h] = "put" /\ snap'[h] = news[x] /\ news[x] \in Nat /\ news' = news
  BY <1>1, <1>2, RegistryAssumption DEF RegistryInv, TypeOK, News, runVars
<1>4. HandSteps(h)
  BY <1>2 DEF HandSteps, OnlyMoves, RegistryInv, TypeOK
<1>5. ASSUME NEW r \in Range(order')
      PROVE  InHand(h, r)' /\ OnList(h, r)' /\ (Reporting(h, r) => Reporting(h, r)')
  <2>1. Settled(r) /\ (h \in Users => OnList(h, r)) /\ (h \notin Users => todo[h] = {})
    BY <1>2, <1>5 DEF RecordInv, Settled, RegistryInv, HandsFit, OtherFits
  <2>2. InHand(h, r)'
    BY <1>2, <1>3, <2>1 DEF Settled, InHand, runVars
  <2>3. OnList(h, r)'
    BY <1>2, <1>3, <2>1 DEF OnList
  <2>4. Reporting(h, r) => Reporting(h, r)'
    BY <1>1, <1>2, <1>3 DEF Reporting
  <2> QED
    BY <2>2, <2>3, <2>4
<1>6. ASSUME NEW t \in Starters \ {h}, NEW r \in Runs, mine[t] = r PROVE job'[h] # r /\ OnList(h, r)'
  <2>1. Unregistered(t) /\ (h \notin Users => todo[h] = {})
    BY <1>6, KindsOfHands DEF RecordInv, RegistryInv, HandsFit, OtherFits
  <2> QED
    BY <1>2, <1>3, <1>6, <2>1 DEF Unregistered, OnList
<1>7. ASSUME h \in Starters, mine[h] # NoRun PROVE Prepared(h)'
  <2>1. Prepared(h)
    BY <1>7 DEF RecordInv
  <2> QED
    BY <1>1, <1>2, <1>3, <2>1 DEF Prepared, runVars
<1> QED
  BY <1>1, <1>2, <1>3, <1>4, <1>5, <1>6, <1>7, CalmStep DEF RecordInv

LEMMA PublishKeepsRecords ==
  ASSUME RegistryInv, RegistryInv', RecordInv, NEW h \in Hands, Publish(h)
  PROVE  RecordInv'
<1>1. PICK x \in Runs : x = job[h]
  BY DEF RegistryInv, HandsFit, Busy, Publish
<1>2. pc[h] = "publish" /\ UNCHANGED <<order, runVars, logVars, mine, snap, todo, shaken>>
  BY DEF Publish
<1>3. h \notin Users /\ todo[h] = {}
  BY <1>2 DEF RegistryInv, HandsFit, UserFits, OtherFits
<1>4. \/ pc' = [pc EXCEPT ![h] = "snapshot"] /\ UNCHANGED <<job, then>>
      \/ TurnTo(h, then[h]) /\ (~ hooked[x] \/ closed[x])
  BY <1>1, Zenon DEF Publish
<1>5. CASE pc' = [pc EXCEPT ![h] = "snapshot"] /\ UNCHANGED <<job, then>>
  <2>1. pc'[h] = "snapshot" /\ HandSteps(h)
    BY <1>2, <1>5 DEF HandSteps, OnlyMoves, RegistryInv, TypeOK
  <2>2. ASSUME NEW r \in Range(order')
        PROVE  InHand(h, r)' /\ OnList(h, r)' /\ (Reporting(h, r) => Reporting(h, r)')
    <3>1. Settled(r)
      BY <1>2, <2>2 DEF RecordInv
    <3> QED
      BY <1>2, <1>3, <1>5, <2>1, <3>1 DEF Settled, InHand, OnList, Reporting, runVars
  <2>3. ASSUME NEW t \in Starters \ {h}, NEW r \in Runs, mine[t] = r
        PROVE  job'[h] # r /\ OnList(h, r)'
    BY <1>2, <1>3, <1>5, <2>3, KindsOfHands DEF RecordInv, Unregistered, OnList
  <2>4. ASSUME h \in Starters, mine[h] # NoRun PROVE Prepared(h)'
    <3>1. Prepared(h)
      BY <2>4 DEF RecordInv
    <3> QED
      BY <1>2, <1>5, <2>1, <3>1 DEF Prepared
  <2> QED
    BY <1>2, <2>1, <2>2, <2>3, <2>4, CalmStep DEF RecordInv
<1>6. CASE TurnTo(h, then[h]) /\ (~ hooked[x] \/ closed[x])
  <2>1. then[h] \in {"idle", "close", "register", "setup", "hook"}
    BY DEF RegistryInv, TypeOK
  <2>2. /\ OnlyMoves(h) /\ pc'[h] = then[h] /\ then'[h] = "idle"
        /\ job'[h] = (IF then[h] \in {"close", "setup"} THEN job[h] ELSE NoRun)
    BY <1>2, <1>6, <2>1, HandTurns
  <2>3. ASSUME NEW r \in Range(order')
        PROVE  InHand(h, r)' /\ OnList(h, r)' /\ (Reporting(h, r) => Reporting(h, r)')
    <3>1. Settled(r) /\ r \in Runs
      BY <1>2, <2>3, RunsOfRecord DEF RecordInv
    <3>2. x # r
      BY <1>1, <1>6, <3>1 DEF Settled, InHand
    <3> QED
      BY <1>1, <1>2, <1>3, <2>2, <3>1, <3>2, KindsOfHands DEF InHand, OnList, Reporting
  <2>4. ASSUME NEW t \in Starters \ {h}, NEW r \in Runs, mine[t] = r
        PROVE  job'[h] # r /\ OnList(h, r)'
    <3>1. Unregistered(t)
      BY <2>4, KindsOfHands DEF RecordInv
    <3> QED
      BY <1>2, <1>3, <2>2, <2>4, <3>1, KindsOfHands DEF Unregistered, OnList
  <2>5. ASSUME h \in Starters, mine[h] # NoRun PROVE Prepared(h)'
    <3>1. Prepared(h)
      BY <2>5 DEF RecordInv
    <3>2. then[h] # "register"
      BY <1>2, <3>1 DEF Prepared
    <3> QED
      BY <1>2, <2>2, <3>2 DEF Prepared
  <2>6. HandSteps(h)
    BY <1>2, <2>2 DEF HandSteps
  <2>7. pc'[h] # "put"
    BY <2>1, <2>2
  <2> QED
    BY <1>2, <2>2, <2>3, <2>4, <2>5, <2>6, <2>7, CalmStep DEF RecordInv
<1> QED
  BY <1>4, <1>5, <1>6

\* Somebody takes a run, which is out of the register by now, to close it.
LEMMA RetiresRun ==
  ASSUME RegistryInv, RegistryInv', RecordInv, NEW h \in Hands, NEW x \in Runs, HandSteps(h),
         UNCHANGED <<runVars, logVars, shaken, mine>>,
         Once(order'), Range(order') \subseteq Range(order),
         pc[h] \notin {"publish", "snapshot", "put"}, pc'[h] = "snapshot", job'[h] = x,
         x \notin Range(order'), \A t \in Starters : mine[t] # x,
         \A r \in todo'[h] : r \notin Range(order') /\ \A t \in Starters : mine[t] # r,
         h \in Starters => mine[h] = NoRun
  PROVE  RecordInv'
<1>1. ASSUME NEW r \in Range(order')
      PROVE  InHand(h, r)' /\ OnList(h, r)' /\ (Reporting(h, r) => Reporting(h, r)')
  <2>1. job'[h] # r /\ r \notin todo'[h] /\ ~ Reporting(h, r)
    BY DEF Reporting
  <2> QED
    BY <2>1 DEF InHand, OnList
<1>2. \A t \in Starters \ {h}, r \in Runs : mine[t] = r => job'[h] # r /\ OnList(h, r)'
  BY DEF OnList
<1> QED
  BY <1>1, <1>2, CalmStep

\* A user with no run in hand takes up a list, or puts it down.
LEMMA ListStep ==
  ASSUME RegistryInv, RegistryInv', RecordInv, NEW u \in Users, HandSteps(u),
         UNCHANGED <<runVars, logVars, shaken, mine>>,
         Once(order'), Range(order') \subseteq Range(order),
         pc[u] \notin {"publish", "snapshot", "put"}, job'[u] = NoRun,
         pc'[u] \in {"idle", "closing", "list", "forget", "retire"},
         pc'[u] = "idle" => todo'[u] = {},
         pc'[u] = "retire" =>
           \A r \in todo'[u] : r \notin Range(order') /\ \A t \in Starters : mine[t] # r
  PROVE  RecordInv'
<1>1. u \in Hands /\ u \notin Starters
  BY KindsOfHands
<1>2. ASSUME NEW r \in Range(order')
      PROVE  InHand(u, r)' /\ OnList(u, r)' /\ (Reporting(u, r) => Reporting(u, r)')
  <2>1. r \in Runs /\ ~ Reporting(u, r)
    BY RunsOfRecord DEF Reporting
  <2>2. job'[u] # r /\ (r \in todo'[u] => pc'[u] \notin {"idle", "retire"})
    BY <2>1, KindsOfHands
  <2> QED
    BY <2>1, <2>2 DEF InHand, OnList
<1>3. \A t \in Starters \ {u}, r \in Runs : mine[t] = r => job'[u] # r /\ OnList(u, r)'
  BY KindsOfHands DEF OnList
<1> QED
  BY <1>1, <1>2, <1>3, CalmStep

\* A run that is about to be registered is not in the register.
LEMMA NotRegisteredTwice ==
  ASSUME RegistryInv, RecordInv, NEW r \in Range(order), NEW t \in Starters
  PROVE  mine[t] # r
<1>1. r \in Runs /\ r # NoRun
  BY RunsOfRecord, KindsOfHands
<1> QED
  BY <1>1 DEF RecordInv, Unregistered

LEMMA EvictKeepsRecords ==
  ASSUME RegistryInv, RegistryInv', RecordInv, NEW s \in Starters, Evict(s)
  PROVE  RecordInv'
<1>1. s \in Hands /\ todo[s] = {} /\ pc[s] = "idle" /\ mine[s] = NoRun
  BY KindsOfHands DEF RegistryInv, HandsFit, OtherFits, StarterFits, Evict
<1>2. UNCHANGED <<runVars, logVars, mine, snap, todo, shaken>> /\ OnlyMoves(s) /\ HandSteps(s)
  BY DEF Evict, HandSteps, OnlyMoves, RegistryInv, TypeOK
<1>3. CASE Len(order) >= MaxRuns
  <2>1. PICK x : x = Head(order)
    OBVIOUS
  <2>2. order \in Seq(Runs) /\ order # <<>> /\ order' = Tail(order) /\ Once(order)
    BY <1>3, RegistryAssumption DEF Evict, RegistryInv, TypeOK, RecordInv
  <2>3. x \in Runs /\ Once(order') /\ x \notin Range(order') /\ Range(order) = Range(order') \union {x}
    BY <2>1, <2>2, ShortenedList, ShortenedOnce
  <2>4. pc'[s] = "snapshot" /\ job'[s] = x
    BY <1>1, <1>3, <2>1 DEF Evict, RegistryInv, TypeOK
  <2> QED
    BY <1>1, <1>2, <2>3, <2>4, NotRegisteredTwice, RetiresRun
<1>4. CASE ~ Len(order) >= MaxRuns
  <2>1. pc'[s] = "make" /\ UNCHANGED <<order, job, then>>
    BY <1>1, <1>4 DEF Evict, RegistryInv, TypeOK
  <2>2. ASSUME NEW r \in Range(order')
        PROVE  InHand(s, r)' /\ OnList(s, r)' /\ (Reporting(s, r) => Reporting(s, r)')
    <3>1. InHand(s, r) /\ ~ Reporting(s, r)
      BY <1>1, <2>1 DEF RecordInv, Settled, Reporting
    <3> QED
      BY <1>1, <1>2, <2>1, <3>1 DEF InHand, OnList, runVars
  <2>3. ASSUME NEW t \in Starters \ {s}, NEW r \in Runs, mine[t] = r
        PROVE  job'[s] # r /\ OnList(s, r)'
    BY <1>1, <1>2, <2>1, <2>3, KindsOfHands DEF RecordInv, Unregistered, OnList
  <2> QED
    BY <1>1, <1>2, <2>1, <2>2, <2>3, CalmStep DEF RecordInv, RecordFirst
<1> QED
  BY <1>3, <1>4

LEMMA MakeFailsKeepsRecords ==
  ASSUME RegistryInv, RegistryInv', RecordInv, NEW s \in Starters, MakeFails(s)
  PROVE  RecordInv'
<1>1. s \in Hands /\ todo[s] = {} /\ pc[s] = "make" /\ mine[s] = NoRun
  BY KindsOfHands DEF RegistryInv, HandsFit, OtherFits, StarterFits, MakeFails
<1>2. /\ UNCHANGED <<order, runVars, logVars, job, mine, snap, then, todo, shaken>>
      /\ pc'[s] = "idle" /\ HandSteps(s)
  BY <1>1 DEF MakeFails, HandSteps, OnlyMoves, RegistryInv, TypeOK
<1>3. ASSUME NEW r \in Range(order')
      PROVE  InHand(s, r)' /\ OnList(s, r)' /\ (Reporting(s, r) => Reporting(s, r)')
  <2>1. InHand(s, r) /\ ~ Reporting(s, r)
    BY <1>1, <1>2 DEF RecordInv, Settled, Reporting
  <2> QED
    BY <1>1, <1>2, <2>1 DEF InHand, OnList, runVars
<1>4. ASSUME NEW t \in Starters \ {s}, NEW r \in Runs, mine[t] = r
      PROVE  job'[s] # r /\ OnList(s, r)'
  BY <1>1, <1>2, <1>4, KindsOfHands DEF RecordInv, Unregistered, OnList
<1> QED
  BY <1>1, <1>2, <1>3, <1>4, CalmStep DEF RecordInv, RecordFirst

\* Out of the register for good, and into the hands of whoever closes it.
LEMMA UnregisterKeepsRecords ==
  ASSUME RegistryInv, RegistryInv', RecordInv, NEW u \in Users, NEW x \in Range(order),
         Unregister(u, x), UNCHANGED <<runVars, logVars, mine, snap, todo, shaken>>,
         pc[u] \in {"idle", "closing"}, \A y \in todo[u] : y = x
  PROVE  RecordInv'
<1>1. u \in Hands /\ u \notin Starters /\ x \in Runs
  BY KindsOfHands, RunsOfRecord
<1>2. order \in Seq(Runs) /\ order' = Removed(order, x) /\ Once(order)
  BY DEF Unregister, RegistryInv, TypeOK, RecordInv
<1>3. Once(order') /\ x \notin Range(order') /\ Range(order') \subseteq Range(order)
  BY <1>2, RemovedFromList, RemovedOnce
<1>4. pc'[u] = "snapshot" /\ job'[u] = x /\ HandSteps(u)
  BY <1>1 DEF Unregister, HandSteps, OnlyMoves, RegistryInv, TypeOK
<1>5. \A t \in Starters : mine[t] # x
  BY NotRegisteredTwice
<1> QED
  BY <1>1, <1>3, <1>4, <1>5, RetiresRun

LEMMA UsersKeepRecords ==
  ASSUME RegistryInv, RegistryInv', RecordInv, NEW u \in Users,
         \/ \E r \in Runs : CloseRun(u, r) \/ ForgetRun(u, r)
         \/ ClearRuns(u) \/ CloseAll(u)
  PROVE  RecordInv'
<1>1. /\ u \in Hands /\ pc[u] = "idle" /\ todo[u] = {} /\ job[u] = NoRun
      /\ UNCHANGED <<runVars, logVars, mine, snap, shaken>>
  BY KindsOfHands DEF RegistryInv, HandsFit, UserFits, CloseRun, ForgetRun, ClearRuns, CloseAll
<1>2. ASSUME NEW r \in Runs, CloseRun(u, r) PROVE RecordInv'
  BY <1>1, <1>2, UnregisterKeepsRecords DEF CloseRun
<1>3. ASSUME NEW r \in Runs, ForgetRun(u, r) PROVE RecordInv'
  <2>1. pc'[u] \in {"closing", "forget"} /\ HandSteps(u) /\ UNCHANGED <<order, job>>
    BY <1>1, <1>3 DEF ForgetRun, HandSteps, OnlyMoves, RegistryInv, TypeOK
  <2> QED
    BY <1>1, <2>1, ListStep DEF RecordInv
<1>4. CASE ClearRuns(u)
  <2>1. pc'[u] = "list" /\ HandSteps(u) /\ UNCHANGED <<order, job>>
    BY <1>1, <1>4 DEF ClearRuns, HandSteps, OnlyMoves, RegistryInv, TypeOK
  <2> QED
    BY <1>1, <2>1, ListStep DEF RecordInv
<1>5. CASE CloseAll(u)
  <2>1. /\ pc'[u] = "retire" /\ todo'[u] = Range(order) /\ order' = <<>>
        /\ HandSteps(u) /\ UNCHANGED job
    BY <1>1, <1>5 DEF CloseAll, HandSteps, OnlyMoves, RegistryInv, TypeOK
  <2>2. Range(order') = {} /\ Once(order')
    BY <2>1 DEF Range, Once
  <2> QED
    BY <1>1, <2>1, <2>2, NotRegisteredTwice, ListStep
<1> QED
  BY <1>2, <1>3, <1>4, <1>5

LEMMA ForgetClosesKeepsRecords ==
  ASSUME RegistryInv, RegistryInv', RecordInv, NEW h \in Hands, ForgetCloses(h)
  PROVE  RecordInv'
<1>1. /\ h \in Users /\ pc[h] = "closing" /\ job[h] = NoRun
      /\ \A x, y \in todo[h] : x = y
      /\ UNCHANGED <<runVars, logVars, mine, snap, shaken>>
  BY ListsAreUsers DEF RegistryInv, HandsFit, UserFits, ForgetCloses
<1>2. PICK x \in todo[h] :
        \/ x \in Range(order) /\ Unregister(h, x) /\ UNCHANGED todo
        \/ /\ pc' = [pc EXCEPT ![h] = "idle"]
           /\ todo' = [todo EXCEPT ![h] = {}]
           /\ UNCHANGED <<order, job, then>>
  BY DEF ForgetCloses
<1>3. CASE x \in Range(order) /\ Unregister(h, x) /\ UNCHANGED todo
  BY <1>1, <1>2, <1>3, UnregisterKeepsRecords
<1>4. CASE /\ pc' = [pc EXCEPT ![h] = "idle"]
           /\ todo' = [todo EXCEPT ![h] = {}]
           /\ UNCHANGED <<order, job, then>>
  <2>1. pc'[h] = "idle" /\ todo'[h] = {} /\ HandSteps(h)
    BY <1>1, <1>4 DEF HandSteps, OnlyMoves, RegistryInv, TypeOK
  <2> QED
    BY <1>1, <1>4, <2>1, ListStep DEF RecordInv
<1> QED
  BY <1>2, <1>3, <1>4

LEMMA ClearListsKeepsRecords ==
  ASSUME RegistryInv, RegistryInv', RecordInv, NEW h \in Hands, ClearLists(h)
  PROVE  RecordInv'
<1>1. /\ h \in Users /\ pc[h] = "list" /\ job[h] = NoRun
      /\ UNCHANGED <<order, runVars, logVars, job, mine, snap, shaken>>
  BY ListsAreUsers DEF RegistryInv, HandsFit, UserFits, ClearLists
<1>2. PICK rest : /\ todo' = [todo EXCEPT ![h] = rest]
                  /\ pc' = [pc EXCEPT ![h] = IF rest = {} THEN "idle" ELSE "forget"]
  BY DEF ClearLists
<1>3. pc'[h] \in {"idle", "forget"} /\ (pc'[h] = "idle" => todo'[h] = {})
  BY <1>2 DEF RegistryInv, TypeOK
<1>4. HandSteps(h)
  BY <1>2 DEF ClearLists, HandSteps, OnlyMoves, RegistryInv, TypeOK
<1> QED
  BY <1>1, <1>3, <1>4, ListStep DEF RecordInv

LEMMA RetireKeepsRecords ==
  ASSUME RegistryInv, RegistryInv', RecordInv, NEW h \in Hands, Retire(h)
  PROVE  RecordInv'
<1>1. /\ h \in Users /\ h \notin Starters /\ pc[h] = "retire"
      /\ UNCHANGED <<order, runVars, logVars, mine, snap, shaken>>
  BY ListsAreUsers, KindsOfHands DEF Retire
<1>2. PICK x \in todo[h] :
        job' = [job EXCEPT ![h] = x] /\ todo' = [todo EXCEPT ![h] = @ \ {x}]
  BY DEF Retire
<1>3. x \in Runs /\ job'[h] = x /\ pc'[h] = "snapshot" /\ todo'[h] \subseteq todo[h]
  BY <1>2 DEF Retire, RegistryInv, TypeOK
<1>4. HandSteps(h)
  BY <1>1, <1>2 DEF Retire, HandSteps, OnlyMoves, RegistryInv, TypeOK
<1>5. ASSUME NEW r \in todo[h] PROVE r \notin Range(order) /\ \A t \in Starters : mine[t] # r
  <2>1. r \in Runs /\ r # NoRun /\ ~ OnList(h, r)
    BY <1>1, KindsOfHands DEF RegistryInv, TypeOK, OnList
  <2> QED
    BY <1>1, <2>1 DEF RecordInv, Settled, Unregistered, OnList
<1> QED
  BY <1>1, <1>2, <1>3, <1>4, <1>5, RetiresRun DEF RecordInv

\* What a record written does to every run's.
LEMMA PutRecords ==
  ASSUME RegistryInv, RecordInv, NEW h \in Hands, Put(h), NEW x \in Runs, x = job[h]
  PROVE  /\ \A r \in Runs : LeavesRecord(r)
         /\ snap[h] = news[x] => x \in shaken' \/ UpToDate(x)'
<1> DEFINE grown == IF x \in Logged THEN logged ELSE Append(logged, x)
           full == Len(grown) > HistoryLimit
<1>1. /\ record' = IF full THEN [record EXCEPT ![x] = snap[h], ![Head(grown)] = 0]
                           ELSE [record EXCEPT ![x] = snap[h]]
      /\ logged' = IF full THEN Tail(grown) ELSE grown
      /\ shaken' = shaken \union (IF Regresses(x, snap[h]) THEN {x} ELSE {})
                          \union (IF full THEN {Head(grown)} ELSE {})
      /\ pc[h] = "put" /\ news' = news /\ hooked' = hooked
  BY DEF Put, runVars
<1>2. grown \in Seq(Runs) /\ Range(grown) = Range(logged) \union {x}
  BY AppendedList DEF RegistryInv, TypeOK, Logged
<1>3. full => grown # <<>>
  BY RegistryAssumption
<1> HIDE DEF grown
<1>4. record \in [Runs -> News] /\ Logged = Range(logged) /\ Logged' = Range(logged')
  BY DEF RegistryInv, TypeOK, Logged
<1>5. ASSUME NEW r \in Runs, r \in Range(grown)
      PROVE  /\ r \in shaken' \/ (r \in Logged' /\ (r # x => record'[r] = record[r]))
             /\ r \in shaken' \/ (r = x => record'[r] = snap[h])
  <2>1. CASE full
    <3>1. Range(grown) = Range(Tail(grown)) \union {Head(grown)} /\ Head(grown) \in Runs
      BY <1>2, <1>3, <2>1, ShortenedList
    <3>2. CASE r = Head(grown)
      BY <1>1, <2>1, <3>2
    <3>3. CASE r # Head(grown)
      <4>1. r \in Logged'
        BY <1>1, <1>4, <1>5, <2>1, <3>1, <3>3
      <4>2. record' = [record EXCEPT ![x] = snap[h], ![Head(grown)] = 0]
        BY <1>1, <2>1
      <4>3. record'[r] = IF r = x THEN snap[h] ELSE record[r]
        BY <1>4, <3>1, <3>3, <4>2
      <4> QED
        BY <4>1, <4>3
    <3> QED
      BY <3>2, <3>3
  <2>2. CASE ~ full
    BY <1>1, <1>4, <1>5, <2>2
  <2> QED
    BY <2>1, <2>2
<1>6. snap[h] = news[x] => x \in shaken' \/ UpToDate(x)'
  BY <1>1, <1>2, <1>5 DEF UpToDate
<1>7. ASSUME NEW r \in Runs, UpToDate(r) PROVE r \in shaken' \/ UpToDate(r)'
  <2>1. r \in Range(grown) /\ record[r] = news[r] /\ r \in Logged
    BY <1>2, <1>4, <1>7 DEF UpToDate
  <2>2. CASE r # x
    BY <1>1, <1>5, <2>1, <2>2 DEF UpToDate
  <2>3. CASE r = x
    <3>1. snap[h] <= news[x] /\ snap[h] \in Int /\ news[x] \in Int
      BY <1>1, RegistryAssumption DEF RecordInv, SnapshotsAge, RegistryInv, TypeOK, News
    <3>2. snap[h] = news[x] \/ Regresses(x, snap[h])
      BY <2>1, <2>3, <3>1 DEF Regresses
    <3> QED
      BY <1>1, <1>6, <2>3, <3>2
  <2> QED
    BY <2>2, <2>3
<1> QED
  BY <1>1, <1>6, <1>7 DEF LeavesRecord

\* A starter that steps keeps its run to itself.
LEMMA KeepsItsRun ==
  ASSUME RegistryInv, NEW s \in Starters, NEW r \in Runs, r = mine[s], Unregistered(s),
         HandSteps(s), mine'[s] = r, r \notin Range(order')
  PROVE  Unregistered(s)'
<1>1. \A g \in Hands \ {s} : job'[g] # r
  BY DEF Unregistered, HandSteps, OnlyMoves
<1>2. \A u \in Users : r \in todo'[u] => pc'[u] \in {"closing", "list", "forget"}
  BY KindsOfHands DEF Unregistered, OnList, HandSteps, OnlyMoves
<1>3. \A t \in Starters : mine'[t] = r => s = t
  BY DEF Unregistered, HandSteps
<1> QED
  BY <1>1, <1>2, <1>3 DEF Unregistered, OnList

LEMMA PutKeepsRecords ==
  ASSUME RegistryInv, RegistryInv', RecordInv, NEW h \in Hands, Put(h)
  PROVE  RecordInv'
<1>1. PICK x \in Runs : x = job[h]
  BY DEF RegistryInv, HandsFit, Busy, Put
<1>2. /\ pc[h] = "put" /\ TurnTo(h, then[h]) /\ snap' = [snap EXCEPT ![h] = 0]
      /\ UNCHANGED <<order, status, closed, hooked, news, mine, todo>>
  BY DEF Put, runVars
<1>3. then[h] \in {"idle", "close", "register", "setup", "hook"}
  BY DEF RegistryInv, TypeOK
<1>4. /\ OnlyMoves(h) /\ pc'[h] = then[h] /\ then'[h] = "idle"
      /\ job'[h] = (IF then[h] \in {"close", "setup"} THEN job[h] ELSE NoRun)
  BY <1>2, <1>3, HandTurns
<1>5. HandSteps(h)
  BY <1>2, <1>4 DEF HandSteps, RegistryInv, TypeOK
<1>6. /\ \A r \in Runs : LeavesRecord(r)
      /\ snap[h] = news[x] => x \in shaken' \/ UpToDate(x)'
  BY <1>1, PutRecords
<1>7. ASSUME NEW r \in Range(order') PROVE Settled(r)'
  <2>1. Settled(r) /\ r \in Runs
    BY <1>2, RunsOfRecord DEF RecordInv
  <2>2. InHand(h, r)'
    BY <1>2, <1>3, <1>4, <2>1, KindsOfHands DEF Settled, InHand
  <2>3. OnList(h, r)'
    <3>1. r \notin todo[h]
      BY <1>2, <2>1 DEF Settled, OnList, RegistryInv, HandsFit, OtherFits
    <3> QED
      BY <1>2, <3>1 DEF OnList
  <2>4. Reporting(h, r) => HeardOf(r)'
    BY <1>1, <1>2, <1>6 DEF Reporting, HeardOf
  <2> QED
    BY <1>2, <1>5, <1>6, <2>1, <2>2, <2>3, <2>4, StaysSettled
<1>8. ASSUME NEW s \in Starters, mine'[s] # NoRun PROVE Unregistered(s)' /\ Prepared(s)'
  <2>1. PICK r \in Runs : r = mine[s]
    BY <1>2, <1>8, RunsOfRecord
  <2>2. Unregistered(s) /\ Prepared(s) /\ mine' = mine /\ r \notin Range(order')
    BY <1>2, <1>8, <2>1 DEF RecordInv, Unregistered
  <2>3. CASE s = h
    <3>1. Unregistered(s)'
      BY <1>5, <2>1, <2>2, <2>3, KeepsItsRun
    <3>2. CASE then[h] = "register"
      <4>1. x = r /\ snap[h] = news[x] /\ hooked[r]
        BY <1>1, <1>2, <2>1, <2>2, <2>3, <3>2 DEF Prepared
      <4>2. r \in shaken' \/ UpToDate(r)'
        BY <1>6, <4>1
      <4>3. pc'[s] = "register" /\ then'[s] = "idle" /\ job'[s] = NoRun /\ hooked'[r] /\ mine'[s] = r
        BY <1>2, <1>4, <2>1, <2>3, <3>2, <4>1
      <4> QED
        BY <3>1, <4>2, <4>3 DEF Prepared, UpToDate
    <3>3. CASE then[h] # "register"
      BY <1>4, <2>3, <3>1, <3>3 DEF Prepared
    <3> QED
      BY <3>2, <3>3
  <2>4. CASE s # h
    <3>1. job'[h] # r
      BY <1>4, <2>1, <2>2, <2>4, KindsOfHands DEF Unregistered
    <3>2. OnList(h, r)'
      <4>1. r \notin todo[h]
        BY <1>2, <2>1, <2>2 DEF Unregistered, OnList, RegistryInv, HandsFit, OtherFits
      <4> QED
        BY <1>2, <4>1 DEF OnList
    <3>3. h \in Starters => mine'[h] # r
      BY <2>1, <2>2, <2>4 DEF Unregistered
    <3> QED
      BY <1>5, <1>6, <2>1, <2>2, <2>4, <3>1, <3>2, <3>3, StaysUnregistered
  <2> QED
    BY <2>3, <2>4
<1>9. /\ Once(order') /\ ClosedAreSetUp' /\ \A r \in Runs : news[r] <= news'[r]
      /\ pc'[h] # "put"
  BY <1>2, <1>3, <1>4, RegistryAssumption DEF RecordInv, ClosedAreSetUp, RegistryInv, TypeOK, News
<1> QED
  BY <1>4, <1>5, <1>7, <1>8, <1>9, HandKeepsRecords

LEMMA ForgetKeepsRecords ==
  ASSUME RegistryInv, RegistryInv', RecordInv, NEW u \in Hands, Forget(u)
  PROVE  RecordInv'
<1>1. /\ u \in Users /\ u \notin Starters /\ pc[u] = "forget" /\ job[u] = NoRun
      /\ UNCHANGED <<order, runVars, job, mine, snap, then>>
  BY ListsAreUsers, KindsOfHands DEF RegistryInv, HandsFit, UserFits, Forget
<1>2. PICK x \in todo[u] :
        /\ logged' = Removed(logged, x) /\ record' = [record EXCEPT ![x] = 0]
        /\ shaken' = shaken \union {x}
        /\ todo' = [todo EXCEPT ![u] = @ \ {x}]
        /\ pc' = [pc EXCEPT ![u] = IF todo[u] = {x} THEN "idle" ELSE "forget"]
  BY DEF Forget
<1>3. /\ pc'[u] \in {"idle", "forget"} /\ (pc'[u] = "idle" => todo'[u] = {})
      /\ HandSteps(u)
  BY <1>1, <1>2 DEF HandSteps, OnlyMoves, RegistryInv, TypeOK
<1>4. ASSUME NEW r \in Runs PROVE LeavesRecord(r)
  <2>1. Range(logged) \subseteq Range(logged') \union {x}
    BY <1>2, RemovedFromList DEF RegistryInv, TypeOK
  <2>2. r # x => record'[r] = record[r]
    BY <1>2 DEF RegistryInv, TypeOK
  <2> QED
    BY <1>1, <1>2, <2>1, <2>2 DEF LeavesRecord, UpToDate, Logged, runVars
<1>5. ASSUME NEW r \in Range(order') PROVE Settled(r)'
  <2>1. r \in Runs /\ r # NoRun /\ Settled(r) /\ ~ Reporting(u, r)
    BY <1>1, RunsOfRecord, KindsOfHands DEF RecordInv, Reporting
  <2>2. InHand(u, r)' /\ OnList(u, r)'
    BY <1>1, <1>3, <2>1 DEF InHand, OnList
  <2>3. closed'[r] = closed[r] /\ status'[r] = status[r]
    BY <1>1 DEF runVars
  <2> QED
    BY <1>1, <1>3, <1>4, <2>1, <2>2, <2>3, StaysSettled
<1>6. ASSUME NEW s \in Starters, mine'[s] # NoRun PROVE Unregistered(s)' /\ Prepared(s)'
  <2>1. PICK r \in Runs : r = mine[s]
    BY <1>1, <1>6, RunsOfRecord
  <2>2. Unregistered(s) /\ Prepared(s) /\ r \notin Range(order')
    BY <1>1, <1>6, <2>1 DEF RecordInv, Unregistered
  <2>3. u # s /\ job'[u] # r /\ OnList(u, r)'
    BY <1>1, <1>3, KindsOfHands DEF OnList
  <2> QED
    BY <1>1, <1>3, <1>4, <2>1, <2>2, <2>3, StaysUnregistered
<1>7. Once(order') /\ ClosedAreSetUp' /\ (\A r \in Runs : news[r] <= news'[r]) /\ pc'[u] # "put"
  BY <1>1, <1>3, RegistryAssumption
     DEF RecordInv, ClosedAreSetUp, RegistryInv, TypeOK, News, runVars
<1> QED
  BY <1>1, <1>3, <1>5, <1>6, <1>7, HandKeepsRecords

\* Something happens to x, and the hand that did it is about to publish it.
LEMMA NewsKeepsRecords ==
  ASSUME RegistryInv, RegistryInv', RecordInv, NEW h \in Hands, NEW x \in Runs, HandSteps(h),
         pc[h] \in {"idle", "setup"}, pc'[h] = "publish", job'[h] = x, todo'[h] = {},
         then'[h] # "register",
         news' = [news EXCEPT ![x] = @ + 1],
         UNCHANGED <<order, closed, hooked, logVars, mine, shaken>>,
         \A r \in Runs \ {x} : status'[r] = status[r], ClosedAreSetUp',
         x \in Range(order) => \A g \in Hands : InHand(g, x)',
         \A t \in Starters \ {h} : mine[t] # x
  PROVE  RecordInv'
<1>1. /\ \A r \in Runs \ {x} : news'[r] = news[r]
      /\ \A r \in Runs : news[r] <= news'[r]
  BY RegistryAssumption DEF RegistryInv, TypeOK, News
<1>2. ASSUME NEW r \in Runs \ {x} PROVE LeavesRecord(r)
  BY <1>1 DEF LeavesRecord, UpToDate, Logged, logVars
<1>3. ASSUME NEW r \in Range(order') PROVE Settled(r)'
  <2>1. r \in Runs /\ Settled(r)
    BY RunsOfRecord DEF RecordInv
  <2>2. CASE r = x
    <3>1. HeardOf(r)'
      BY <2>1, <2>2 DEF HeardOf, Reporting
    <3>2. \A u \in Users : OnList(u, r)'
      BY <2>1, KindsOfHands DEF Settled, OnList, HandSteps, OnlyMoves
    <3>3. \A g \in Hands : InHand(g, r)'
      BY <1>3, <2>2
    <3> QED
      BY <2>1, <3>1, <3>2, <3>3 DEF Settled
  <2>3. CASE r # x
    <3>1. InHand(h, r)' /\ OnList(h, r)' /\ ~ Reporting(h, r)
      BY <2>3 DEF InHand, OnList, Reporting
    <3> QED
      BY <1>2, <2>1, <2>3, <3>1, StaysSettled
  <2> QED
    BY <2>2, <2>3
<1>4. ASSUME NEW s \in Starters, mine'[s] # NoRun PROVE Unregistered(s)' /\ Prepared(s)'
  <2>1. PICK r \in Runs : r = mine[s]
    BY <1>4, RunsOfRecord
  <2>2. Unregistered(s) /\ Prepared(s) /\ r \notin Range(order')
    BY <1>4, <2>1 DEF RecordInv, Unregistered
  <2>3. CASE s = h
    <3>1. Unregistered(s)'
      BY <2>1, <2>2, <2>3, KeepsItsRun
    <3> QED
      BY <2>3, <3>1 DEF Prepared
  <2>4. CASE s # h
    <3>1. r # x /\ OnList(h, r)' /\ (h \in Starters => mine'[h] # r)
      BY <2>1, <2>2, <2>4 DEF OnList, Unregistered
    <3> QED
      BY <1>2, <2>1, <2>2, <2>4, <3>1, StaysUnregistered
  <2> QED
    BY <2>3, <2>4
<1>5. Once(order')
  BY DEF RecordInv
<1> QED
  BY <1>1, <1>3, <1>4, <1>5, HandKeepsRecords

LEMMA SetupKeepsRecords ==
  ASSUME RegistryInv, RegistryInv', RecordInv, NEW h \in Hands, Setup(h) \/ SetupProgress(h)
  PROVE  RecordInv'
<1>1. PICK x \in Runs : x = job[h]
  BY DEF RegistryInv, HandsFit, Busy, Setup, SetupProgress
<1>2. /\ pc[h] = "setup" /\ pc' = [pc EXCEPT ![h] = "publish"]
      /\ news' = [news EXCEPT ![x] = @ + 1]
      /\ UNCHANGED <<order, closed, hooked, logVars, job, mine, snap, todo, shaken>>
  BY <1>1 DEF Setup, SetupProgress
<1>3. \/ then' = [then EXCEPT ![h] = "setup"] /\ status' = status
      \/ /\ status' = [status EXCEPT ![x] = "ready"]
         /\ \E next \in {"hook", "idle"} : then' = [then EXCEPT ![h] = next]
      \/ /\ status' = [status EXCEPT ![x] = "failed"]
         /\ then' = [then EXCEPT ![h] = "close"]
  BY <1>1 DEF Setup, SetupProgress
<1>4. /\ pc'[h] = "publish" /\ job'[h] = x /\ HandSteps(h)
      /\ \/ then'[h] = "setup" /\ status' = status
         \/ then'[h] \in {"hook", "idle"} /\ status'[x] = "ready"
         \/ then'[h] = "close" /\ status'[x] = "failed"
      /\ \A r \in Runs \ {x} : status'[r] = status[r]
  BY <1>1, <1>2, <1>3 DEF HandSteps, OnlyMoves, RegistryInv, TypeOK
<1>5. todo'[h] = {}
  BY <1>2 DEF RegistryInv, HandsFit, UserFits, OtherFits
<1>6. ASSUME x \in Range(order), NEW g \in Hands PROVE InHand(g, x)'
  <2>1. InHand(h, x) /\ InHand(g, x)
    BY <1>6 DEF RecordInv, Settled
  <2>2. ~ closed[x] /\ status[x] = "preparing" /\ h = x
    BY <1>1, <1>2, <2>1 DEF InHand
  <2>3. CASE g = h
    BY <1>2, <1>4, <2>2, <2>3 DEF InHand
  <2>4. CASE g # h
    BY <1>2, <2>1, <2>2, <2>4 DEF InHand
  <2> QED
    BY <2>3, <2>4
<1>7. ASSUME NEW t \in Starters \ {h} PROVE mine[t] # x
  BY <1>1, KindsOfHands DEF RecordInv, Unregistered
<1>8. ClosedAreSetUp'
  BY <1>2, <1>4 DEF RecordInv, ClosedAreSetUp
<1> QED
  BY <1>1, <1>2, <1>4, <1>5, <1>6, <1>7, <1>8, NewsKeepsRecords

LEMMA AdvanceKeepsRecords ==
  ASSUME RegistryInv, RegistryInv', RecordInv, NEW w \in Steppers, NEW x \in Runs, Advance(w, x)
  PROVE  RecordInv'
<1>1. w \in Hands /\ w \notin Users /\ todo[w] = {}
  BY KindsOfHands, RegistryAssumption DEF RegistryInv, HandsFit, OtherFits
<1>2. /\ pc[w] = "idle" /\ status[x] = "ready" /\ ~ closed[x]
      /\ \A s \in Starters : mine[s] # x
      /\ news' = [news EXCEPT ![x] = @ + 1]
      /\ UNCHANGED <<order, status, closed, hooked, logVars, mine, snap, todo, shaken>>
  BY DEF Advance
<1>3. pc'[w] = "publish" /\ job'[w] = x /\ then'[w] = "idle" /\ HandSteps(w)
  BY <1>1, <1>2 DEF Advance, HandSteps, OnlyMoves, RegistryInv, TypeOK
<1>4. ASSUME x \in Range(order), NEW g \in Hands PROVE InHand(g, x)'
  <2>1. InHand(g, x)
    BY <1>4 DEF RecordInv, Settled
  <2> QED
    BY <1>2, <1>3, <2>1 DEF InHand, HandSteps, OnlyMoves
<1>5. ClosedAreSetUp'
  BY <1>2 DEF RecordInv, ClosedAreSetUp
<1> QED
  BY <1>1, <1>2, <1>3, <1>4, <1>5, NewsKeepsRecords

LEMMA CloseKeepsRecords ==
  ASSUME RegistryInv, RegistryInv', RecordInv, NEW h \in Hands, Close(h)
  PROVE  RecordInv'
<1>1. PICK x \in Runs : x = job[h]
  BY DEF RegistryInv, HandsFit, Busy, Close
<1>0. PICK next \in AfterClose(h) : TurnTo(h, next)
  BY DEF Close
<1>2. /\ pc[h] = "close" /\ TurnTo(h, next)
      /\ closed' = [closed EXCEPT ![x] = TRUE]
      /\ status' = [status EXCEPT ![x] = IF closed[x] THEN @ ELSE "closed"]
      /\ UNCHANGED <<order, hooked, news, logVars, mine, snap, todo, shaken>>
  BY <1>0, <1>1 DEF Close
<1>3. next \in {"make", "hook", "idle", "forget", "closing", "retire"}
  BY AfterCloseIs
<1>4. /\ OnlyMoves(h) /\ pc'[h] = next /\ then'[h] = "idle" /\ job'[h] = NoRun
  BY <1>2, <1>3, HandTurns
<1>5. HandSteps(h)
  BY <1>2, <1>4 DEF HandSteps
<1>6. ASSUME NEW r \in Runs PROVE LeavesRecord(r)
  BY <1>2 DEF LeavesRecord, UpToDate, Logged, logVars
<1>7. \A r \in Runs \ {x} : closed'[r] = closed[r] /\ status'[r] = status[r]
  BY <1>2 DEF RegistryInv, TypeOK
<1>8. ASSUME NEW r, OnList(h, r) \/ h \notin Users PROVE r \notin todo'[h]
  BY <1>2, <1>8 DEF OnList, RegistryInv, HandsFit, OtherFits
<1>9. ASSUME NEW r \in Range(order') PROVE Settled(r)'
  <2>1. r \in Runs /\ Settled(r) /\ r # NoRun
    BY <1>2, RunsOfRecord, KindsOfHands DEF RecordInv
  <2>2. r \notin todo'[h]
    BY <1>8, <2>1 DEF Settled
  <2>3. InHand(h, r)' /\ OnList(h, r)' /\ ~ Reporting(h, r)
    BY <1>2, <1>4, <2>1, <2>2 DEF InHand, OnList, Reporting
  <2>4. CASE r = x
    <3>1. h = x /\ status[x] # "ready"
      BY <1>1, <1>2, <2>1, <2>4 DEF Settled, InHand
    <3>2. \A g \in Hands \ {h} : job[g] # r
      BY <2>1, <2>4, <3>1 DEF Settled, InHand
    <3>3. \A g \in Hands : InHand(g, r)'
      BY <1>4, <2>3, <3>2 DEF InHand, OnlyMoves
    <3>4. HeardOf(r)'
      BY <1>6, <2>1, <2>3, <3>2 DEF Settled, HeardOf, Reporting, LeavesRecord
    <3>5. \A u \in Users : OnList(u, r)'
      BY <1>4, <2>1, <2>3, KindsOfHands DEF Settled, OnList, OnlyMoves
    <3> QED
      BY <1>2, <2>1, <3>3, <3>4, <3>5 DEF Settled
  <2>5. CASE r # x
    BY <1>5, <1>6, <1>7, <2>1, <2>3, <2>5, StaysSettled
  <2> QED
    BY <2>4, <2>5
<1>10. ASSUME NEW s \in Starters, mine'[s] # NoRun PROVE Unregistered(s)' /\ Prepared(s)'
  <2>1. PICK r \in Runs : r = mine[s]
    BY <1>2, <1>10, RunsOfRecord
  <2>2. Unregistered(s) /\ Prepared(s) /\ r \notin Range(order') /\ r # NoRun /\ mine' = mine
    BY <1>2, <1>10, <2>1, KindsOfHands DEF RecordInv, Unregistered
  <2>3. CASE s = h
    <3>1. Unregistered(s)'
      BY <1>5, <2>1, <2>2, <2>3, KeepsItsRun
    <3> QED
      BY <1>3, <1>4, <2>3, <3>1 DEF Prepared
  <2>4. CASE s # h
    <3>1. r \notin todo'[h]
      BY <1>8, <2>1, <2>2 DEF Unregistered
    <3>2. OnList(h, r)' /\ job'[h] # r /\ (h \in Starters => mine'[h] # r)
      BY <1>4, <2>1, <2>2, <2>4, <3>1 DEF OnList, Unregistered
    <3> QED
      BY <1>5, <1>6, <2>1, <2>2, <2>4, <3>2, StaysUnregistered
  <2> QED
    BY <2>3, <2>4
<1>11. ClosedAreSetUp'
  BY <1>2 DEF RecordInv, ClosedAreSetUp, RegistryInv, TypeOK
<1>12. Once(order') /\ \A r \in Runs : news[r] <= news'[r]
  BY <1>2, RegistryAssumption DEF RecordInv, RegistryInv, TypeOK, News
<1>13. pc'[h] # "put" /\ then'[h] # "register"
  BY <1>3, <1>4
<1> QED
  BY <1>5, <1>9, <1>10, <1>11, <1>12, <1>13, HandKeepsRecords

\* A run made is nobody's but its starter's.
LEMMA MakeKeepsRecords ==
  ASSUME RegistryInv, RegistryInv', RecordInv, NEW s \in Starters, NEW x \in Runs,
         StartAsync(s, x) \/ Start(s, x)
  PROVE  RecordInv'
<1>1. s \in Hands /\ s \notin Users /\ todo[s] = {} /\ pc[s] = "make" /\ mine[s] = NoRun
  BY KindsOfHands DEF RegistryInv, HandsFit, OtherFits, StarterFits, StartAsync, Start, Make
<1>2. /\ status[x] = "none" /\ status' = [status EXCEPT ![x] = "preparing"]
      /\ job' = [job EXCEPT ![s] = x] /\ mine' = [mine EXCEPT ![s] = x]
      /\ UNCHANGED <<order, closed, news, logVars, snap, todo, shaken>>
      /\ \/ /\ hooked' = [hooked EXCEPT ![x] = TRUE]
            /\ pc' = [pc EXCEPT ![s] = "snapshot"] /\ then' = [then EXCEPT ![s] = "register"]
         \/ hooked' = hooked /\ pc' = [pc EXCEPT ![s] = "setup"] /\ then' = then
  BY DEF StartAsync, Start, Make
<1>3. ~ Known(x)
  BY <1>2 DEF RegistryInv, KnownAreMade
<1>4. then[s] # "register"
  BY <1>1 DEF RecordInv, RecordFirst
<1>5. /\ job'[s] = x /\ mine'[s] = x
      /\ \/ pc'[s] = "snapshot" /\ then'[s] = "register" /\ hooked'[x]
         \/ pc'[s] = "setup" /\ then'[s] # "register"
  BY <1>1, <1>2, <1>4 DEF RegistryInv, TypeOK
<1>6. HandSteps(s)
  BY <1>1, <1>2 DEF HandSteps, OnlyMoves, RegistryInv, TypeOK
<1>7. \A r \in Runs : hooked[r] => hooked'[r]
  BY <1>2 DEF RegistryInv, TypeOK
<1>8. ASSUME NEW r \in Runs PROVE LeavesRecord(r)
  BY <1>2, <1>7 DEF LeavesRecord, UpToDate, Logged, logVars
<1>9. ASSUME NEW r \in Range(order') PROVE Settled(r)'
  <2>1. r \in Runs /\ Settled(r) /\ r # x
    BY <1>2, <1>3, <1>9, RunsOfRecord DEF RecordInv, Known
  <2>2. InHand(s, r)' /\ OnList(s, r)' /\ ~ Reporting(s, r)
    BY <1>1, <1>2, <1>5, <2>1 DEF InHand, OnList, Reporting
  <2>3. closed'[r] = closed[r] /\ status'[r] = status[r]
    BY <1>2, <2>1 DEF RegistryInv, TypeOK
  <2> QED
    BY <1>1, <1>6, <1>8, <2>1, <2>2, <2>3, StaysSettled
<1>10. ASSUME NEW t \in Starters, mine'[t] # NoRun PROVE Unregistered(t)' /\ Prepared(t)'
  <2>1. CASE t = s
    <3>1. \A g \in Hands \ {s} : job'[g] # x
      BY <1>3, <1>6 DEF Known, HandSteps, OnlyMoves
    <3>2. \A u \in Users : x \notin todo'[u]
      BY <1>2, <1>3, KindsOfHands DEF Known
    <3>3. \A q \in Starters : mine'[q] = x => q = s
      BY <1>3, <1>6 DEF Known, HandSteps
    <3>4. x \notin Range(order')
      BY <1>2, <1>3 DEF Known
    <3>5. Unregistered(t)'
      BY <1>5, <2>1, <3>1, <3>2, <3>3, <3>4 DEF Unregistered, OnList
    <3>6. Prepared(t)'
      BY <1>5, <2>1 DEF Prepared
    <3> QED
      BY <3>5, <3>6
  <2>2. CASE t # s
    <3>1. mine'[t] = mine[t]
      BY <1>6, <2>2 DEF HandSteps
    <3>2. PICK r \in Runs : r = mine[t]
      BY <1>10, <3>1, RunsOfRecord
    <3>3. Unregistered(t) /\ Prepared(t) /\ r \notin Range(order') /\ r # x
      BY <1>2, <1>3, <1>10, <3>1, <3>2 DEF RecordInv, Unregistered, Known
    <3>4. OnList(s, r)'
      BY <1>1, <1>2 DEF OnList
    <3> QED
      BY <1>1, <1>5, <1>6, <1>8, <2>2, <3>2, <3>3, <3>4, StaysUnregistered
  <2> QED
    BY <2>1, <2>2
<1>11. ClosedAreSetUp'
  BY <1>2 DEF RecordInv, ClosedAreSetUp, RegistryInv, TypeOK
<1>12. Once(order') /\ (\A r \in Runs : news[r] <= news'[r])
  BY <1>2, RegistryAssumption DEF RecordInv, RegistryInv, TypeOK, News
<1> QED
  BY <1>1, <1>5, <1>6, <1>9, <1>10, <1>11, <1>12, HandKeepsRecords

LEMMA HookKeepsRecords ==
  ASSUME RegistryInv, RegistryInv', RecordInv, NEW s \in Starters, Hook(s)
  PROVE  RecordInv'
<1>1. PICK x \in Runs : x = mine[s]
  BY DEF RegistryInv, HandsFit, StarterFits, Hook
<1>2. /\ s \in Hands /\ s \notin Users /\ todo[s] = {} /\ pc[s] = "hook"
      /\ Unregistered(s)
  BY <1>1, KindsOfHands DEF RegistryInv, HandsFit, OtherFits, Hook, RecordInv
<1>3. /\ hooked' = [hooked EXCEPT ![x] = TRUE]
      /\ job' = [job EXCEPT ![s] = x]
      /\ pc' = [pc EXCEPT ![s] = "snapshot"]
      /\ then' = [then EXCEPT ![s] = "register"]
      /\ UNCHANGED <<order, status, closed, news, logVars, mine, snap, todo, shaken>>
  BY <1>1 DEF Hook
<1>4. job'[s] = x /\ pc'[s] = "snapshot" /\ then'[s] = "register" /\ hooked'[x] /\ HandSteps(s)
  BY <1>2, <1>3 DEF HandSteps, OnlyMoves, RegistryInv, TypeOK
<1>5. \A r \in Runs : hooked[r] => hooked'[r]
  BY <1>3 DEF RegistryInv, TypeOK
<1>6. ASSUME NEW r \in Runs PROVE LeavesRecord(r)
  BY <1>3, <1>5 DEF LeavesRecord, UpToDate, Logged, logVars
<1>7. ASSUME NEW r \in Range(order') PROVE Settled(r)'
  <2>1. r \in Runs /\ Settled(r) /\ r # x
    BY <1>1, <1>3, RunsOfRecord, NotRegisteredTwice DEF RecordInv
  <2>2. InHand(s, r)' /\ OnList(s, r)' /\ ~ Reporting(s, r)
    BY <1>2, <1>3, <1>4, <2>1 DEF InHand, OnList, Reporting
  <2> QED
    BY <1>2, <1>3, <1>4, <1>6, <2>1, <2>2, StaysSettled
<1>8. ASSUME NEW t \in Starters, mine'[t] # NoRun PROVE Unregistered(t)' /\ Prepared(t)'
  <2>1. PICK r \in Runs : r = mine[t]
    BY <1>3, <1>8, RunsOfRecord
  <2>2. Unregistered(t) /\ Prepared(t) /\ r \notin Range(order') /\ mine' = mine
    BY <1>3, <1>8, <2>1 DEF RecordInv, Unregistered
  <2>3. CASE t = s
    <3>1. Unregistered(t)'
      BY <1>2, <1>4, <2>1, <2>2, <2>3, KeepsItsRun
    <3>2. mine'[t] = x
      BY <1>1, <2>2, <2>3
    <3>3. Prepared(t)'
      BY <1>4, <2>3, <3>2 DEF Prepared
    <3> QED
      BY <3>1, <3>3
  <2>4. CASE t # s
    <3>1. r # x /\ OnList(s, r)' /\ mine'[s] # r
      BY <1>1, <1>2, <1>3, <2>1, <2>2, <2>4 DEF Unregistered, OnList
    <3> QED
      BY <1>2, <1>4, <1>6, <2>1, <2>2, <2>4, <3>1, StaysUnregistered
  <2> QED
    BY <2>3, <2>4
<1>9. Once(order') /\ ClosedAreSetUp' /\ (\A r \in Runs : news[r] <= news'[r])
  BY <1>3, RegistryAssumption DEF RecordInv, ClosedAreSetUp, RegistryInv, TypeOK, News
<1> QED
  BY <1>2, <1>4, <1>7, <1>8, <1>9, HandKeepsRecords

\* A run that becomes addressable is on record.
LEMMA RegisterKeepsRecords ==
  ASSUME RegistryInv, RegistryInv', RecordInv, NEW s \in Starters, Register(s)
  PROVE  RecordInv'
<1>1. PICK x \in Runs : x = mine[s]
  BY DEF RegistryInv, HandsFit, StarterFits, Register
<1>2. /\ s \in Hands /\ s \notin Users /\ s \notin Runs /\ pc[s] = "register" /\ x # NoRun
      /\ x \in Hands /\ x \notin Users /\ x \notin Starters
      /\ Unregistered(s) /\ Prepared(s)
  BY <1>1, KindsOfHands DEF Register, RecordInv
<1>3. /\ order' = Append(order, x)
      /\ mine' = [mine EXCEPT ![s] = NoRun]
      /\ \/ /\ status[x] = "preparing"
            /\ pc' = [pc EXCEPT ![s] = "idle", ![x] = "setup"] /\ job' = [job EXCEPT ![x] = x]
         \/ pc' = [pc EXCEPT ![s] = "idle"] /\ job' = job
      /\ UNCHANGED <<runVars, logVars, snap, then, todo, shaken>>
  BY <1>1 DEF Register
<1>4. /\ job[s] = NoRun /\ hooked[x] /\ (x \in shaken \/ UpToDate(x))
      /\ \A g \in Hands : job[g] # x
  BY <1>1, <1>2 DEF Prepared, Unregistered
<1>5. /\ \A g \in Hands \ {s, x} : pc'[g] = pc[g] /\ job'[g] = job[g]
      /\ pc'[s] = "idle" /\ job'[s] = NoRun
      /\ \/ status[x] = "preparing" /\ pc'[x] = "setup" /\ job'[x] = x
         \/ pc'[x] = pc[x] /\ job'[x] = job[x]
  BY <1>2, <1>3, <1>4 DEF RegistryInv, TypeOK
<1>6. Once(order') /\ Range(order') = Range(order) \union {x}
  BY <1>1, <1>2, <1>3, AppendedList, AppendedOnce DEF RecordInv, Unregistered, RegistryInv, TypeOK
<1>7. ASSUME NEW r \in Range(order') PROVE Settled(r)'
  <2>1. \A q \in Runs : UpToDate(q)' <=> UpToDate(q)
    BY <1>3 DEF UpToDate, Logged, logVars, runVars
  <2>2. CASE r = x
    <3>1. ASSUME NEW g \in Hands, job'[g] = x PROVE g = x /\ status[x] = "preparing" /\ pc'[g] = "setup"
      BY <1>2, <1>4, <1>5, <3>1
    <3>2. status[x] = "preparing" => ~ closed[x]
      BY DEF RecordInv, ClosedAreSetUp
    <3>3. ASSUME NEW g \in Hands PROVE InHand(g, r)'
      BY <1>3, <2>2, <3>1, <3>2 DEF InHand, runVars
    <3>4. HeardOf(r)'
      BY <1>3, <1>4, <2>1, <2>2 DEF HeardOf
    <3>5. \A u \in Users : u # s /\ u # x /\ u \in Hands /\ OnList(u, x)
      BY <1>1, <1>2, KindsOfHands DEF Unregistered
    <3>6. \A u \in Users : OnList(u, r)'
      BY <1>3, <1>5, <2>2, <3>5 DEF OnList
    <3> QED
      BY <1>3, <1>4, <2>2, <3>3, <3>4, <3>6 DEF Settled, runVars
  <2>3. CASE r # x
    <3>1. Settled(r) /\ r \in Runs /\ r # NoRun
      BY <1>6, <2>3, RunsOfRecord, KindsOfHands DEF RecordInv
    <3>2. job[s] # r /\ job[x] # r
      BY <1>4, <3>1, <2>3 DEF RegistryInv, HandsFit
    <3>3. job'[s] # r /\ job'[x] # r
      BY <1>5, <2>3, <3>1, <3>2
    <3>4. ASSUME NEW g \in Hands PROVE InHand(g, r)'
      <4>1. CASE g \in {s, x}
        BY <3>3, <4>1 DEF InHand
      <4>2. CASE g \notin {s, x}
        BY <1>3, <1>5, <3>1, <4>2 DEF Settled, InHand, runVars
      <4> QED
        BY <4>1, <4>2
    <3>5. ASSUME NEW g \in Hands, Reporting(g, r) PROVE Reporting(g, r)'
      <4>1. g \notin {s, x}
        BY <3>2, <3>5 DEF Reporting
      <4> QED
        BY <1>3, <1>5, <3>5, <4>1 DEF Reporting, runVars
    <3>6. HeardOf(r)'
      BY <1>3, <2>1, <3>1, <3>5 DEF Settled, HeardOf
    <3>7. \A u \in Users : u # s /\ u # x /\ u \in Hands /\ OnList(u, r)
      BY <1>2, <3>1, KindsOfHands DEF Settled
    <3>8. \A u \in Users : OnList(u, r)'
      BY <1>3, <1>5, <3>7 DEF OnList
    <3> QED
      BY <1>3, <3>1, <3>4, <3>6, <3>8 DEF Settled, runVars
  <2> QED
    BY <2>2, <2>3
<1>8. ASSUME NEW t \in Starters, mine'[t] # NoRun PROVE Unregistered(t)' /\ Prepared(t)'
  <2>1. t # s /\ t # x /\ t \in Hands /\ mine'[t] = mine[t]
    BY <1>2, <1>3, <1>8, KindsOfHands DEF RegistryInv, TypeOK
  <2>2. PICK r \in Runs : r = mine[t]
    BY <1>8, <2>1, RunsOfRecord
  <2>3. Unregistered(t) /\ Prepared(t) /\ r # NoRun
    BY <1>8, <2>1, <2>2, KindsOfHands DEF RecordInv
  <2>4. r # x
    BY <1>1, <2>1, <2>2, <2>3 DEF Unregistered
  <2>5. r \in Runs \ Range(order')
    BY <1>6, <2>2, <2>3, <2>4 DEF Unregistered
  <2>6. \A g \in Hands \ {t} : job'[g] # r
    BY <1>5, <2>2, <2>3, <2>4 DEF Unregistered
  <2>7. \A q \in Starters : mine'[q] = r => t = q
    BY <1>3, <2>2, <2>3 DEF Unregistered, RegistryInv, TypeOK
  <2>8. \A u \in Users : u # s /\ u # x /\ u \in Hands /\ OnList(u, r)
    BY <1>2, <2>2, <2>3, KindsOfHands DEF Unregistered
  <2>9. \A u \in Users : r \in todo'[u] => pc'[u] \in {"closing", "list", "forget"}
    BY <1>3, <1>5, <2>8 DEF OnList
  <2>10. Unregistered(t)'
    BY <2>1, <2>2, <2>5, <2>6, <2>7, <2>9 DEF Unregistered, OnList
  <2>11. /\ pc'[t] = pc[t] /\ job'[t] = job[t] /\ then' = then /\ snap' = snap
         /\ hooked' = hooked /\ news' = news /\ shaken' = shaken
         /\ (UpToDate(r)' <=> UpToDate(r))
    BY <1>3, <1>5, <2>1 DEF UpToDate, Logged, logVars, runVars
  <2>12. Prepared(t)'
    BY <2>1, <2>2, <2>3, <2>11 DEF Prepared, UpToDate
  <2> QED
    BY <2>10, <2>12
<1>9. ClosedAreSetUp' /\ RecordFirst'
  BY <1>2, <1>3, <1>5, KindsOfHands DEF RecordInv, ClosedAreSetUp, RecordFirst, runVars
<1>10. SnapshotsAge'
  <2> SUFFICES ASSUME NEW g \in Hands, pc'[g] = "put" PROVE snap'[g] <= news'[job'[g]]
    BY DEF SnapshotsAge
  <2>1. pc[g] = "put" /\ job'[g] = job[g]
    BY <1>5
  <2> QED
    BY <1>3, <2>1 DEF RecordInv, SnapshotsAge, runVars
<1> QED
  BY <1>6, <1>7, <1>8, <1>9, <1>10 DEF RecordInv

LEMMA RecordStep == RegistryInv /\ RegistryInv' /\ RecordInv /\ [Next]_vars => RecordInv'
<1> SUFFICES ASSUME RegistryInv, RegistryInv', RecordInv, [Next]_vars PROVE RecordInv'
  OBVIOUS
<1>1. ASSUME NEW h \in Hands, Work(h) \/ SetupProgress(h) PROVE RecordInv'
  BY <1>1, SnapshotKeepsRecords, PutKeepsRecords, PublishKeepsRecords, SetupKeepsRecords,
     CloseKeepsRecords, ForgetClosesKeepsRecords, ClearListsKeepsRecords, ForgetKeepsRecords,
     RetireKeepsRecords DEF Work
<1>2. ASSUME NEW s \in Starters, Evict(s) \/ WorkOfStarter(s) PROVE RecordInv'
  BY <1>2, EvictKeepsRecords, MakeKeepsRecords, MakeFailsKeepsRecords, HookKeepsRecords,
     RegisterKeepsRecords DEF WorkOfStarter
<1>3. CASE UNCHANGED vars
  <2>1. RecordInv' <=> RecordInv
    BY <1>3 DEF vars, runVars, logVars, handVars, RecordInv, Once, ClosedAreSetUp, SnapshotsAge,
         RecordFirst, Settled, HeardOf, UpToDate, Logged, Reporting, InHand, OnList, Unregistered,
         Prepared
  <2> QED
    BY <2>1
<1> QED
  BY <1>1, <1>2, <1>3, AdvanceKeepsRecords, UsersKeepRecords DEF Next

\* "Keep this run's history record current as it progresses" (Manager.Start and
\* StartAsync): once everybody who had something to report of a registered run
\* has reported it, the log has a record of the run that is up to date, unless a
\* late writer or the log's own pruning spoilt it.
THEOREM RecordKeepsUpAlways == Spec => []RecordKeepsUp
<1>1. RegistryInv /\ RecordInv => RecordKeepsUp
  BY RecordsKeepUp
<1>2. Init => RecordInv
  BY RecordInitially
<1>3. RegistryInv /\ RegistryInv' /\ RecordInv /\ [Next]_vars => RecordInv'
  BY RecordStep
<1> QED
  BY <1>1, <1>2, <1>3, RegistryInvariant, PTL DEF Spec

=============================================================================
