------------------------------ MODULE BusProofs ------------------------------
(***************************************************************************)
(* What reaches a page.  What Bus retains is the unbroken end of what was  *)
(* published, for any limit, publishers, streams and numbers of events.    *)
(* And what Views' pages tell of locks, scenarios, runs, sweeps and pulls  *)
(* is so, for inputs of any size.                                          *)
(***************************************************************************)
EXTENDS Bus, Views, SequenceTheorems, FiniteSetTheorems, WellFoundedInduction, TLAPS

\* The history as a sequence of numbered events, which HistoryUnbroken needs.
HistoryInv ==
  /\ seq \in Nat
  /\ history \in Seq([seq : Nat, from : Publishers, body : Bodies])
  /\ Len(history) <= seq
  /\ HistoryUnbroken

\* Dropping the oldest quarter of a history keeps the end of it.
LEMMA TrimmedIsTheEnd ==
  ASSUME NEW E, NEW h \in Seq(E)
  PROVE  /\ Trimmed(h) \in Seq(E)
         /\ Len(Trimmed(h)) = IF Len(h) > HistoryLimit THEN Len(h) - HistoryLimit \div 4
                              ELSE Len(h)
         /\ \A k \in DOMAIN Trimmed(h) :
              Trimmed(h)[k] = h[k + Len(h) - Len(Trimmed(h))]
<1> DEFINE q == HistoryLimit \div 4
<1>1. HistoryLimit \in Nat \ {0} /\ q \in 0..HistoryLimit
  BY BusAssumption
<1>2. Len(h) \in Nat /\ DOMAIN h = 1..Len(h) /\ \A k \in 1..Len(h) : h[k] \in E
  OBVIOUS
<1>3. CASE Len(h) > HistoryLimit
  <2>1. Trimmed(h) = SubSeq(h, q + 1, Len(h))
    BY <1>3 DEF Trimmed
  <2> HIDE DEF q
  <2>2. q + 1 \in Int /\ q + 1 <= Len(h) /\ \A k \in (q + 1)..Len(h) : h[k] \in E
    BY <1>1, <1>2, <1>3
  <2>3. /\ SubSeq(h, q + 1, Len(h)) \in Seq(E)
        /\ Len(SubSeq(h, q + 1, Len(h))) = Len(h) - (q + 1) + 1
        /\ \A k \in 1..(Len(h) - (q + 1) + 1) : SubSeq(h, q + 1, Len(h))[k] = h[q + 1 + k - 1]
    BY <1>2, <2>2, SubSeqProperties
  <2>4. /\ Len(Trimmed(h)) = Len(h) - q /\ Trimmed(h) \in Seq(E)
        /\ DOMAIN Trimmed(h) = 1..(Len(h) - q)
        /\ \A k \in 1..(Len(h) - q) : Trimmed(h)[k] = h[q + k]
    <3>1. Len(h) - (q + 1) + 1 = Len(h) - q /\ q \in Int
      BY <1>1, <1>2
    <3>2. Len(Trimmed(h)) = Len(h) - q /\ Trimmed(h) \in Seq(E)
      BY <2>1, <2>3, <3>1
    <3>3. \A k \in 1..(Len(h) - q) : Trimmed(h)[k] = h[q + 1 + k - 1]
      BY <2>1, <2>3, <3>1
    <3>4. \A k \in 1..(Len(h) - q) : Trimmed(h)[k] = h[q + k]
      <4> SUFFICES ASSUME NEW k \in 1..(Len(h) - q) PROVE Trimmed(h)[k] = h[q + k]
        OBVIOUS
      <4>1. q + 1 + k - 1 = q + k
        BY <3>1
      <4>2. Trimmed(h)[k] = h[q + 1 + k - 1]
        BY <3>3
      <4> QED
        BY <4>1, <4>2
    <3>5. DOMAIN Trimmed(h) = 1..(Len(h) - q)
      BY <3>2
    <3> QED
      BY <3>2, <3>4, <3>5
  <2>5. ASSUME NEW k \in DOMAIN Trimmed(h)
        PROVE  Trimmed(h)[k] = h[k + Len(h) - Len(Trimmed(h))]
    <3>1. k \in 1..(Len(h) - q)
      BY <2>4
    <3>2. Trimmed(h)[k] = h[q + k]
      BY <2>4, <3>1
    <3>3. q + k = k + Len(h) - Len(Trimmed(h))
      BY <1>1, <1>2, <2>4, <3>1
    <3> QED
      BY <3>2, <3>3
  <2> QED
    BY <1>3, <2>4, <2>5 DEF q
<1>4. CASE ~ (Len(h) > HistoryLimit)
  <2>1. Trimmed(h) = h
    BY <1>4 DEF Trimmed
  <2>2. \A k \in DOMAIN h : k + Len(h) - Len(h) = k
    BY <1>2
  <2> QED
    BY <1>4, <2>1, <2>2
<1> QED
  BY <1>3, <1>4

LEMMA HistoryInvHolds == Init => HistoryInv
BY BusAssumption DEF Init, HistoryInv, HistoryUnbroken

LEMMA StampKeeps ==
  ASSUME HistoryInv, NEW p \in Publishers, NEW b \in Bodies, Stamp(p, b)
  PROVE  HistoryInv'
<1> DEFINE ev == [seq |-> seq + 1, from |-> p, body |-> b]
           E == [seq : Nat, from : Publishers, body : Bodies]
           h == Append(history, ev)
<1>1. seq' = seq + 1 /\ history' = Trimmed(h) /\ seq \in Nat
  BY DEF Stamp, HistoryInv
<1>2. ev \in E /\ ev.seq = seq + 1
  BY <1>1
<1>3. /\ history \in Seq(E) /\ Len(history) \in Nat
      /\ DOMAIN history = 1..Len(history)
      /\ \A k \in 1..Len(history) : history[k].seq = seq - Len(history) + k
      /\ Len(history) <= seq
      /\ Len(history) >= IF seq > HistoryLimit THEN HistoryLimit - HistoryLimit \div 4 ELSE seq
  BY DEF HistoryInv, HistoryUnbroken
<1> HIDE DEF ev, E
<1>4. /\ h \in Seq(E) /\ Len(h) = Len(history) + 1
      /\ h[Len(history) + 1] = ev
      /\ \A k \in 1..Len(history) : h[k] = history[k]
  BY <1>2, <1>3
<1> HIDE DEF h
<1>5. \A k \in 1..Len(h) : h[k].seq = seq + 1 - Len(h) + k
  <2> SUFFICES ASSUME NEW k \in 1..Len(h) PROVE h[k].seq = seq + 1 - Len(h) + k
    OBVIOUS
  <2>1. CASE k = Len(history) + 1
    BY <1>1, <1>2, <1>3, <1>4, <2>1
  <2>2. CASE k \in 1..Len(history)
    BY <1>1, <1>3, <1>4, <2>2
  <2> QED
    BY <1>3, <1>4, <2>1, <2>2
<1>6. /\ history' \in Seq(E)
      /\ Len(history') = IF Len(h) > HistoryLimit THEN Len(h) - HistoryLimit \div 4 ELSE Len(h)
      /\ \A k \in DOMAIN history' : history'[k] = h[k + Len(h) - Len(history')]
  BY <1>1, <1>4, TrimmedIsTheEnd
<1>7. HistoryLimit \in Nat \ {0} /\ HistoryLimit \div 4 \in 0..HistoryLimit
  BY BusAssumption
<1>8. Len(h) \in Nat /\ Len(history') \in 0..Len(h) /\ DOMAIN history' = 1..Len(history')
  BY <1>3, <1>4, <1>6, <1>7
<1>9. \A k \in DOMAIN history' : history'[k].seq = seq' - Len(history') + k
  <2> SUFFICES ASSUME NEW k \in DOMAIN history' PROVE history'[k].seq = seq' - Len(history') + k
    OBVIOUS
  <2>1. k + Len(h) - Len(history') \in 1..Len(h)
    BY <1>8
  <2>2. history'[k].seq = seq + 1 - Len(h) + (k + Len(h) - Len(history'))
    BY <1>5, <1>6, <2>1
  <2> QED
    BY <1>1, <1>8, <2>2
<1>10. /\ Len(history') <= seq'
       /\ Len(history') >=
            IF seq' > HistoryLimit THEN HistoryLimit - HistoryLimit \div 4 ELSE seq'
  <2> DEFINE q == HistoryLimit \div 4
  <2>1. q \in Nat
    BY <1>7
  <2>2. Len(history) >= IF seq > HistoryLimit THEN HistoryLimit - q ELSE seq
    BY <1>3
  <2>3. Len(history') = IF Len(h) > HistoryLimit THEN Len(h) - q ELSE Len(h)
    BY <1>6
  <2> HIDE DEF q
  <2>4. /\ Len(history') <= seq'
        /\ Len(history') >= IF seq' > HistoryLimit THEN HistoryLimit - q ELSE seq'
    BY <1>1, <1>3, <1>4, <1>7, <2>1, <2>2, <2>3
  <2> QED
    BY <2>4 DEF q
<1>11. seq' \in Nat /\ HistoryUnbroken'
  BY <1>1, <1>9, <1>10 DEF HistoryUnbroken
<1> QED
  BY <1>6, <1>10, <1>11 DEF HistoryInv, E

\* What is retained is the unbroken end of what was published, and at least
\* three quarters of the limit (bus.go, Publish).
THEOREM HistoryIsUnbroken == Spec => []HistoryUnbroken
<1>1. HistoryInv /\ [Next]_vars => HistoryInv'
  <2> SUFFICES ASSUME HistoryInv, [Next]_vars PROVE HistoryInv'
    OBVIOUS
  <2>1. ASSUME NEW p \in Publishers, Publishing(p) PROVE HistoryInv'
    BY <2>1, StampKeeps DEF Publishing
  <2>2. ASSUME UNCHANGED <<seq, history>> PROVE HistoryInv'
    BY <2>2 DEF HistoryInv, HistoryUnbroken
  <2>3. ASSUME NEW p \in Publishers, Sending(p) PROVE UNCHANGED <<seq, history>>
    BY <2>3 DEF Sending, Send
  <2>4. ASSUME NEW s \in Streams, Subscribe(s) \/ Disconnect(s) \/ Handling(s)
        PROVE  UNCHANGED <<seq, history>>
    BY <2>4 DEF Subscribe, Disconnect, Handling, Replay, Receive, Ended, Cancel, busVars
  <2>5. ASSUME Close \/ Rest \/ UNCHANGED vars PROVE UNCHANGED <<seq, history>>
    BY <2>5 DEF Close, Rest, vars, busVars
  <2> QED
    BY <2>1, <2>2, <2>3, <2>4, <2>5 DEF Next
<1>2. HistoryInv => HistoryUnbroken
  BY DEF HistoryInv
<1> QED
  BY <1>1, <1>2, HistoryInvHolds, PTL DEF Spec
-----------------------------------------------------------------------------
(***************************************************************************)
(* What a page is given, as an inductive invariant: of every stream what   *)
(* it carries and what publishers still hold for it, of every publisher    *)
(* the event it sends.                                                     *)
(***************************************************************************)
Numbered == [seq : Nat, from : Publishers, body : Bodies]

\* Events in an order a page may see them in.
InOrder(c) ==
  \A j, k \in DOMAIN c : j < k =>
    /\ c[j].seq # c[k].seq
    /\ c[j].from = c[k].from => c[j].seq < c[k].seq

\* Event ev may come after the events of c.
MayFollow(c, ev) ==
  \A k \in DOMAIN c :
    /\ c[k].seq # ev.seq
    /\ c[k].from = ev.from => c[k].seq < ev.seq

Upto(c, n) == \A k \in DOMAIN c : c[k].seq <= n

Active(s) == phase[s] \in {"replaying", "live"}

StreamTypes ==
  /\ subs \subseteq Streams
  /\ sending \in [Publishers -> [ev : Numbered \union {NoEvent}, to : SUBSET Streams]]
  /\ phase \in [Streams -> {"unused", "replaying", "live", "over"}]
  /\ shut \in [Streams -> BOOLEAN]
  /\ chan \in [Streams -> Seq(Numbered)]
  /\ backlog \in [Streams -> Seq(Numbered)]
  /\ written \in [Streams -> Seq(Numbered)]
  /\ lost \in [Streams -> SUBSET Nat]
  /\ DOMAIN since = Streams

\* A publisher sends an event of its own, which nobody else sends.
SenderFits(p) ==
  sending[p].to # {} =>
    /\ sending[p].ev \in Numbered
    /\ sending[p].ev.from = p /\ sending[p].ev.seq <= seq
    /\ \A q \in Publishers :
         sending[q].to # {} /\ q # p => sending[q].ev.seq # sending[p].ev.seq

\* A stream is subscribed while its handler is at work and the bus is open.
SubscriptionFits(s) ==
  /\ s \in subs => Active(s)
  /\ Active(s) /\ ~ closed => s \in subs
  /\ phase[s] = "live" => backlog[s] = <<>>
  /\ phase[s] = "unused" =>
       /\ written[s] = <<>> /\ backlog[s] = <<>> /\ chan[s] = <<>>
       /\ \A p \in Publishers : s \notin sending[p].to

\* What a stream carries is in order, and what publishers hold may follow.
CarriedFits(s) ==
  /\ InOrder(Carried(s)) /\ Upto(Carried(s), seq)
  /\ \A p \in Publishers : s \in sending[p].to => MayFollow(Carried(s), sending[p].ev)

NothingMissedBy(s) ==
  Active(s) =>
    \A ev \in Members(history) : ev.seq > since[s] =>
      ev \in Members(Carried(s)) \union UnderWay(s) \/ ev.seq \in lost[s]

StreamFits(s) == SubscriptionFits(s) /\ CarriedFits(s) /\ NothingMissedBy(s)

DeliveryInv ==
  /\ HistoryInv /\ StreamTypes
  /\ \A p \in Publishers : SenderFits(p)
  /\ \A s \in Streams : StreamFits(s)

-----------------------------------------------------------------------------
\* Every set of numbers that has a member has a least one.
LEMMA LeastNumber ==
  ASSUME NEW T, T \subseteq Nat, T # {}
  PROVE  \E x \in T : \A y \in T : x <= y
<1> DEFINE I == {1..n : n \in T}
           R == StrictSubsetOrdering(Nat)
<1>1. IsWellFoundedOn(R, FiniteSubsetsOf(Nat))
  BY FS_StrictSubsetOrderingWellFounded
<1>2. I \subseteq FiniteSubsetsOf(Nat)
  <2> SUFFICES ASSUME NEW n \in T PROVE 1..n \in FiniteSubsetsOf(Nat)
    OBVIOUS
  <2>1. IsFiniteSet(1..n)
    BY FS_Interval
  <2> QED
    BY <2>1 DEF FiniteSubsetsOf
<1>3. I # {}
  OBVIOUS
<1>4. PICK J \in I : \A y \in I : ~ (<<y, J>> \in R)
  <2> HIDE DEF R, I
  <2> QED
    BY <1>1, <1>2, <1>3, WFMin
<1>5. PICK x \in T : J = 1..x
  BY <1>4
<1>6. ASSUME NEW y \in T, y < x PROVE FALSE
  <2>1. <<1..y, 1..x>> \in R
    BY <1>6 DEF StrictSubsetOrdering
  <2> QED
    BY <2>1, <1>4, <1>5
<1> QED
  BY <1>5, <1>6

\* What Subscribe takes of the history: all that is newer, in order.
LEMMA NewerIsRight ==
  ASSUME HistoryInv, NEW n
  PROVE  /\ Newer(history, n) \in Seq(Numbered)
         /\ InOrder(Newer(history, n)) /\ Upto(Newer(history, n), seq)
         /\ \A ev \in Members(history) : ev.seq > n => ev \in Members(Newer(history, n))
<1> DEFINE K == {k \in DOMAIN history : history[k].seq > n}
           len == Len(history)
<1>1. /\ history \in Seq(Numbered) /\ len \in Nat /\ DOMAIN history = 1..len
      /\ \A k \in 1..len : history[k] \in Numbered /\ history[k].seq = seq - len + k
      /\ seq \in Nat
  <2>1. history \in Seq(Numbered) /\ seq \in Nat
    BY DEF HistoryInv, Numbered
  <2>2. len \in Nat /\ DOMAIN history = 1..len /\ \A k \in 1..len : history[k] \in Numbered
    BY <2>1
  <2>3. \A k \in DOMAIN history : history[k].seq = seq - len + k
    BY DEF HistoryInv, HistoryUnbroken
  <2> QED
    BY <2>1, <2>2, <2>3
<1>2. CASE K = {}
  <2>1. Newer(history, n) = <<>>
    BY <1>2 DEF Newer, From
  <2>2. \A ev \in Members(history) : ~ (ev.seq > n)
    BY <1>2 DEF Members
  <2> QED
    BY <2>1, <2>2 DEF InOrder, Upto
<1>3. CASE K # {}
  <2> DEFINE m == Min(K)
             b == SubSeq(history, m, len)
  <2>1. K \subseteq Nat /\ K \subseteq 1..len
    BY <1>1
  <2>2. m \in K /\ \A k \in K : m <= k
    <3> HIDE DEF K
    <3> QED
      BY <1>3, <2>1, LeastNumber DEF Min
  <2>3. Newer(history, n) = b
    BY <1>3 DEF Newer, From
  <2> HIDE DEF m
  <2>4. m \in 1..len
    BY <2>1, <2>2
  <2>5. /\ b \in Seq(Numbered) /\ Len(b) = len - m + 1
        /\ \A i \in 1..(len - m + 1) : b[i] = history[m + i - 1]
    BY <1>1, <2>4, SubSeqProperties
  <2> HIDE DEF b
  <2>6. DOMAIN b = 1..(len - m + 1)
    BY <2>5
  <2>7. \A i \in DOMAIN b : b[i].seq = seq - len + (m + i - 1)
    <3> SUFFICES ASSUME NEW i \in 1..(len - m + 1)
                 PROVE  b[i].seq = seq - len + (m + i - 1)
      BY <2>6
    <3>1. m + i - 1 \in 1..len
      BY <1>1, <2>4
    <3> QED
      BY <1>1, <2>5, <3>1
  <2>8. InOrder(b)
    <3> SUFFICES ASSUME NEW i \in DOMAIN b, NEW j \in DOMAIN b, i < j
                 PROVE  b[i].seq < b[j].seq /\ b[i].seq # b[j].seq
      BY DEF InOrder
    <3> QED
      BY <1>1, <2>4, <2>6, <2>7
  <2>9. Upto(b, seq)
    BY <1>1, <2>4, <2>6, <2>7 DEF Upto
  <2>10. ASSUME NEW ev \in Members(history), ev.seq > n PROVE ev \in Members(b)
    <3>1. PICK k \in 1..len : ev = history[k]
      BY <1>1 DEF Members
    <3>2. k \in K
      BY <1>1, <2>10, <3>1
    <3>3. m <= k
      BY <2>2, <3>2
    <3>4. k - m + 1 \in 1..(len - m + 1) /\ m + (k - m + 1) - 1 = k
      BY <1>1, <2>4, <3>3
    <3>5. b[k - m + 1] = ev
      BY <2>5, <3>1, <3>4
    <3> QED
      BY <2>6, <3>4, <3>5 DEF Members
  <2> QED
    BY <2>3, <2>5, <2>8, <2>9, <2>10
<1> QED
  BY <1>2, <1>3

\* The head of one part moved to the end of the part before.
LEMMA HeadMoves ==
  ASSUME NEW S, NEW w \in Seq(S), NEW b \in Seq(S), b # <<>>
  PROVE  /\ Append(w, Head(b)) \in Seq(S) /\ Tail(b) \in Seq(S)
         /\ Append(w, Head(b)) \o Tail(b) = w \o b
<1>1. /\ Head(b) \in S /\ Head(b) = b[1] /\ Tail(b) \in Seq(S) /\ Len(Tail(b)) = Len(b) - 1
      /\ \A i \in 1..Len(Tail(b)) : Tail(b)[i] = b[i + 1]
  BY HeadTailProperties
<1>2. /\ Append(w, Head(b)) \in Seq(S) /\ Len(Append(w, Head(b))) = Len(w) + 1
      /\ \A i \in 1..Len(w) : Append(w, Head(b))[i] = w[i]
      /\ Append(w, Head(b))[Len(w) + 1] = b[1]
  BY <1>1, AppendProperties
<1>3. Len(w) \in Nat /\ Len(b) \in Nat \ {0}
  BY EmptySeq
<1> DEFINE a == Append(w, Head(b))
           t == Tail(b)
<1> HIDE DEF a, t
<1>4. a \in Seq(S) /\ t \in Seq(S) /\ Len(a) = Len(w) + 1 /\ Len(t) = Len(b) - 1
  BY <1>1, <1>2 DEF a, t
<1>5. /\ a \o t \in Seq(S) /\ Len(a \o t) = Len(w) + Len(b)
      /\ \A i \in 1..(Len(w) + Len(b)) :
           (a \o t)[i] = IF i <= Len(w) + 1 THEN a[i] ELSE t[i - (Len(w) + 1)]
  <2>1. /\ a \o t \in Seq(S) /\ Len(a \o t) = Len(a) + Len(t)
        /\ \A i \in 1..Len(a) + Len(t) : (a \o t)[i] = IF i <= Len(a) THEN a[i] ELSE t[i - Len(a)]
    BY <1>4, ConcatProperties
  <2>2. Len(a) + Len(t) = Len(w) + Len(b)
    BY <1>3, <1>4
  <2> QED
    BY <1>4, <2>1, <2>2
<1>6. /\ w \o b \in Seq(S) /\ Len(w \o b) = Len(w) + Len(b)
      /\ \A i \in 1..(Len(w) + Len(b)) : (w \o b)[i] = IF i <= Len(w) THEN w[i] ELSE b[i - Len(w)]
  BY ConcatProperties
<1>7. \A i \in 1..(Len(w) + Len(b)) : (a \o t)[i] = (w \o b)[i]
  <2> SUFFICES ASSUME NEW i \in 1..(Len(w) + Len(b)) PROVE (a \o t)[i] = (w \o b)[i]
    OBVIOUS
  <2>1. CASE i <= Len(w)
    <3>1. i <= Len(w) + 1 /\ i \in 1..Len(w)
      BY <1>3, <2>1
    <3> QED
      BY <1>2, <1>5, <1>6, <2>1, <3>1 DEF a
  <2>2. CASE i = Len(w) + 1
    <3>1. i <= Len(w) + 1 /\ ~ (i <= Len(w)) /\ i - Len(w) = 1
      BY <1>3, <2>2
    <3> QED
      BY <1>2, <1>5, <1>6, <2>2, <3>1 DEF a
  <2>3. CASE i > Len(w) + 1
    <3>1. /\ ~ (i <= Len(w) + 1) /\ ~ (i <= Len(w))
          /\ i - (Len(w) + 1) \in 1..(Len(b) - 1)
          /\ (i - (Len(w) + 1)) + 1 = i - Len(w)
      BY <1>3, <2>3
    <3>2. t[i - (Len(w) + 1)] = b[i - Len(w)]
      BY <1>1, <3>1 DEF t
    <3> QED
      BY <1>5, <1>6, <3>1, <3>2
  <2>4. i <= Len(w) \/ i = Len(w) + 1 \/ i > Len(w) + 1
    BY <1>3
  <2> QED
    BY <2>1, <2>2, <2>3, <2>4
<1>8. a \o t = w \o b
  BY <1>5, <1>6, <1>7, SeqEqual
<1> QED
  BY <1>4, <1>8 DEF a, t

\* Appending to the last part is appending to all.
LEMMA AppendAtTheEnd ==
  ASSUME NEW S, NEW x \in Seq(S), NEW c \in Seq(S), NEW e \in S
  PROVE  x \o Append(c, e) = Append(x \o c, e)
<1>1. <<e>> \in Seq(S) /\ x \o c \in Seq(S)
  BY ConcatProperties
<1>2. Append(c, e) = c \o <<e>>
  BY AppendIsConcat
<1>3. Append(x \o c, e) = (x \o c) \o <<e>>
  BY <1>1, AppendIsConcat
<1>4. (x \o c) \o <<e>> = x \o (c \o <<e>>)
  <2> DEFINE u == <<e>>
  <2>1. u \in Seq(S)
    BY <1>1
  <2> HIDE DEF u
  <2> QED
    BY <2>1, ConcatAssociative
<1> QED
  BY <1>2, <1>3, <1>4

\* What holds of all of a sequence holds of its beginning.
LEMMA BeginningFits ==
  ASSUME NEW w \in Seq(Numbered), NEW r \in Seq(Numbered), NEW n
  PROVE  /\ InOrder(w \o r) => InOrder(w)
         /\ Upto(w \o r, n) => Upto(w, n)
         /\ \A ev : MayFollow(w \o r, ev) => MayFollow(w, ev)
<1>1. /\ w \o r \in Seq(Numbered) /\ Len(w \o r) = Len(w) + Len(r)
      /\ \A i \in 1..(Len(w) + Len(r)) : (w \o r)[i] = IF i <= Len(w) THEN w[i] ELSE r[i - Len(w)]
  BY ConcatProperties
<1>2. Len(w) \in Nat /\ Len(r) \in Nat /\ DOMAIN w = 1..Len(w)
      /\ DOMAIN (w \o r) = 1..(Len(w) + Len(r))
  BY <1>1
<1>3. \A i \in DOMAIN w : i \in DOMAIN (w \o r) /\ (w \o r)[i] = w[i]
  BY <1>1, <1>2
<1> QED
  BY <1>3 DEF InOrder, Upto, MayFollow

\* One event more, which may follow.
LEMMA OneMoreFits ==
  ASSUME NEW c \in Seq(Numbered), NEW ev \in Numbered, NEW n \in Nat,
         InOrder(c), Upto(c, n), MayFollow(c, ev), ev.seq <= n
  PROVE  /\ Append(c, ev) \in Seq(Numbered)
         /\ InOrder(Append(c, ev)) /\ Upto(Append(c, ev), n)
         /\ \A other \in Numbered :
              MayFollow(c, other) /\ other.seq # ev.seq /\ other.from # ev.from
                => MayFollow(Append(c, ev), other)
         /\ Members(Append(c, ev)) = Members(c) \union {ev}
<1>1. /\ Append(c, ev) \in Seq(Numbered) /\ Len(Append(c, ev)) = Len(c) + 1
      /\ \A i \in 1..Len(c) : Append(c, ev)[i] = c[i]
      /\ Append(c, ev)[Len(c) + 1] = ev
  BY AppendProperties
<1>2. /\ Len(c) \in Nat /\ DOMAIN c = 1..Len(c) /\ DOMAIN Append(c, ev) = 1..(Len(c) + 1)
      /\ \A i \in 1..Len(c) : c[i] \in Numbered
  BY <1>1
<1> DEFINE a == Append(c, ev)
<1> HIDE DEF a
<1>3. \A i \in 1..(Len(c) + 1) : (i \in 1..Len(c) /\ a[i] = c[i]) \/ (i = Len(c) + 1 /\ a[i] = ev)
  BY <1>1, <1>2 DEF a
<1>4. DOMAIN a = 1..(Len(c) + 1)
  BY <1>2 DEF a
<1>5. InOrder(a)
  <2> SUFFICES ASSUME NEW j \in 1..(Len(c) + 1), NEW k \in 1..(Len(c) + 1), j < k
               PROVE  a[j].seq # a[k].seq /\ (a[j].from = a[k].from => a[j].seq < a[k].seq)
    BY <1>4 DEF InOrder
  <2>1. j \in 1..Len(c) /\ a[j] = c[j]
    BY <1>2, <1>3
  <2>2. CASE k \in 1..Len(c) /\ a[k] = c[k]
    BY <1>2, <2>1, <2>2 DEF InOrder
  <2>3. CASE a[k] = ev
    BY <1>2, <2>1, <2>3 DEF MayFollow
  <2> QED
    BY <1>3, <2>2, <2>3
<1>6. Upto(a, n)
  BY <1>2, <1>3, <1>4 DEF Upto
<1>7. ASSUME NEW other \in Numbered, MayFollow(c, other), other.seq # ev.seq, other.from # ev.from
      PROVE  MayFollow(a, other)
  BY <1>2, <1>3, <1>4, <1>7 DEF MayFollow
<1>8. Members(a) = Members(c) \union {ev}
  <2>1. \A i \in 1..Len(c) : a[i] = c[i] /\ i \in DOMAIN a
    BY <1>1, <1>2, <1>4 DEF a
  <2>2. a[Len(c) + 1] = ev /\ Len(c) + 1 \in DOMAIN a
    BY <1>1, <1>2, <1>4 DEF a
  <2>3. \A x \in Members(a) : x \in Members(c) \/ x = ev
    BY <1>2, <1>3, <1>4 DEF Members
  <2>4. Members(c) \subseteq Members(a)
    BY <1>2, <2>1 DEF Members
  <2>5. ev \in Members(a)
    BY <2>2 DEF Members
  <2> QED
    BY <2>3, <2>4, <2>5
<1> QED
  BY <1>1, <1>5, <1>6, <1>7, <1>8 DEF a

\* What a stream carries is a sequence of events, in three parts.
LEMMA CarriedParts ==
  ASSUME StreamTypes, NEW s \in Streams
  PROVE  /\ written[s] \in Seq(Numbered) /\ backlog[s] \in Seq(Numbered)
         /\ chan[s] \in Seq(Numbered) /\ Carried(s) \in Seq(Numbered)
         /\ Carried(s) = written[s] \o (backlog[s] \o chan[s])
         /\ backlog[s] \o chan[s] \in Seq(Numbered)
         /\ \A k \in DOMAIN Carried(s) : Carried(s)[k] \in Numbered
<1>1. written[s] \in Seq(Numbered) /\ backlog[s] \in Seq(Numbered) /\ chan[s] \in Seq(Numbered)
  BY DEF StreamTypes
<1>2. written[s] \o backlog[s] \in Seq(Numbered) /\ backlog[s] \o chan[s] \in Seq(Numbered)
  BY <1>1, ConcatProperties
<1>3. Carried(s) \in Seq(Numbered)
  BY <1>1, <1>2, ConcatProperties DEF Carried
<1>4. Carried(s) = written[s] \o (backlog[s] \o chan[s])
  <2> DEFINE w == written[s]
             b == backlog[s]
             c == chan[s]
  <2>1. w \in Seq(Numbered) /\ b \in Seq(Numbered) /\ c \in Seq(Numbered)
    BY <1>1
  <2>2. (w \o b) \o c = w \o (b \o c)
    <3> HIDE DEF w, b, c
    <3> QED
      BY <2>1, ConcatAssociative
  <2> QED
    BY <2>2 DEF Carried
<1> QED
  BY <1>1, <1>2, <1>3, <1>4, LenProperties

\* A step that has nothing to do with stream s.
Apart(s) ==
  /\ written'[s] = written[s] /\ backlog'[s] = backlog[s] /\ chan'[s] = chan[s]
  /\ phase'[s] = phase[s] /\ since'[s] = since[s] /\ lost'[s] = lost[s]
  /\ s \in subs' <=> s \in subs
  /\ \A p \in Publishers :
       /\ sending'[p].ev = sending[p].ev
       /\ s \in sending'[p].to <=> s \in sending[p].to
  /\ UNCHANGED <<seq, history, closed>>

LEMMA ApartFits ==
  ASSUME NEW s \in Streams, StreamFits(s), Apart(s)
  PROVE  StreamFits(s)'
<1>1. Carried(s)' = Carried(s)
  BY DEF Apart, Carried
<1>2. UnderWay(s)' = UnderWay(s)
  BY DEF Apart, UnderWay
<1>3. SubscriptionFits(s)'
  BY DEF StreamFits, SubscriptionFits, Apart, Active
<1>4. CarriedFits(s)'
  <2>1. CarriedFits(s) /\ seq' = seq
    BY DEF StreamFits, Apart
  <2>2. InOrder(Carried(s)') /\ Upto(Carried(s)', seq')
    BY <1>1, <2>1 DEF CarriedFits
  <2>3. ASSUME NEW p \in Publishers, s \in sending'[p].to
        PROVE  MayFollow(Carried(s)', sending'[p].ev)
    BY <1>1, <2>1, <2>3 DEF CarriedFits, Apart
  <2> QED
    BY <2>2, <2>3 DEF CarriedFits
<1>5. NothingMissedBy(s)'
  <2>1. NothingMissedBy(s) /\ history' = history /\ since'[s] = since[s] /\ lost'[s] = lost[s]
        /\ phase'[s] = phase[s]
    BY DEF StreamFits, Apart
  <2> QED
    BY <1>1, <1>2, <2>1 DEF NothingMissedBy, Active, Members
<1> QED
  BY <1>3, <1>4, <1>5 DEF StreamFits

LEMMA StampDelivers ==
  ASSUME DeliveryInv, NEW p \in Publishers, NEW b \in Bodies, Stamp(p, b)
  PROVE  DeliveryInv'
<1> DEFINE ev == [seq |-> seq + 1, from |-> p, body |-> b]
<1>1. /\ seq' = seq + 1 /\ seq \in Nat /\ ~ closed /\ sending[p].to = {}
      /\ sending' = [sending EXCEPT ![p] = [ev |-> ev, to |-> subs]]
      /\ history' = Trimmed(Append(history, ev))
      /\ UNCHANGED <<subs, closed, chan, shut, phase, backlog, written, since, lost>>
  BY DEF DeliveryInv, HistoryInv, Stamp, Recipients, pageVars
<1>2. HistoryInv' /\ HistoryInv /\ StreamTypes
  BY StampKeeps DEF DeliveryInv
<1>3. ev \in Numbered /\ ev.seq = seq + 1 /\ ev.from = p
  BY <1>1 DEF Numbered
<1> HIDE DEF ev
<1>4. /\ sending \in [Publishers -> [ev : Numbered \union {NoEvent}, to : SUBSET Streams]]
      /\ subs \subseteq Streams
  BY <1>2 DEF StreamTypes
<1>5. /\ sending' \in [Publishers -> [ev : Numbered \union {NoEvent}, to : SUBSET Streams]]
      /\ sending'[p].ev = ev /\ sending'[p].to = subs
      /\ \A q \in Publishers : q # p => sending'[q] = sending[q]
  BY <1>1, <1>3, <1>4
<1>6. StreamTypes'
  BY <1>1, <1>2, <1>5 DEF StreamTypes
<1>7. ASSUME NEW q \in Publishers PROVE SenderFits(q)'
  <2>1. \A r \in Publishers : SenderFits(r)
    BY DEF DeliveryInv
  <2>2. \A r \in Publishers : sending[r].to # {} => sending[r].ev.seq \in Nat
                                                    /\ sending[r].ev.seq <= seq
    BY <2>1 DEF SenderFits, Numbered
  <2>3. CASE q = p
    <3>1. \A r \in Publishers : r # p /\ sending'[r].to # {} => sending'[r].ev.seq # seq + 1
      BY <1>1, <1>5, <2>2
    <3> QED
      BY <1>1, <1>3, <1>5, <2>3, <3>1 DEF SenderFits
  <2>4. CASE q # p
    <3>1. SUFFICES ASSUME sending[q].to # {} PROVE SenderFits(q)'
      BY <1>5, <2>4 DEF SenderFits
    <3>2. sending'[q].ev \in Numbered /\ sending'[q].ev.from = q /\ sending'[q].ev.seq <= seq'
      BY <1>1, <1>5, <2>1, <2>2, <2>4, <3>1 DEF SenderFits
    <3>3. ASSUME NEW r \in Publishers, sending'[r].to # {}, r # q
          PROVE  sending'[r].ev.seq # sending'[q].ev.seq
      <4>1. CASE r = p
        BY <1>1, <1>3, <1>5, <2>2, <2>4, <3>1, <4>1
      <4>2. CASE r # p
        BY <1>5, <2>1, <2>4, <3>1, <3>3, <4>2 DEF SenderFits
      <4> QED
        BY <4>1, <4>2
    <3> QED
      BY <3>2, <3>3 DEF SenderFits
  <2> QED
    BY <2>3, <2>4
<1>8. ASSUME NEW s \in Streams PROVE StreamFits(s)'
  <2>1. SubscriptionFits(s) /\ CarriedFits(s) /\ NothingMissedBy(s)
    BY DEF DeliveryInv, StreamFits
  <2>2. Carried(s)' = Carried(s) /\ Carried(s) \in Seq(Numbered)
        /\ \A k \in DOMAIN Carried(s) : Carried(s)[k].seq \in Nat
    BY <1>1, <1>2, CarriedParts DEF Carried, Numbered
  <2>3. SubscriptionFits(s)'
    <3>1. phase[s] = "unused" => s \notin subs
      BY <2>1 DEF SubscriptionFits, Active
    <3>2. phase[s] = "unused" => \A q \in Publishers : s \notin sending'[q].to
      BY <1>5, <2>1, <3>1 DEF SubscriptionFits
    <3> QED
      BY <1>1, <2>1, <3>2 DEF SubscriptionFits, Active
  <2>4. CarriedFits(s)'
    <3>1. \A k \in DOMAIN Carried(s) : Carried(s)[k].seq < seq + 1 /\ Carried(s)[k].seq # seq + 1
      BY <1>1, <2>1, <2>2 DEF CarriedFits, Upto
    <3>2. InOrder(Carried(s)') /\ Upto(Carried(s)', seq')
      BY <1>1, <2>1, <2>2, <3>1 DEF CarriedFits, Upto
    <3>3. ASSUME NEW q \in Publishers, s \in sending'[q].to
          PROVE  MayFollow(Carried(s)', sending'[q].ev)
      <4>1. CASE q = p
        BY <1>3, <1>5, <2>2, <3>1, <4>1 DEF MayFollow
      <4>2. CASE q # p
        BY <1>5, <2>1, <2>2, <3>3, <4>2 DEF CarriedFits
      <4> QED
        BY <4>1, <4>2
    <3> QED
      BY <3>2, <3>3 DEF CarriedFits
  <2>5. NothingMissedBy(s)'
    <3> SUFFICES ASSUME Active(s), NEW e \in Members(history'), e.seq > since[s]
                 PROVE  e \in Members(Carried(s)) \union UnderWay(s)' \/ e.seq \in lost[s]
      BY <1>1, <2>2 DEF NothingMissedBy, Active
    <3>1. s \in subs
      BY <1>1, <2>1 DEF SubscriptionFits
    <3>2. ev \in UnderWay(s)'
      BY <1>5, <3>1 DEF UnderWay
    <3>3. UnderWay(s) \subseteq UnderWay(s)'
      <4> SUFFICES ASSUME NEW q \in Publishers, s \in sending[q].to
                   PROVE  sending[q].ev \in UnderWay(s)'
        BY DEF UnderWay
      <4>1. q # p
        BY <1>1
      <4> QED
        BY <1>5, <4>1 DEF UnderWay
    <3>4. e \in Members(history) \/ e = ev
      <4>1. history \in Seq(Numbered)
        BY <1>2 DEF HistoryInv, Numbered
      <4>2. /\ Append(history, ev) \in Seq(Numbered)
            /\ Len(Append(history, ev)) = Len(history) + 1
            /\ \A i \in 1..Len(history) : Append(history, ev)[i] = history[i]
            /\ Append(history, ev)[Len(history) + 1] = ev
        BY <1>3, <4>1, AppendProperties
      <4> DEFINE h == Append(history, ev)
      <4> HIDE DEF h
      <4>3. h \in Seq(Numbered) /\ Len(h) = Len(history) + 1 /\ Len(history) \in Nat
            /\ DOMAIN history = 1..Len(history) /\ history' = Trimmed(h)
        BY <1>1, <4>1, <4>2 DEF h
      <4>4. /\ Len(history') = IF Len(h) > HistoryLimit THEN Len(h) - HistoryLimit \div 4
                               ELSE Len(h)
            /\ history' \in Seq(Numbered)
            /\ \A k \in DOMAIN history' : history'[k] = h[k + Len(h) - Len(history')]
        BY <4>3, TrimmedIsTheEnd
      <4>5. PICK k \in DOMAIN history' : e = history'[k]
        BY DEF Members
      <4>6. HistoryLimit \in Nat \ {0} /\ HistoryLimit \div 4 \in 0..HistoryLimit
        BY BusAssumption
      <4>7. k + Len(h) - Len(history') \in 1..Len(h)
        <5>1. k \in 1..Len(history') /\ Len(history') \in 0..Len(h) /\ Len(h) \in Nat
          BY <4>3, <4>4, <4>6
        <5> QED
          BY <5>1
      <4>8. e = h[k + Len(h) - Len(history')]
        BY <4>4, <4>5
      <4>9. PICK i \in 1..(Len(history) + 1) : e = h[i]
        BY <4>3, <4>7, <4>8
      <4>10. CASE i = Len(history) + 1
        BY <4>2, <4>9, <4>10 DEF h
      <4>11. CASE i \in 1..Len(history)
        BY <4>2, <4>3, <4>9, <4>11 DEF h, Members
      <4> QED
        BY <4>3, <4>10, <4>11
    <3>5. e \in Members(history) =>
            e \in Members(Carried(s)) \union UnderWay(s) \/ e.seq \in lost[s]
      BY <2>1 DEF NothingMissedBy
    <3> QED
      BY <3>2, <3>3, <3>4, <3>5
  <2> QED
    BY <2>3, <2>4, <2>5 DEF StreamFits
<1> QED
  BY <1>2, <1>6, <1>7, <1>8 DEF DeliveryInv

LEMMA SendDelivers ==
  ASSUME DeliveryInv, NEW p \in Publishers, NEW s \in Streams, Send(p, s)
  PROVE  DeliveryInv'
<1> DEFINE ev == sending[p].ev
<1>1. /\ s \in sending[p].to
      /\ sending' = [sending EXCEPT ![p].to = @ \ {s}]
      /\ UNCHANGED <<seq, history, subs, closed, shut, phase, backlog, written, since>>
  BY DEF Send, pageVars
<1>2. HistoryInv /\ StreamTypes /\ seq \in Nat
  BY DEF DeliveryInv, HistoryInv
<1>3. sending \in [Publishers -> [ev : Numbered \union {NoEvent}, to : SUBSET Streams]]
  BY <1>2 DEF StreamTypes
<1>4. /\ sending' \in [Publishers -> [ev : Numbered \union {NoEvent}, to : SUBSET Streams]]
      /\ sending'[p].to = sending[p].to \ {s}
      /\ \A q \in Publishers : sending'[q].ev = sending[q].ev
      /\ \A q \in Publishers : q # p => sending'[q].to = sending[q].to
      /\ \A q \in Publishers : sending'[q].to \subseteq sending[q].to
  BY <1>1, <1>3
<1>5. /\ ev \in Numbered /\ ev.from = p /\ ev.seq <= seq
      /\ \A q \in Publishers : sending[q].to # {} /\ q # p => sending[q].ev.seq # ev.seq
  BY <1>1 DEF DeliveryInv, SenderFits
<1> HIDE DEF ev
<1>6. \/ chan' = [chan EXCEPT ![s] = Append(@, ev)] /\ lost' = lost
      \/ lost' = [lost EXCEPT ![s] = @ \union {ev.seq}] /\ chan' = chan
  BY DEF Send, ev
<1>7. chan \in [Streams -> Seq(Numbered)] /\ lost \in [Streams -> SUBSET Nat] /\ ev.seq \in Nat
  BY <1>2, <1>5 DEF StreamTypes, Numbered
<1>8. \/ lost' = lost /\ chan'[s] = Append(chan[s], ev)
      \/ chan' = chan /\ ev.seq \in lost'[s] /\ lost[s] \subseteq lost'[s]
  BY <1>6, <1>7
<1>9. /\ chan' \in [Streams -> Seq(Numbered)] /\ lost' \in [Streams -> SUBSET Nat]
      /\ \A t \in Streams : t # s => chan'[t] = chan[t] /\ lost'[t] = lost[t]
  <2>1. Append(chan[s], ev) \in Seq(Numbered)
    BY <1>5, <1>7
  <2> QED
    BY <1>6, <1>7, <2>1
<1>10. HistoryInv' /\ StreamTypes'
  BY <1>1, <1>2, <1>4, <1>9 DEF HistoryInv, HistoryUnbroken, StreamTypes
<1>11. ASSUME NEW q \in Publishers PROVE SenderFits(q)'
  <2>1. SenderFits(q) /\ \A r \in Publishers : sending'[r].to # {} => sending[r].to # {}
    BY <1>4 DEF DeliveryInv
  <2> QED
    BY <1>1, <1>4, <2>1 DEF SenderFits
<1>12. ASSUME NEW t \in Streams, t # s PROVE StreamFits(t)'
  <2>1. Apart(t)
    BY <1>1, <1>4, <1>9, <1>12 DEF Apart
  <2> QED
    BY <2>1, ApartFits DEF DeliveryInv
<1>13. StreamFits(s)'
  <2>1. SubscriptionFits(s) /\ CarriedFits(s) /\ NothingMissedBy(s)
    BY DEF DeliveryInv, StreamFits
  <2>2. /\ Carried(s) \in Seq(Numbered) /\ chan[s] \in Seq(Numbered)
        /\ written[s] \o backlog[s] \in Seq(Numbered)
    BY <1>2, CarriedParts, ConcatProperties
  <2>3. InOrder(Carried(s)) /\ Upto(Carried(s), seq) /\ MayFollow(Carried(s), ev)
    BY <1>1, <2>1 DEF CarriedFits, ev
  <2>4. phase[s] # "unused"
    BY <1>1, <2>1 DEF SubscriptionFits
  <2>5. SubscriptionFits(s)'
    BY <1>1, <2>1, <2>4 DEF SubscriptionFits, Active
  <2>6. UnderWay(s) \subseteq UnderWay(s)' \union {ev}
    <3> SUFFICES ASSUME NEW q \in Publishers, s \in sending[q].to
                 PROVE  sending[q].ev \in UnderWay(s)' \union {ev}
      BY DEF UnderWay
    <3>1. CASE q = p
      BY <3>1 DEF ev
    <3>2. CASE q # p
      BY <1>4, <3>2 DEF UnderWay
    <3> QED
      BY <3>1, <3>2
  <2>7. \A q \in Publishers : s \in sending'[q].to =>
          /\ q # p /\ s \in sending[q].to /\ sending'[q].ev = sending[q].ev
          /\ sending[q].ev \in Numbered /\ sending[q].ev.seq # ev.seq /\ sending[q].ev.from # ev.from
    BY <1>4, <1>5 DEF DeliveryInv, SenderFits
  <2>8. CASE lost' = lost /\ chan'[s] = Append(chan[s], ev)
    <3>1. Carried(s)' = Append(Carried(s), ev)
      <4>1. Carried(s)' = (written[s] \o backlog[s]) \o Append(chan[s], ev)
        BY <1>1, <2>8 DEF Carried
      <4> DEFINE x == written[s] \o backlog[s]
                 c == chan[s]
      <4>2. x \in Seq(Numbered) /\ c \in Seq(Numbered)
        BY <2>2
      <4>3. x \o Append(c, ev) = Append(x \o c, ev)
        <5> HIDE DEF x, c
        <5> QED
          BY <1>5, <4>2, AppendAtTheEnd
      <4> QED
        BY <4>1, <4>3 DEF Carried
    <3>2. /\ InOrder(Carried(s)') /\ Upto(Carried(s)', seq)
          /\ \A other \in Numbered :
               MayFollow(Carried(s), other) /\ other.seq # ev.seq /\ other.from # ev.from
                 => MayFollow(Carried(s)', other)
          /\ Members(Carried(s)') = Members(Carried(s)) \union {ev}
      BY <1>2, <1>5, <2>2, <2>3, <3>1, OneMoreFits
    <3>3. CarriedFits(s)'
      <4>1. ASSUME NEW q \in Publishers, s \in sending'[q].to
            PROVE  MayFollow(Carried(s)', sending'[q].ev)
        BY <2>1, <2>7, <3>2, <4>1 DEF CarriedFits
      <4> QED
        BY <1>1, <3>2, <4>1 DEF CarriedFits
    <3>4. NothingMissedBy(s)'
      <4> SUFFICES ASSUME Active(s), NEW e \in Members(history), e.seq > since[s]
                   PROVE  e \in Members(Carried(s)') \union UnderWay(s)' \/ e.seq \in lost'[s]
        BY <1>1 DEF NothingMissedBy, Active, Members
      <4>1. e \in Members(Carried(s)) \union UnderWay(s) \/ e.seq \in lost[s]
        BY <2>1 DEF NothingMissedBy
      <4> QED
        BY <2>6, <2>8, <3>2, <4>1
    <3> QED
      BY <2>5, <3>3, <3>4 DEF StreamFits
  <2>9. CASE chan' = chan /\ ev.seq \in lost'[s] /\ lost[s] \subseteq lost'[s]
    <3>1. Carried(s)' = Carried(s)
      BY <1>1, <2>9 DEF Carried
    <3>2. CarriedFits(s)'
      <4>1. ASSUME NEW q \in Publishers, s \in sending'[q].to
            PROVE  MayFollow(Carried(s)', sending'[q].ev)
        BY <2>1, <2>7, <3>1, <4>1 DEF CarriedFits
      <4> QED
        BY <1>1, <2>3, <3>1, <4>1 DEF CarriedFits
    <3>3. NothingMissedBy(s)'
      <4> SUFFICES ASSUME Active(s), NEW e \in Members(history), e.seq > since[s]
                   PROVE  e \in Members(Carried(s)') \union UnderWay(s)' \/ e.seq \in lost'[s]
        BY <1>1 DEF NothingMissedBy, Active, Members
      <4>1. e \in Members(Carried(s)) \union UnderWay(s) \/ e.seq \in lost[s]
        BY <2>1 DEF NothingMissedBy
      <4> QED
        BY <2>6, <2>9, <3>1, <4>1
    <3> QED
      BY <2>5, <3>2, <3>3 DEF StreamFits
  <2> QED
    BY <1>8, <2>8, <2>9
<1> QED
  BY <1>10, <1>11, <1>12, <1>13 DEF DeliveryInv

\* A step of one stream's handler: publishers and the other streams go on.
LEMMA HandlerDelivers ==
  ASSUME DeliveryInv, NEW s \in Streams, UNCHANGED <<seq, history, closed, sending, lost>>,
         StreamTypes', StreamFits(s)', \A t \in Streams : t # s => Apart(t)
  PROVE  DeliveryInv'
<1>1. HistoryInv' /\ \A p \in Publishers : SenderFits(p)'
  BY DEF DeliveryInv, HistoryInv, HistoryUnbroken, SenderFits
<1>2. ASSUME NEW t \in Streams, t # s PROVE StreamFits(t)'
  BY <1>2, ApartFits DEF DeliveryInv
<1> QED
  BY <1>1, <1>2 DEF DeliveryInv

LEMMA SubscribeDelivers ==
  ASSUME DeliveryInv, NEW s \in Streams, Subscribe(s)
  PROVE  DeliveryInv'
<1>1. PICK n \in {0, LastSeen} : /\ since' = [since EXCEPT ![s] = n]
                                 /\ backlog' = [backlog EXCEPT ![s] = Newer(history, n)]
  BY DEF Subscribe
<1>2. /\ phase[s] = "unused" /\ phase' = [phase EXCEPT ![s] = "replaying"]
      /\ UNCHANGED <<seq, history, closed, chan, sending, written, lost>>
      /\ \/ closed /\ shut' = [shut EXCEPT ![s] = TRUE] /\ subs' = subs
         \/ ~ closed /\ subs' = subs \union {s} /\ shut' = shut
  BY DEF Subscribe
<1>3. HistoryInv /\ StreamTypes /\ SubscriptionFits(s)
  BY DEF DeliveryInv, StreamFits
<1>4. /\ Newer(history, n) \in Seq(Numbered)
      /\ InOrder(Newer(history, n)) /\ Upto(Newer(history, n), seq)
      /\ \A ev \in Members(history) : ev.seq > n => ev \in Members(Newer(history, n))
  BY <1>3, NewerIsRight
<1>5. /\ phase \in [Streams -> {"unused", "replaying", "live", "over"}]
      /\ backlog \in [Streams -> Seq(Numbered)] /\ DOMAIN since = Streams
      /\ subs \subseteq Streams /\ shut \in [Streams -> BOOLEAN]
  BY <1>3 DEF StreamTypes
<1>6. /\ phase'[s] = "replaying" /\ backlog'[s] = Newer(history, n) /\ since'[s] = n
      /\ \A t \in Streams : t # s =>
           phase'[t] = phase[t] /\ backlog'[t] = backlog[t] /\ since'[t] = since[t]
      /\ phase' \in [Streams -> {"unused", "replaying", "live", "over"}]
      /\ backlog' \in [Streams -> Seq(Numbered)] /\ DOMAIN since' = Streams
  BY <1>1, <1>2, <1>4, <1>5
<1>7. subs' \subseteq Streams /\ shut' \in [Streams -> BOOLEAN]
  BY <1>2, <1>5
<1>8. StreamTypes'
  BY <1>2, <1>3, <1>6, <1>7 DEF StreamTypes
<1>9. ASSUME NEW t \in Streams, t # s PROVE Apart(t)
  BY <1>2, <1>6, <1>9 DEF Apart
<1>10. written[s] = <<>> /\ chan[s] = <<>> /\ \A p \in Publishers : s \notin sending[p].to
  BY <1>2, <1>3 DEF SubscriptionFits
<1>11. Carried(s)' = Newer(history, n)
  <2>1. <<>> \o Newer(history, n) = Newer(history, n) /\ Newer(history, n) \o <<>> = Newer(history, n)
    BY <1>4, ConcatEmptySeq
  <2> QED
    BY <1>2, <1>6, <1>10, <2>1 DEF Carried
<1>12. SubscriptionFits(s)'
  BY <1>2, <1>6 DEF SubscriptionFits, Active
<1>13. CarriedFits(s)'
  BY <1>2, <1>4, <1>10, <1>11 DEF CarriedFits
<1>14. NothingMissedBy(s)'
  BY <1>2, <1>4, <1>6, <1>11 DEF NothingMissedBy
<1> QED
  BY <1>2, <1>8, <1>9, <1>12, <1>13, <1>14, HandlerDelivers DEF StreamFits

LEMMA CancelDelivers ==
  ASSUME DeliveryInv, NEW s \in Streams, Cancel(s)
  PROVE  DeliveryInv'
<1>1. /\ phase' = [phase EXCEPT ![s] = "over"] /\ subs' = subs \ {s}
      /\ shut' = [shut EXCEPT ![s] = @ \/ s \in subs]
      /\ chan' = [chan EXCEPT ![s] = <<>>] /\ backlog' = [backlog EXCEPT ![s] = <<>>]
      /\ UNCHANGED <<seq, history, closed, sending, written, since, lost>>
  BY DEF Cancel
<1>2. StreamTypes /\ CarriedFits(s)
  BY DEF DeliveryInv, StreamFits
<1>3. /\ phase \in [Streams -> {"unused", "replaying", "live", "over"}]
      /\ backlog \in [Streams -> Seq(Numbered)] /\ chan \in [Streams -> Seq(Numbered)]
      /\ subs \subseteq Streams /\ shut \in [Streams -> BOOLEAN]
      /\ <<>> \in Seq(Numbered)
  BY <1>2 DEF StreamTypes
<1>4. /\ phase'[s] = "over" /\ backlog'[s] = <<>> /\ chan'[s] = <<>> /\ s \notin subs'
      /\ \A t \in Streams : t # s =>
           phase'[t] = phase[t] /\ backlog'[t] = backlog[t] /\ chan'[t] = chan[t]
      /\ phase' \in [Streams -> {"unused", "replaying", "live", "over"}]
      /\ backlog' \in [Streams -> Seq(Numbered)] /\ chan' \in [Streams -> Seq(Numbered)]
  BY <1>1, <1>3
<1>5. subs' \subseteq Streams
  BY <1>1, <1>3
<1>6. shut' \in [Streams -> BOOLEAN]
  BY <1>1, <1>3
<1>7. StreamTypes'
  BY <1>1, <1>2, <1>4, <1>5, <1>6 DEF StreamTypes
<1>8. ASSUME NEW t \in Streams, t # s PROVE Apart(t)
  BY <1>1, <1>4, <1>8 DEF Apart
<1>9. /\ written[s] \in Seq(Numbered) /\ backlog[s] \o chan[s] \in Seq(Numbered)
      /\ Carried(s) = written[s] \o (backlog[s] \o chan[s])
  BY <1>2, CarriedParts
<1>10. Carried(s)' = written[s]
  <2>1. written[s] \o <<>> = written[s]
    BY <1>9, ConcatEmptySeq
  <2> QED
    BY <1>1, <1>4, <2>1 DEF Carried
<1>11. SubscriptionFits(s)'
  BY <1>4 DEF SubscriptionFits, Active
<1>12. CarriedFits(s)'
  <2>1. InOrder(written[s]) /\ Upto(written[s], seq)
    BY <1>2, <1>9, BeginningFits DEF CarriedFits
  <2>2. ASSUME NEW p \in Publishers, s \in sending[p].to
        PROVE  MayFollow(written[s], sending[p].ev)
    BY <1>2, <1>9, <2>2, BeginningFits DEF CarriedFits
  <2> QED
    BY <1>1, <1>10, <2>1, <2>2 DEF CarriedFits
<1>13. NothingMissedBy(s)'
  BY <1>4 DEF NothingMissedBy, Active
<1> QED
  BY <1>1, <1>7, <1>8, <1>11, <1>12, <1>13, HandlerDelivers DEF StreamFits

\* The handler moves an event on: what the stream carries stays the same.
LEMMA MovingDelivers ==
  ASSUME DeliveryInv, NEW s \in Streams, Replay(s) \/ Receive(s)
  PROVE  DeliveryInv'
<1>1. /\ Active(s) /\ UNCHANGED <<seq, history, subs, closed, shut, sending, since, lost>>
      /\ \/ backlog[s] = <<>> /\ phase' = [phase EXCEPT ![s] = "live"]
            /\ UNCHANGED <<backlog, written, chan>>
         \/ backlog[s] # <<>> /\ UNCHANGED <<phase, chan>> /\ phase[s] # "live"
            /\ written' = [written EXCEPT ![s] = Append(@, Head(backlog[s]))]
            /\ backlog' = [backlog EXCEPT ![s] = Tail(@)]
         \/ chan[s] # <<>> /\ UNCHANGED <<phase, backlog>> /\ phase[s] = "live"
            /\ written' = [written EXCEPT ![s] = Append(@, Head(chan[s]))]
            /\ chan' = [chan EXCEPT ![s] = Tail(@)]
  BY DEF Replay, Receive, Active, busVars
<1>2. StreamTypes /\ SubscriptionFits(s) /\ CarriedFits(s) /\ NothingMissedBy(s)
  BY DEF DeliveryInv, StreamFits
<1>3. /\ phase \in [Streams -> {"unused", "replaying", "live", "over"}]
      /\ backlog \in [Streams -> Seq(Numbered)] /\ chan \in [Streams -> Seq(Numbered)]
      /\ written \in [Streams -> Seq(Numbered)]
  BY <1>2 DEF StreamTypes
<1>4. written[s] \in Seq(Numbered) /\ backlog[s] \in Seq(Numbered) /\ chan[s] \in Seq(Numbered)
  BY <1>3
<1>5. /\ phase' \in [Streams -> {"unused", "replaying", "live", "over"}]
      /\ backlog' \in [Streams -> Seq(Numbered)] /\ chan' \in [Streams -> Seq(Numbered)]
      /\ written' \in [Streams -> Seq(Numbered)]
      /\ \A t \in Streams : t # s =>
           /\ phase'[t] = phase[t] /\ backlog'[t] = backlog[t]
           /\ chan'[t] = chan[t] /\ written'[t] = written[t]
      /\ Carried(s)' = Carried(s)
      /\ Active(s)' /\ (phase'[s] = "live" => backlog'[s] = <<>>)
  <2>1. CASE backlog[s] = <<>> /\ phase' = [phase EXCEPT ![s] = "live"]
             /\ UNCHANGED <<backlog, written, chan>>
    BY <1>3, <2>1 DEF Carried, Active
  <2>2. CASE backlog[s] # <<>> /\ UNCHANGED <<phase, chan>> /\ phase[s] # "live"
             /\ written' = [written EXCEPT ![s] = Append(@, Head(backlog[s]))]
             /\ backlog' = [backlog EXCEPT ![s] = Tail(@)]
    <3>1. /\ Append(written[s], Head(backlog[s])) \in Seq(Numbered)
          /\ Tail(backlog[s]) \in Seq(Numbered)
          /\ Append(written[s], Head(backlog[s])) \o Tail(backlog[s]) = written[s] \o backlog[s]
      BY <1>4, <2>2, HeadMoves
    <3>2. /\ written' \in [Streams -> Seq(Numbered)] /\ backlog' \in [Streams -> Seq(Numbered)]
          /\ written'[s] = Append(written[s], Head(backlog[s])) /\ backlog'[s] = Tail(backlog[s])
          /\ \A t \in Streams : t # s => backlog'[t] = backlog[t] /\ written'[t] = written[t]
      BY <1>3, <2>2, <3>1
    <3>3. Carried(s)' = Carried(s)
      BY <2>2, <3>1, <3>2 DEF Carried
    <3> QED
      BY <1>1, <1>3, <2>2, <3>2, <3>3 DEF Active
  <2>3. CASE chan[s] # <<>> /\ UNCHANGED <<phase, backlog>> /\ phase[s] = "live"
             /\ written' = [written EXCEPT ![s] = Append(@, Head(chan[s]))]
             /\ chan' = [chan EXCEPT ![s] = Tail(@)]
    <3>1. /\ Append(written[s], Head(chan[s])) \in Seq(Numbered) /\ Tail(chan[s]) \in Seq(Numbered)
          /\ Append(written[s], Head(chan[s])) \o Tail(chan[s]) = written[s] \o chan[s]
      <4>1. chan[s] \in Seq(Numbered) /\ written[s] \in Seq(Numbered) /\ chan[s] # <<>>
        BY <1>4, <2>3
      <4> QED
        BY <4>1, HeadMoves
    <3>2. /\ written' \in [Streams -> Seq(Numbered)] /\ chan' \in [Streams -> Seq(Numbered)]
          /\ written'[s] = Append(written[s], Head(chan[s])) /\ chan'[s] = Tail(chan[s])
          /\ \A t \in Streams : t # s => chan'[t] = chan[t] /\ written'[t] = written[t]
      BY <1>3, <2>3, <3>1
    <3>3. backlog[s] = <<>> /\ backlog'[s] = <<>>
      BY <1>2, <2>3 DEF SubscriptionFits
    <3>4. /\ written[s] \o <<>> = written[s]
          /\ Append(written[s], Head(chan[s])) \o <<>> = Append(written[s], Head(chan[s]))
      BY <1>4, <3>1, ConcatEmptySeq
    <3>5. Carried(s)' = Carried(s)
      BY <3>1, <3>2, <3>3, <3>4 DEF Carried
    <3> QED
      BY <1>1, <1>3, <2>3, <3>2, <3>3, <3>5 DEF Active
  <2> QED
    BY <1>1, <2>1, <2>2, <2>3
<1>6. StreamTypes'
  BY <1>1, <1>2, <1>5 DEF StreamTypes
<1>7. ASSUME NEW t \in Streams, t # s PROVE Apart(t)
  BY <1>1, <1>5, <1>7 DEF Apart
<1>8. SubscriptionFits(s)'
  BY <1>1, <1>2, <1>5 DEF SubscriptionFits, Active
<1>9. CarriedFits(s)'
  BY <1>1, <1>2, <1>5 DEF CarriedFits
<1>10. NothingMissedBy(s)'
  BY <1>1, <1>2, <1>5 DEF NothingMissedBy, UnderWay
<1> QED
  BY <1>1, <1>6, <1>7, <1>8, <1>9, <1>10, HandlerDelivers DEF StreamFits

LEMMA CloseDelivers ==
  ASSUME DeliveryInv, Close
  PROVE  DeliveryInv'
<1>1. /\ closed' = TRUE /\ subs' = {} /\ shut' = [s \in Streams |-> shut[s] \/ s \in subs]
      /\ UNCHANGED <<seq, history, chan, sending, phase, backlog, written, since, lost>>
  BY DEF Close, pageVars
<1>2. HistoryInv' /\ \A p \in Publishers : SenderFits(p)'
  BY <1>1 DEF DeliveryInv, HistoryInv, HistoryUnbroken, SenderFits
<1>3. shut' \in [Streams -> BOOLEAN]
  BY <1>1 DEF DeliveryInv, StreamTypes
<1>4. StreamTypes'
  BY <1>1, <1>3 DEF DeliveryInv, StreamTypes
<1>5. ASSUME NEW s \in Streams PROVE StreamFits(s)'
  <2>1. SubscriptionFits(s) /\ CarriedFits(s) /\ NothingMissedBy(s)
    BY DEF DeliveryInv, StreamFits
  <2>2. Carried(s)' = Carried(s) /\ UnderWay(s)' = UnderWay(s)
    BY <1>1 DEF Carried, UnderWay
  <2>3. SubscriptionFits(s)'
    BY <1>1, <2>1 DEF SubscriptionFits, Active
  <2>4. CarriedFits(s)'
    BY <1>1, <2>1, <2>2 DEF CarriedFits
  <2>5. NothingMissedBy(s)'
    BY <1>1, <2>1, <2>2 DEF NothingMissedBy, Active
  <2> QED
    BY <2>3, <2>4, <2>5 DEF StreamFits
<1> QED
  BY <1>2, <1>4, <1>5 DEF DeliveryInv

-----------------------------------------------------------------------------
\* What is carried in order, and nothing of it under way, is delivered right.
LEMMA DeliveryFollows == DeliveryInv => DeliveryRight
<1> SUFFICES ASSUME DeliveryInv PROVE DeliveryRight
  OBVIOUS
<1>1. StreamTypes /\ HistoryUnbroken
  BY DEF DeliveryInv, HistoryInv
<1>2. ASSUME NEW s \in Streams
      PROVE  /\ \A j, k \in DOMAIN Carried(s) : Carried(s)[j] = Carried(s)[k] => j = k
             /\ UnderWay(s) \intersect Members(Carried(s)) = {}
             /\ \A j, k \in DOMAIN written[s] :
                  j < k /\ written[s][j].from = written[s][k].from
                    => written[s][j].seq < written[s][k].seq
  <2>1. CarriedFits(s) /\ Carried(s) \in Seq(Numbered)
        /\ written[s] \in Seq(Numbered) /\ backlog[s] \o chan[s] \in Seq(Numbered)
        /\ Carried(s) = written[s] \o (backlog[s] \o chan[s])
    BY <1>1, CarriedParts DEF DeliveryInv, StreamFits
  <2>2. \A j, k \in DOMAIN Carried(s) : Carried(s)[j] = Carried(s)[k] => j = k
    <3> SUFFICES ASSUME NEW j \in DOMAIN Carried(s), NEW k \in DOMAIN Carried(s),
                        Carried(s)[j] = Carried(s)[k], j # k
                 PROVE  FALSE
      OBVIOUS
    <3>1. InOrder(Carried(s)) /\ j \in Nat /\ k \in Nat
      BY <2>1 DEF CarriedFits
    <3>2. CASE j < k
      BY <3>1, <3>2 DEF InOrder
    <3>3. CASE k < j
      BY <3>1, <3>3 DEF InOrder
    <3> QED
      BY <3>1, <3>2, <3>3
  <2>3. UnderWay(s) \intersect Members(Carried(s)) = {}
    <3> SUFFICES ASSUME NEW p \in Publishers, s \in sending[p].to,
                        NEW k \in DOMAIN Carried(s), sending[p].ev = Carried(s)[k]
                 PROVE  FALSE
      BY DEF UnderWay, Members
    <3> QED
      BY <2>1 DEF CarriedFits, MayFollow
  <2>4. InOrder(written[s])
    BY <2>1, BeginningFits DEF CarriedFits
  <2> QED
    BY <2>2, <2>3, <2>4 DEF InOrder
<1>3. NothingMissed
  BY DEF DeliveryInv, StreamFits, NothingMissedBy, NothingMissed, Active
<1> QED
  BY <1>1, <1>2, <1>3 DEF DeliveryRight, NoEventTwice, PublisherOrderKept

LEMMA DeliveryInvHolds == Init => DeliveryInv
<1> SUFFICES ASSUME Init PROVE DeliveryInv
  OBVIOUS
<1>1. HistoryInv /\ StreamTypes
  BY HistoryInvHolds DEF Init, StreamTypes
<1>2. ASSUME NEW p \in Publishers PROVE SenderFits(p)
  BY DEF Init, SenderFits
<1>3. ASSUME NEW s \in Streams PROVE StreamFits(s)
  <2>1. Carried(s) = <<>>
    <3>1. <<>> \o <<>> = <<>>
      BY EmptySeq, ConcatEmptySeq
    <3> QED
      BY <3>1 DEF Carried, Init
  <2> QED
    BY <2>1 DEF Init, StreamFits, SubscriptionFits, CarriedFits, NothingMissedBy, Active, InOrder,
                Upto, MayFollow
<1> QED
  BY <1>1, <1>2, <1>3 DEF DeliveryInv

LEMMA DeliveryInvKept == DeliveryInv /\ [Next]_vars => DeliveryInv'
<1> SUFFICES ASSUME DeliveryInv, [Next]_vars PROVE DeliveryInv'
  OBVIOUS
<1>1. ASSUME UNCHANGED vars PROVE DeliveryInv'
  <2>1. /\ HistoryInv' /\ StreamTypes'
        /\ \A p \in Publishers : SenderFits(p)'
    BY <1>1 DEF vars, busVars, pageVars, DeliveryInv, HistoryInv, HistoryUnbroken, StreamTypes,
                SenderFits
  <2>2. ASSUME NEW s \in Streams PROVE StreamFits(s)'
    <3>1. Apart(s)
      BY <1>1 DEF vars, busVars, pageVars, Apart
    <3> QED
      BY <3>1, ApartFits DEF DeliveryInv
  <2> QED
    BY <2>1, <2>2 DEF DeliveryInv
<1>2. ASSUME NEW p \in Publishers, Publishing(p) PROVE DeliveryInv'
  BY <1>2, StampDelivers DEF Publishing
<1>3. ASSUME NEW p \in Publishers, Sending(p) PROVE DeliveryInv'
  BY <1>3, SendDelivers DEF Sending
<1>4. ASSUME NEW s \in Streams, Subscribe(s) \/ Disconnect(s) \/ Handling(s) PROVE DeliveryInv'
  BY <1>4, SubscribeDelivers, CancelDelivers, MovingDelivers DEF Disconnect, Handling, Ended
<1> QED
  BY <1>1, <1>2, <1>3, <1>4, CloseDelivers DEF Next, Rest

\* What a page is given is right: between the backlog and the channel no event
\* comes twice and none is missed that was not lost to a full channel, and what
\* one goroutine publishes arrives in order, whatever publishers, Subscribe, a
\* page that leaves and Close do between Publish's two halves (bus.go).
THEOREM DeliveryIsRight == Spec => []DeliveryRight
<1> QED
  BY DeliveryInvHolds, DeliveryInvKept, DeliveryFollows, PTL DEF Spec

-----------------------------------------------------------------------------
(* What the pages compute. *)

-----------------------------------------------------------------------------
(* Sums. *)

\* One of a set, the same each time: the order of Go's map iteration.
Some(s) == CHOOSE x \in s : TRUE

\* h gives the sum of g over any subset of S.
Sums(h, g, S) ==
  h = [s \in SUBSET S |-> IF s = {} THEN 0 ELSE g[Some(s)] + h[s \ {Some(s)}]]

\* SumOf is such a sum.
LEMMA SumOfIsSum ==
  ASSUME NEW counts, NEW field
  PROVE  SumOf(counts, field) =
           (CHOOSE h : h = [s \in SUBSET DOMAIN counts |->
              IF s = {} THEN 0 ELSE counts[Some(s)][field] + h[s \ {Some(s)}]])[DOMAIN counts]
BY DEF SumOf, FoldFunction, FoldFunctionOnSet, MapThenFoldSet, Some

\* There is one over any finite set.
LEMMA SumsExist ==
  ASSUME NEW S, IsFiniteSet(S), NEW g \in [S -> Nat]
  PROVE  \E h \in [SUBSET S -> Nat] : Sums(h, g, S)
<1> DEFINE Small(n) == {s \in SUBSET S : Cardinality(s) <= n}
           SumsUpTo(n) == \E h \in [Small(n) -> Nat] : \A s \in Small(n) :
                        h[s] = IF s = {} THEN 0 ELSE g[Some(s)] + h[s \ {Some(s)}]
           T == {n \in Nat : ~ SumsUpTo(n)}
<1>1. \A s \in SUBSET S : IsFiniteSet(s) /\ Cardinality(s) \in Nat /\ Cardinality(s) <= Cardinality(S)
  BY FS_Subset, FS_CardinalityType
<1>2. \A s \in SUBSET S : s # {} =>
        /\ Some(s) \in s /\ s \ {Some(s)} \in SUBSET S
        /\ Cardinality(s \ {Some(s)}) = Cardinality(s) - 1
  <2> SUFFICES ASSUME NEW s \in SUBSET S, s # {}
               PROVE  /\ Some(s) \in s /\ s \ {Some(s)} \in SUBSET S
                      /\ Cardinality(s \ {Some(s)}) = Cardinality(s) - 1
    OBVIOUS
  <2>1. Some(s) \in s
    BY DEF Some
  <2> QED
    BY <1>1, <2>1, FS_RemoveElement
<1>3. T = {}
  <2> SUFFICES ASSUME T # {} PROVE FALSE
    OBVIOUS
  <2>1. PICK n \in T : \A m \in T : n <= m
    <3>1. T \subseteq Nat
      OBVIOUS
    <3> HIDE DEF T
    <3> QED
      BY <3>1, LeastNumber
  <2>2. CASE n = 0
    <3>1. Small(0) = {{}}
      <4>1. \A s \in SUBSET S : Cardinality(s) <= 0 => s = {}
        BY <1>1, FS_EmptySet
      <4>2. {} \in SUBSET S /\ Cardinality({}) <= 0
        BY FS_EmptySet
      <4> QED
        BY <4>1, <4>2
    <3>2. [s \in Small(0) |-> 0] \in [Small(0) -> Nat]
      OBVIOUS
    <3>3. SumsUpTo(0)
      BY <3>1, <3>2
    <3> QED
      BY <2>1, <2>2, <3>3
  <2>3. CASE n # 0
    <3>1. n - 1 \in Nat /\ SumsUpTo(n - 1)
      <4>1. n \in Nat /\ n - 1 \in Nat /\ ~ (n <= n - 1)
        BY <2>1, <2>3
      <4> HIDE DEF SumsUpTo
      <4> QED
        BY <2>1, <4>1
    <3>2. PICK h \in [Small(n - 1) -> Nat] : \A s \in Small(n - 1) :
            h[s] = IF s = {} THEN 0 ELSE g[Some(s)] + h[s \ {Some(s)}]
      BY <3>1
    <3> DEFINE f == [s \in Small(n) |-> IF s = {} THEN 0 ELSE g[Some(s)] + h[s \ {Some(s)}]]
    <3>3. \A s \in Small(n) : s # {} => s \ {Some(s)} \in Small(n - 1) /\ g[Some(s)] \in Nat
      BY <1>1, <1>2, <2>1, <3>1
    <3>4. f \in [Small(n) -> Nat]
      BY <3>2, <3>3
    <3>5. \A s \in Small(n - 1) : s \in Small(n) /\ f[s] = h[s]
      BY <1>1, <2>1, <3>1, <3>2
    <3>6. \A s \in Small(n) : f[s] = IF s = {} THEN 0 ELSE g[Some(s)] + f[s \ {Some(s)}]
      BY <3>3, <3>5
    <3>7. SumsUpTo(n)
      <4> HIDE DEF f, Small
      <4> QED
        BY <3>4, <3>6
    <3> QED
      BY <2>1, <3>7
  <2> QED
    BY <2>2, <2>3
<1>4. Cardinality(S) \in Nat /\ Small(Cardinality(S)) = SUBSET S
  BY <1>1
<1>5. PICK h \in [SUBSET S -> Nat] : \A s \in SUBSET S :
        h[s] = IF s = {} THEN 0 ELSE g[Some(s)] + h[s \ {Some(s)}]
  <2>1. SumsUpTo(Cardinality(S))
    BY <1>3, <1>4
  <2> HIDE DEF Small
  <2> QED
    BY <1>4, <2>1
<1>6. Sums(h, g, S)
  BY <1>5 DEF Sums
<1> QED
  BY <1>6

\* Any such sum is a number, and 0 over nothing.
LEMMA SumsAreNumbers ==
  ASSUME NEW S, IsFiniteSet(S), NEW g \in [S -> Nat], NEW h, Sums(h, g, S)
  PROVE  h[S] \in Nat
<1>1. PICK f \in [SUBSET S -> Nat] : Sums(f, g, S)
  BY SumsExist
<1> DEFINE T == {n \in Nat : \E s \in SUBSET S : Cardinality(s) = n /\ h[s] # f[s]}
<1>2. \A s \in SUBSET S : IsFiniteSet(s) /\ Cardinality(s) \in Nat
  BY FS_Subset, FS_CardinalityType
<1>3. ASSUME NEW s \in SUBSET S, s # {}
      PROVE  Some(s) \in s /\ s \ {Some(s)} \in SUBSET S /\ Cardinality(s \ {Some(s)}) = Cardinality(s) - 1
  <2>1. Some(s) \in s
    BY <1>3 DEF Some
  <2> QED
    BY <1>2, <2>1, FS_RemoveElement
<1>4. T = {}
  <2> SUFFICES ASSUME T # {} PROVE FALSE
    OBVIOUS
  <2>1. PICK n \in T : \A m \in T : n <= m
    <3>1. T \subseteq Nat
      OBVIOUS
    <3> HIDE DEF T
    <3> QED
      BY <3>1, LeastNumber
  <2>2. PICK s \in SUBSET S : Cardinality(s) = n /\ h[s] # f[s]
    BY <2>1
  <2>3. s # {} /\ h[s \ {Some(s)}] # f[s \ {Some(s)}]
    <3>1. /\ h[s] = IF s = {} THEN 0 ELSE g[Some(s)] + h[s \ {Some(s)}]
          /\ f[s] = IF s = {} THEN 0 ELSE g[Some(s)] + f[s \ {Some(s)}]
      BY <1>1 DEF Sums
    <3> QED
      BY <2>2, <3>1
  <2>4. s \ {Some(s)} \in SUBSET S /\ Cardinality(s \ {Some(s)}) = n - 1 /\ n \in Nat
    BY <1>2, <1>3, <2>2, <2>3
  <2>5. n - 1 \in T
    BY <1>2, <2>3, <2>4
  <2> QED
    BY <2>1, <2>4, <2>5
<1>5. h[S] = f[S]
  BY <1>2, <1>4
<1> QED
  BY <1>1, <1>5

\* The sum of a field over the layers.
LEMMA SumOfFacts ==
  ASSUME IsFiniteSet(Layers), NEW counts \in [Layers -> [current : Nat, total : Nat]]
  PROVE  /\ SumOf(counts, "current") \in Nat /\ SumOf(counts, "total") \in Nat
         /\ (\A l \in Layers : counts[l].current = counts[l].total) =>
              SumOf(counts, "current") = SumOf(counts, "total")
<1> DEFINE Body(h, field) == [s \in SUBSET Layers |->
                                IF s = {} THEN 0 ELSE counts[Some(s)][field] + h[s \ {Some(s)}]]
           H(field) == CHOOSE h : h = Body(h, field)
<1>1. \A field : SumOf(counts, field) = H(field)[Layers]
  BY SumOfIsSum
<1>2. ASSUME NEW field \in {"current", "total"}
      PROVE  H(field)[Layers] \in Nat
  <2> DEFINE g == [l \in Layers |-> counts[l][field]]
  <2>1. g \in [Layers -> Nat]
    BY <1>2
  <2>2. \A s \in SUBSET Layers : s # {} => g[Some(s)] = counts[Some(s)][field]
    BY DEF Some
  <2>3. \A h : h = Body(h, field) <=> Sums(h, g, Layers)
    <3> SUFFICES ASSUME NEW h
                 PROVE  Body(h, field) = [s \in SUBSET Layers |->
                           IF s = {} THEN 0 ELSE g[Some(s)] + h[s \ {Some(s)}]]
      BY DEF Sums
    <3> HIDE DEF g
    <3> QED
      BY <2>2
  <2> HIDE DEF g, Body
  <2>4. \E h : h = Body(h, field)
    BY <2>1, <2>3, SumsExist
  <2>5. H(field) = Body(H(field), field)
    BY <2>4
  <2>6. Sums(H(field), g, Layers)
    BY <2>3, <2>5
  <2> QED
    BY <2>1, <2>6, SumsAreNumbers
<1>3. ASSUME \A l \in Layers : counts[l].current = counts[l].total
      PROVE  H("current") = H("total")
  <2>1. \A s \in SUBSET Layers : s # {} => counts[Some(s)]["current"] = counts[Some(s)]["total"]
    BY <1>3 DEF Some
  <2>2. \A h : Body(h, "current") = Body(h, "total")
    BY <2>1
  <2> HIDE DEF Body
  <2> QED
    BY <2>2, Zenon
<1> QED
  BY <1>1, <1>2, <1>3

-----------------------------------------------------------------------------
(* A pull. *)

Bytes == [current : Nat, total : Nat]
Pulls == [download : [Layers -> Bytes], extract : [Layers -> Bytes], done : SUBSET Layers,
          phase : {"none", "downloading", "extracting"}]

\* A layer is done when the last message about it came, and its bytes are all
\* there then.
LayerFits(l) ==
  /\ heard[l] <= Len(sample.script[l])
  /\ l \in pull.done <=> heard[l] = Len(sample.script[l])
  /\ l \in pull.done => /\ pull.download[l].current = pull.download[l].total
                        /\ pull.extract[l].current = pull.extract[l].total

PullFits ==
  sample.kind = "pull" =>
    /\ pull \in Pulls /\ heard \in [Layers -> Nat]
    /\ \A l \in Layers : LayerFits(l)

\* What a sample is, by its kind.
LEMMA KindsFit ==
  ASSUME sample \in Samples
  PROVE  /\ sample.kind = "runs" => sample.a \in RunRecords /\ sample.b \in RunRecords
         /\ sample.kind = "sweep" => sample.columns \in [Columns -> Variants]
         /\ sample.kind = "case" => sample.cast \in Casts /\ sample.steps \in UpTo(CaseSteps, MaxSteps)
         /\ sample.kind = "waits" => sample.edges \in Edges
         /\ sample.kind = "pull" => sample.script \in [Layers -> Scripts] /\ sample.size \in [Layers -> Sizes]
<1>1. \A s \in LockSamples : s.kind = "lock"
  BY DEF LockSamples
<1> QED
  BY <1>1 DEF Samples

\* The last message about a layer completes it, and none before does.
LEMMA ScriptsEnd ==
  ASSUME NEW s \in Scripts
  PROVE  /\ Len(s) \in Nat /\ Len(s) > 0
         /\ \A i \in 1..Len(s) : IF i = Len(s) THEN s[i] \in {"Pull complete", "Already exists"}
                                 ELSE s[i] \in {"Downloading", "Extracting", "Download complete"}
<1> DEFINE A == <<"Downloading", "Downloading", "Download complete", "Extracting", "Pull complete">>
           B == <<"Already exists">>
<1>1. s = A \/ s = B
  BY DEF Scripts
<1>2. Len(A) = 5 /\ A[1] = "Downloading" /\ A[2] = "Downloading" /\ A[3] = "Download complete"
      /\ A[4] = "Extracting" /\ A[5] = "Pull complete"
  OBVIOUS
<1>3. Len(B) = 1 /\ B[1] = "Already exists"
  OBVIOUS
<1>4. 1..5 = {1, 2, 3, 4, 5} /\ 1..1 = {1}
  OBVIOUS
<1> HIDE DEF A, B
<1>5. CASE s = A
  <2>1. ASSUME NEW i \in 1..5
        PROVE  IF i = 5 THEN A[i] \in {"Pull complete", "Already exists"}
               ELSE A[i] \in {"Downloading", "Extracting", "Download complete"}
    <3>1. i = 1 \/ i = 2 \/ i = 3 \/ i = 4 \/ i = 5
      OBVIOUS
    <3> QED
      BY <1>2, <3>1
  <2>2. Len(s) = 5
    BY <1>2, <1>5
  <2>3. Len(s) \in Nat /\ Len(s) > 0
    BY <2>2
  <2>4. ASSUME NEW i \in 1..Len(s)
        PROVE  IF i = Len(s) THEN s[i] \in {"Pull complete", "Already exists"}
               ELSE s[i] \in {"Downloading", "Extracting", "Download complete"}
    BY <1>5, <2>1, <2>2
  <2> QED
    BY <2>3, <2>4
<1>6. CASE s = B
  <2>1. Len(s) = 1
    BY <1>3, <1>6
  <2>2. s[1] \in {"Pull complete", "Already exists"}
    BY <1>3, <1>6
  <2>3. Len(s) \in Nat /\ Len(s) > 0 /\ \A i \in 1..Len(s) : i = Len(s) /\ i = 1
    BY <2>1
  <2>4. ASSUME NEW i \in 1..Len(s) PROVE i = Len(s) /\ s[i] \in {"Pull complete", "Already exists"}
    BY <2>2, <2>3
  <2> QED
    BY <2>3, <2>4
<1> QED
  BY <1>1, <1>5, <1>6

\* Bytes that are all there.
LEMMA FullFacts ==
  ASSUME NEW bytes \in Bytes
  PROVE  Full(bytes) \in Bytes /\ Full(bytes).current = Full(bytes).total
BY DEF Bytes, Full

\* A message about a layer keeps the figures in order, the others' too.
LEMMA PullStep ==
  ASSUME ViewsAssumption, sample \in Samples, PullFits, NEW l \in Layers, Hear(l)
  PROVE  PullFits'
<1>1. /\ sample.kind = "pull" /\ heard[l] < Len(sample.script[l])
      /\ heard' = [heard EXCEPT ![l] = @ + 1] /\ sample' = sample
      /\ pull \in Pulls /\ heard \in [Layers -> Nat] /\ \A m \in Layers : LayerFits(m)
  BY DEF Hear, PullFits
<1> DEFINE i == heard[l] + 1
           script == sample.script[l]
           size == sample.size[l]
<1>2. script \in Scripts /\ size \in Nat
  BY <1>1, KindsFit DEF ViewsAssumption
<1>3. PICK current \in Nat : pull' = Record(pull, l, script[i], current, size)
  BY <1>1, <1>2 DEF Hear
<1>4. Len(script) \in Nat /\ heard[l] < Len(script) /\ heard[l] \in Nat
  BY <1>1, <1>2, ScriptsEnd
<1> HIDE DEF script, size
<1>5. i \in 1..Len(script)
  BY <1>4
<1>6. IF i = Len(script) THEN script[i] \in {"Pull complete", "Already exists"}
      ELSE script[i] \in {"Downloading", "Extracting", "Download complete"}
  <2>1. i \in 1..Len(script)
    BY <1>5
  <2> HIDE DEF i
  <2> QED
    BY <1>2, <2>1, ScriptsEnd
<1>7. heard' \in [Layers -> Nat] /\ heard'[l] = i /\ \A m \in Layers \ {l} : heard'[m] = heard[m]
  BY <1>1
<1> HIDE DEF i
<1>8. CASE i = Len(script)
  <2>1. pull' = Complete(pull, l)
    BY <1>3, <1>6, <1>8 DEF Record
  <2>2. /\ pull' \in Pulls /\ pull'.done = pull.done \union {l}
        /\ pull'.download = [pull.download EXCEPT ![l] = Full(@)]
        /\ pull'.extract = [pull.extract EXCEPT ![l] = Full(@)]
    <3>1. Full(pull.download[l]) \in Bytes /\ Full(pull.extract[l]) \in Bytes
      BY <1>1, FullFacts DEF Pulls
    <3> QED
      BY <1>1, <2>1, <3>1 DEF Complete, Pulls
  <2>3. LayerFits(l)'
    <3>1. /\ pull'.download[l].current = pull'.download[l].total
          /\ pull'.extract[l].current = pull'.extract[l].total
      BY <1>1, <2>2, FullFacts DEF Pulls
    <3> QED
      BY <1>1, <1>4, <1>7, <1>8, <2>2, <3>1 DEF LayerFits, script
  <2>4. ASSUME NEW m \in Layers, m # l PROVE LayerFits(m)'
    <3>1. /\ m \in pull'.done <=> m \in pull.done
          /\ pull'.download[m] = pull.download[m] /\ pull'.extract[m] = pull.extract[m]
      BY <1>1, <2>2, <2>4 DEF Pulls
    <3> QED
      BY <1>1, <1>7, <2>4, <3>1 DEF LayerFits
  <2> QED
    BY <1>7, <2>2, <2>3, <2>4 DEF PullFits
<1>9. CASE i # Len(script)
  <2> DEFINE New == [current |-> current, total |-> size]
  <2>1. New \in Bytes
    BY <1>2 DEF Bytes
  <2>2. /\ pull' \in Pulls /\ pull'.done = pull.done
        /\ \A m \in Layers \ {l} : pull'.download[m] = pull.download[m] /\ pull'.extract[m] = pull.extract[m]
    <3>1. CASE script[i] = "Downloading"
      BY <1>1, <1>3, <2>1, <3>1 DEF Record, Pulls
    <3>2. CASE script[i] = "Extracting"
      BY <1>1, <1>3, <2>1, <3>2 DEF Record, Pulls
    <3>3. CASE script[i] = "Download complete"
      <4>1. Full(pull.download[l]) \in Bytes
        BY <1>1, FullFacts DEF Pulls
      <4> QED
        BY <1>1, <1>3, <3>3, <4>1 DEF Record, Pulls
    <3> QED
      BY <1>6, <1>9, <3>1, <3>2, <3>3
  <2>3. LayerFits(l)'
    <3>1. l \notin pull.done
      BY <1>1, <1>4 DEF LayerFits, script
    <3>2. heard'[l] <= Len(script) /\ heard'[l] # Len(script)
      <4>1. i <= Len(script) /\ i # Len(script)
        BY <1>4, <1>5, <1>9
      <4> QED
        BY <1>7, <4>1
    <3> QED
      BY <1>1, <2>2, <3>1, <3>2 DEF LayerFits, script
  <2>4. ASSUME NEW m \in Layers, m # l PROVE LayerFits(m)'
    BY <1>1, <1>7, <2>2, <2>4 DEF LayerFits
  <2> QED
    BY <1>7, <2>2, <2>3, <2>4 DEF PullFits
<1> QED
  BY <1>8, <1>9

\* A quotient of naturals.
LEMMA Quotients ==
  ASSUME NEW n \in Nat, NEW d \in Nat, d > 0
  PROVE  (n * 100) \div d \in Nat /\ (n = d => (n * 100) \div d = 100)
OBVIOUS

\* Hence PullAddsUp.
LEMMA PullRight ==
  ASSUME ViewsAssumption, PullFits
  PROVE  PullAddsUp
<1> SUFFICES ASSUME sample.kind = "pull", Total(pull) > 0
             PROVE  Percent(pull) \in 0..100 /\ (pull.done = Layers => Percent(pull) = 100)
  BY DEF PullAddsUp
<1> DEFINE counts == Counts(pull)
           C == SumOf(counts, "current")
           T == SumOf(counts, "total")
<1>1. counts \in [Layers -> [current : Nat, total : Nat]]
  BY DEF PullFits, Pulls, Bytes, Counts
<1>2. pull.done = Layers => \A l \in Layers : counts[l].current = counts[l].total
  BY DEF PullFits, LayerFits, Counts
<1>3. C \in Nat /\ T \in Nat /\ (pull.done = Layers => C = T)
  <2> HIDE DEF counts
  <2> QED
    BY <1>1, <1>2, SumOfFacts DEF ViewsAssumption
<1>4. T > 0
  BY DEF Total
<1>5. Percent(pull) = IF (C * 100) \div T > 100 THEN 100 ELSE (C * 100) \div T
  BY DEF Percent, Total
<1> HIDE DEF C, T
<1> QED
  BY <1>3, <1>4, <1>5, Quotients

-----------------------------------------------------------------------------
(* Comparing runs, summing up sweeps. *)

\* A sequence of at most n elements.
LEMMA UpToFacts ==
  ASSUME NEW S, NEW n \in Nat, NEW s \in UpTo(S, n)
  PROVE  /\ s \in Seq(S) /\ Len(s) \in 0..n /\ DOMAIN s = 1..Len(s)
         /\ \A i \in 1..Len(s) : s[i] \in S
<1>1. PICK k \in 0..n : s \in [1..k -> S]
  BY DEF UpTo
<1>2. Len(s) = k /\ s \in Seq(S)
  BY <1>1
<1> QED
  BY <1>1, <1>2

\* It does not matter which of two steps comes first, and a step does not differ
\* from itself.
LEMMA StepDiffsFair ==
  ASSUME NEW a, NEW b
  PROVE  /\ StepDiffs(a, b) = StepDiffs(b, a)
         /\ StepDiffs(a, a) = {}
         /\ a # NoStep => StepDiffs(a, NoStep) # {} /\ StepDiffs(NoStep, a) # {}
<1>1. StepDiffs(a, b) = StepDiffs(b, a)
  BY DEF StepDiffs
<1>2. StepDiffs(a, a) = {}
  BY DEF StepDiffs
<1>3. a # NoStep => StepDiffs(a, NoStep) # {} /\ StepDiffs(NoStep, a) # {}
  BY DEF StepDiffs
<1> QED
  BY <1>1, <1>2, <1>3

\* The same of two records.
LEMMA DiffFair ==
  ASSUME ViewsAssumption, NEW a \in RunRecords, NEW b \in RunRecords
  PROVE  /\ Diff(a, b).steps = Diff(b, a).steps /\ Diff(a, b).changed = Diff(b, a).changed
         /\ Diff(a, b).setup = Diff(b, a).setup
         /\ a = b => Diff(a, b).changed = 0
         /\ \A i \in (DOMAIN a.steps \union DOMAIN b.steps) \ (DOMAIN a.steps \intersect DOMAIN b.steps) :
              Diff(a, b).steps[i] # {}
<1>1. /\ Len(a.steps) \in Nat /\ DOMAIN a.steps = 1..Len(a.steps)
      /\ Len(b.steps) \in Nat /\ DOMAIN b.steps = 1..Len(b.steps)
      /\ \A i \in 1..Len(a.steps) : a.steps[i] \in RunSteps
      /\ \A i \in 1..Len(b.steps) : b.steps[i] \in RunSteps
  <2>1. a.steps \in UpTo(RunSteps, MaxOutcomes) /\ b.steps \in UpTo(RunSteps, MaxOutcomes)
    BY DEF RunRecords
  <2> QED
    BY <2>1, UpToFacts DEF ViewsAssumption
<1> DEFINE n == Aligned(a, b)
           diffs(x, y) == [i \in 1..Aligned(x, y) |-> StepDiffs(StepAt(x, i), StepAt(y, i))]
<1>2. /\ n \in Nat /\ n = Aligned(b, a)
      /\ Len(a.steps) <= n /\ Len(b.steps) <= n
  BY <1>1 DEF Aligned
<1>3. diffs(a, b) = diffs(b, a)
  BY <1>2, StepDiffsFair
<1>4. /\ Diff(a, b).steps = diffs(a, b)
      /\ Diff(a, b).changed = Cardinality({i \in DOMAIN diffs(a, b) : diffs(a, b)[i] # {}})
      /\ Diff(a, b).setup = (a.setup # b.setup)
  BY DEF Diff
<1>5. /\ Diff(b, a).steps = diffs(b, a)
      /\ Diff(b, a).changed = Cardinality({i \in DOMAIN diffs(b, a) : diffs(b, a)[i] # {}})
      /\ Diff(b, a).setup = (b.setup # a.setup)
  BY DEF Diff
<1>6. ASSUME a = b PROVE Diff(a, b).changed = 0
  <2>1. {i \in DOMAIN diffs(a, b) : diffs(a, b)[i] # {}} = {}
    BY <1>6, StepDiffsFair
  <2> QED
    BY <1>4, <2>1, FS_EmptySet
<1>7. ASSUME NEW i \in (DOMAIN a.steps \union DOMAIN b.steps) \ (DOMAIN a.steps \intersect DOMAIN b.steps)
      PROVE  Diff(a, b).steps[i] # {}
  <2>1. \A s \in RunSteps : s # NoStep
    BY DEF RunSteps, NoStep
  <2>2. i \in 1..n /\ diffs(a, b)[i] = StepDiffs(StepAt(a, i), StepAt(b, i))
    BY <1>1, <1>2
  <2>3. \/ StepAt(a, i) \in RunSteps /\ StepAt(b, i) = NoStep
        \/ StepAt(b, i) \in RunSteps /\ StepAt(a, i) = NoStep
    BY <1>1 DEF StepAt
  <2> HIDE DEF diffs
  <2> QED
    BY <1>4, <2>1, <2>2, <2>3, StepDiffsFair
<1> HIDE DEF diffs
<1> QED
  BY <1>3, <1>4, <1>5, <1>6, <1>7

\* Hence ComparisonFair.
LEMMA ComparisonIsFair ==
  ASSUME ViewsAssumption, sample \in Samples
  PROVE  ComparisonFair
BY KindsFit, DiffFair DEF ComparisonFair

\* Of a set with at most one element any two are the same.
LEMMA AtMostOne ==
  ASSUME NEW S, IsFiniteSet(S), ~ (Cardinality(S) > 1), NEW x \in S, NEW y \in S
  PROVE  x = y
<1> SUFFICES ASSUME x # y PROVE FALSE
  OBVIOUS
<1>1. IsFiniteSet(S \ {x}) /\ Cardinality(S \ {x}) = Cardinality(S) - 1 /\ Cardinality(S) \in Nat
  BY FS_RemoveElement, FS_CardinalityType
<1>2. Cardinality(S \ {x}) = 0
  BY <1>1, FS_CardinalityType
<1>3. S \ {x} = {}
  BY <1>1, <1>2, FS_EmptySet
<1> QED
  BY <1>3

\* An index that two short sequences have.
LEMMA WithinBoth ==
  ASSUME NEW m \in Nat, NEW a \in 0..m, NEW b \in 0..m, NEW i \in 1..a, i \in 1..b
  PROVE  i \in 1..m /\ i <= a /\ i <= b
OBVIOUS

\* Hence SummaryHonest: where no column differs, no two do.
LEMMA SummaryIsHonest ==
  ASSUME ViewsAssumption, sample \in Samples
  PROVE  SummaryHonest
<1> DEFINE columns == sample.columns
           ran == {c \in Columns : ~ columns[c].failed /\ columns[c].cells # <<>>}
           differing == {i \in 1..MaxOutcomes : Cardinality(Outcomes(columns, i)) > 1}
<1> SUFFICES ASSUME sample.kind = "sweep",
                    SummariseMatrix(MaxOutcomes, columns).says = "changes nothing"
             PROVE  /\ ran # {}
                    /\ \A c, d \in ran : \A i \in DOMAIN columns[c].cells \intersect DOMAIN columns[d].cells :
                         OutcomeOfCell(columns[c].cells[i]) = OutcomeOfCell(columns[d].cells[i])
  BY DEF SummaryHonest
<1>1. columns \in [Columns -> Variants]
  BY KindsFit
<1>2. \A c \in Columns : /\ columns[c].failed \in BOOLEAN
                         /\ DOMAIN columns[c].cells = 1..Len(columns[c].cells)
                         /\ Len(columns[c].cells) \in 0..MaxOutcomes
  <2> SUFFICES ASSUME NEW c \in Columns
               PROVE  /\ columns[c].failed \in BOOLEAN
                      /\ DOMAIN columns[c].cells = 1..Len(columns[c].cells)
                      /\ Len(columns[c].cells) \in 0..MaxOutcomes
    OBVIOUS
  <2>1. columns[c] \in Variants
    BY <1>1
  <2>2. columns[c].failed \in BOOLEAN /\ columns[c].cells \in UpTo(Cells, MaxOutcomes)
    BY <2>1 DEF Variants
  <2> QED
    BY <2>2, UpToFacts DEF ViewsAssumption
<1>3. differing = {} /\ {c \in DOMAIN columns : Failed(columns[c])} # DOMAIN columns
  <2> HIDE DEF columns
  <2> QED
    BY DEF SummariseMatrix
<1>4. ran # {}
  BY <1>1, <1>3 DEF Failed
<1>5. ASSUME NEW c \in ran, NEW d \in ran, NEW i \in DOMAIN columns[c].cells \intersect DOMAIN columns[d].cells
      PROVE  OutcomeOfCell(columns[c].cells[i]) = OutcomeOfCell(columns[d].cells[i])
  <2>1. i \in 1..MaxOutcomes /\ i <= Len(columns[c].cells) /\ i <= Len(columns[d].cells)
    <3>1. c \in Columns /\ d \in Columns
      OBVIOUS
    <3>2. i \in 1..Len(columns[c].cells) /\ i \in 1..Len(columns[d].cells)
      BY <1>2, <3>1
    <3>3. MaxOutcomes \in Nat /\ Len(columns[c].cells) \in 0..MaxOutcomes
          /\ Len(columns[d].cells) \in 0..MaxOutcomes
      BY <1>2, <3>1 DEF ViewsAssumption
    <3> HIDE DEF columns, ran
    <3> QED
      BY <3>2, <3>3, WithinBoth
  <2> DEFINE reached == {e \in DOMAIN columns : Reached(columns[e], i)}
  <2>2. Outcomes(columns, i) = {OutcomeOfCell(columns[e].cells[i]) : e \in reached}
    BY DEF Outcomes
  <2>3. c \in reached /\ d \in reached /\ reached \subseteq Columns
    BY <1>1, <2>1 DEF Reached
  <2>4. IsFiniteSet(Outcomes(columns, i))
    <3>1. IsFiniteSet(reached)
      BY <2>3, FS_Subset DEF ViewsAssumption
    <3> DEFINE f == [e \in reached |-> OutcomeOfCell(columns[e].cells[i])]
    <3>2. f \in Surjection(reached, Outcomes(columns, i))
      <4> HIDE DEF reached, columns
      <4> QED
        BY <2>2 DEF Surjection
    <3> HIDE DEF f, reached
    <3> QED
      BY <3>1, <3>2, FS_Surjection
  <2>5. ~ (Cardinality(Outcomes(columns, i)) > 1)
    BY <1>3, <2>1
  <2>6. /\ OutcomeOfCell(columns[c].cells[i]) \in Outcomes(columns, i)
        /\ OutcomeOfCell(columns[d].cells[i]) \in Outcomes(columns, i)
    BY <2>2, <2>3
  <2> HIDE DEF columns
  <2> QED
    BY <2>4, <2>5, <2>6, AtMostOne
<1> QED
  BY <1>4, <1>5

-----------------------------------------------------------------------------
(* Warnings about a scenario. *)

\* The loop knows who still waits, and has warned of whom it should.
LintFits ==
  sample.kind = "case" =>
    /\ lint.at \in 0..Len(sample.steps)
    /\ lint.warned = {i \in 1..lint.at : StillWaits(sample.steps, i - 1, sample.steps[i].actor)}
    /\ lint.blocked = {a \in Actors : StillWaits(sample.steps, lint.at, a)}

\* Who still waits when one more step has been looked at.
LEMMA StillWaitsNext ==
  ASSUME NEW steps, NEW n \in Nat, NEW a
  PROVE  StillWaits(steps, n + 1, a) <=>
           /\ ~ Releases(steps[n + 1])
           /\ IF steps[n + 1].actor = a THEN steps[n + 1].expect = "blocks"
              ELSE StillWaits(steps, n, a)
<1>1. ASSUME StillWaits(steps, n + 1, a)
      PROVE  /\ ~ Releases(steps[n + 1])
             /\ steps[n + 1].actor = a => steps[n + 1].expect = "blocks"
             /\ steps[n + 1].actor # a => StillWaits(steps, n, a)
  <2>1. PICK j \in 1..(n + 1) :
          /\ steps[j].actor = a /\ steps[j].expect = "blocks"
          /\ \A k \in (j + 1)..(n + 1) : steps[k].actor # a
          /\ \A k \in j..(n + 1) : ~ Releases(steps[k])
    BY <1>1 DEF StillWaits
  <2>2. ~ Releases(steps[n + 1])
    BY <2>1
  <2>3. steps[n + 1].actor = a => j = n + 1
    BY <2>1
  <2>4. ASSUME steps[n + 1].actor # a PROVE StillWaits(steps, n, a)
    <3>1. j \in 1..n
      BY <2>1, <2>4
    <3>2. \A k \in (j + 1)..n : k \in (j + 1)..(n + 1)
      BY <3>1
    <3>3. \A k \in j..n : k \in j..(n + 1)
      BY <3>1
    <3> QED
      BY <2>1, <3>1, <3>2, <3>3 DEF StillWaits
  <2> QED
    BY <2>1, <2>2, <2>3, <2>4
<1>2. ASSUME ~ Releases(steps[n + 1]), steps[n + 1].actor = a, steps[n + 1].expect = "blocks"
      PROVE  StillWaits(steps, n + 1, a)
  <2>1. n + 1 \in 1..(n + 1) /\ (n + 1 + 1)..(n + 1) = {} /\ \A k \in (n + 1)..(n + 1) : k = n + 1
    OBVIOUS
  <2> QED
    BY <1>2, <2>1 DEF StillWaits
<1>3. ASSUME ~ Releases(steps[n + 1]), steps[n + 1].actor # a, StillWaits(steps, n, a)
      PROVE  StillWaits(steps, n + 1, a)
  <2>1. PICK j \in 1..n :
          /\ steps[j].actor = a /\ steps[j].expect = "blocks"
          /\ \A k \in (j + 1)..n : steps[k].actor # a
          /\ \A k \in j..n : ~ Releases(steps[k])
    BY <1>3 DEF StillWaits
  <2>2. /\ j \in 1..(n + 1)
        /\ \A k \in (j + 1)..(n + 1) : k \in (j + 1)..n \/ k = n + 1
        /\ \A k \in j..(n + 1) : k \in j..n \/ k = n + 1
    OBVIOUS
  <2> QED
    BY <1>3, <2>1, <2>2 DEF StillWaits
<1> QED
  BY <1>1, <1>2, <1>3

\* One more step: what lintCase remembers is who waits still.
LEMMA LintKeepsFit ==
  ASSUME ViewsAssumption, sample \in Samples, LintFits, Lint
  PROVE  LintFits'
<1> DEFINE steps == sample.steps
           n == lint.at
           step == steps[n + 1]
<1>1. /\ sample.kind = "case" /\ n < Len(steps) /\ sample' = sample
      /\ lint' = LintStep(lint, step)
      /\ n \in 0..Len(steps)
      /\ lint.warned = {i \in 1..n : StillWaits(steps, i - 1, steps[i].actor)}
      /\ lint.blocked = {a \in Actors : StillWaits(steps, n, a)}
  BY DEF Lint, LintFits
<1>2. Len(steps) \in Nat /\ n \in Nat /\ n + 1 \in 1..Len(steps) /\ step.actor \in Actors
  <2>1. steps \in UpTo(CaseSteps, MaxSteps)
    BY <1>1, KindsFit
  <2>2. Len(steps) \in Nat /\ \A i \in 1..Len(steps) : steps[i] \in CaseSteps
    BY <2>1, UpToFacts DEF ViewsAssumption
  <2>3. n \in Nat /\ n + 1 \in 1..Len(steps)
    BY <1>1, <2>2
  <2> QED
    BY <2>2, <2>3 DEF CaseSteps
<1> HIDE DEF steps, n, step
<1>3. step.actor \in lint.blocked <=> StillWaits(steps, n, step.actor)
  BY <1>1, <1>2
<1>4. lint'.at = n + 1
  BY <1>1 DEF LintStep, n
<1>5. lint'.warned = {i \in 1..(n + 1) : StillWaits(steps, i - 1, steps[i].actor)}
  <2>1. lint'.warned = lint.warned \union (IF StillWaits(steps, n, step.actor) THEN {n + 1} ELSE {})
    BY <1>1, <1>3 DEF LintStep, n
  <2>2. (n + 1) - 1 = n /\ \A i \in 1..(n + 1) : i \in 1..n \/ i = n + 1
    BY <1>2
  <2>3. n + 1 \in 1..(n + 1) /\ \A i \in 1..n : i \in 1..(n + 1)
    BY <1>2
  <2> QED
    BY <1>1, <2>1, <2>2, <2>3 DEF step
<1>6. lint'.blocked = {a \in Actors : StillWaits(steps, n + 1, a)}
  <2>1. \A a : StillWaits(steps, n + 1, a) <=>
          /\ ~ Releases(step)
          /\ IF step.actor = a THEN step.expect = "blocks" ELSE StillWaits(steps, n, a)
    BY <1>2, StillWaitsNext DEF step
  <2>2. lint'.blocked = IF Releases(step) THEN {}
                        ELSE (lint.blocked \ {step.actor})
                             \union (IF step.expect = "blocks" THEN {step.actor} ELSE {})
    BY <1>1 DEF LintStep
  <2> QED
    BY <1>1, <1>2, <2>1, <2>2
<1> QED
  BY <1>1, <1>2, <1>4, <1>5, <1>6 DEF LintFits, steps, n

\* A scenario that validates leaves no doubt who takes a step.
LEMMA ValidIsClear ==
  ASSUME NEW cast \in Casts, NEW steps, Valid(cast, steps), NEW i \in DOMAIN steps
  PROVE  Cardinality({a \in DOMAIN cast : cast[a] = steps[i].actor}) = 1
<1>1. cast \in Seq(Actors \union {"none"}) /\ DOMAIN cast = 1..Len(cast) /\ Len(cast) \in Nat
  BY UpToFacts DEF Casts
<1>2. steps[i].actor \in Seen(cast)
  BY DEF Valid
<1>3. PICK a \in DOMAIN cast : cast[a] = steps[i].actor /\ cast[a] # "none"
  BY <1>2 DEF Seen, Range
<1>4. ASSUME NEW b \in DOMAIN cast, cast[b] = steps[i].actor PROVE b = a
  <2>1. ~ Duplicated(cast)
    BY DEF Valid
  <2>2. ~ (a < b) /\ ~ (b < a)
    BY <1>3, <1>4, <2>1 DEF Duplicated
  <2> QED
    BY <1>1, <2>2
<1>5. {b \in DOMAIN cast : cast[b] = steps[i].actor} = {a}
  BY <1>3, <1>4
<1> QED
  BY <1>5, FS_Singleton

-----------------------------------------------------------------------------
(* The search for a cycle. *)

Marks == {"new", "on path", "done"}
Searches == [mark : [Waiting -> Marks], at : [Waiting -> Nat], path : Seq(Waiting), found : BOOLEAN]

\* The path is one, each on it waits for the next.
PathFits(edges, mark, at, path) ==
  /\ \A i, j \in 1..Len(path) : path[i] = path[j] => i = j
  /\ \A n \in Waiting : mark[n] = "on path" <=> \E i \in 1..Len(path) : path[i] = n
  /\ \A i \in 1..(Len(path) - 1) :
       at[path[i]] \in 1..Len(edges[path[i]]) /\ edges[path[i]][at[path[i]]] = path[i + 1]

\* Whoever was looked at is done, but for the next on the path; who is done has
\* looked at all.
LookedAt(edges, mark, at, path) ==
  /\ \A n \in Waiting : at[n] <= Len(edges[n])
  /\ \A n \in Waiting : mark[n] = "new" => at[n] = 0
  /\ \A n \in Waiting : mark[n] = "done" => at[n] = Len(edges[n])
  /\ \A n \in Waiting : \A j \in 1..at[n] :
       \/ mark[edges[n][j]] = "done"
       \/ \E i \in 1..(Len(path) - 1) : path[i] = n /\ j = at[n]

\* Nobody who is done is deadlocked.
DoneAreFree(edges, mark) ==
  \A S \in SUBSET Waiting : Deadlocked(edges, S) => \A n \in S : mark[n] # "done"

\* Some are deadlocked if a cycle was found; else the search is as it should be.
SearchIsRight(edges, s) ==
  /\ s.found => \E S \in SUBSET Waiting : Deadlocked(edges, S)
  /\ ~ s.found => /\ PathFits(edges, s.mark, s.at, s.path)
                  /\ LookedAt(edges, s.mark, s.at, s.path)
                  /\ DoneAreFree(edges, s.mark)

SearchFits ==
  sample.kind = "waits" => search \in Searches /\ SearchIsRight(sample.edges, search)

\* Whom a transaction waits for.
LEMMA EdgesFacts ==
  ASSUME ViewsAssumption, NEW edges \in Edges, NEW n \in Waiting
  PROVE  /\ edges[n] \in Seq(Waiting) /\ Len(edges[n]) \in Nat /\ DOMAIN edges[n] = 1..Len(edges[n])
         /\ \A i \in 1..Len(edges[n]) : edges[n][i] \in Waiting
         /\ Range(edges[n]) = {edges[n][i] : i \in 1..Len(edges[n])}
<1>1. MaxWaiting \in Nat /\ edges[n] \in UpTo(Waiting, MaxWaiting)
  BY DEF ViewsAssumption, Edges
<1> QED
  BY <1>1, UpToFacts DEF Range

\* m goes on the path, by its mark.
Entered(mark, m, mark2) == mark2 = [mark EXCEPT ![m] = "on path"]

\* m is the next edge of the last on the path, or where the search starts.
NextEdge(edges, at, path, m, at2) ==
  IF path = <<>> THEN at2 = at
  ELSE LET n == path[Len(path)]
       IN /\ at[n] + 1 \in 1..Len(edges[n]) /\ edges[n][at[n] + 1] = m
          /\ at2 = [at EXCEPT ![n] = at[n] + 1]

\* m follows the path.
Longer(path, m, path2) ==
  /\ Len(path2) = Len(path) + 1 /\ path2[Len(path) + 1] = m
  /\ \A i \in 1..Len(path) : path2[i] = path[i]

\* A node is entered: the path is one longer.
LEMMA PathGrows ==
  ASSUME ViewsAssumption, NEW edges \in Edges, NEW mark \in [Waiting -> Marks],
         NEW at \in [Waiting -> Nat], NEW path \in Seq(Waiting),
         PathFits(edges, mark, at, path), LookedAt(edges, mark, at, path), DoneAreFree(edges, mark),
         NEW m \in Waiting, mark[m] = "new",
         NEW at2 \in [Waiting -> Nat], NextEdge(edges, at, path, m, at2),
         NEW mark2 \in [Waiting -> Marks], Entered(mark, m, mark2),
         NEW path2 \in Seq(Waiting), Longer(path, m, path2)
  PROVE  PathFits(edges, mark2, at2, path2) /\ LookedAt(edges, mark2, at2, path2) /\ DoneAreFree(edges, mark2)
<1> DEFINE len == Len(path)
<1>1. len \in Nat /\ \A i \in 1..len : path[i] \in Waiting
  OBVIOUS
<1>2. Len(path2) = len + 1 /\ (\A i \in 1..len : path2[i] = path[i]) /\ path2[len + 1] = m
  BY DEF Longer
<1>3. /\ path = <<>> <=> len = 0
      /\ len = 0 \/ len \in 1..len
  OBVIOUS
<1>4. \A k \in Waiting : Len(edges[k]) \in Nat /\ \A j \in 1..Len(edges[k]) : edges[k][j] \in Waiting
  BY EdgesFacts
<1>5. /\ \A i, j \in 1..len : path[i] = path[j] => i = j
      /\ \A n \in Waiting : mark[n] = "on path" <=> \E i \in 1..len : path[i] = n
      /\ \A i \in 1..(len - 1) :
           at[path[i]] \in 1..Len(edges[path[i]]) /\ edges[path[i]][at[path[i]]] = path[i + 1]
  BY DEF PathFits
<1>6. \A i \in 1..len : path[i] # m
  BY <1>5
<1>7. mark2[m] = "on path" /\ \A k \in Waiting \ {m} : mark2[k] = mark[k]
  BY DEF Entered
<1> HIDE DEF len
<1>8. ASSUME NEW k \in Waiting, len = 0 \/ k # path[len] PROVE at2[k] = at[k]
  BY <1>1, <1>8, <1>3 DEF NextEdge, len
<1>9. ASSUME len > 0
      PROVE  /\ path[len] \in Waiting /\ at2[path[len]] = at[path[len]] + 1
             /\ at2[path[len]] \in 1..Len(edges[path[len]]) /\ edges[path[len]][at2[path[len]]] = m
  <2>1. path[len] \in Waiting /\ path # <<>>
    BY <1>1, <1>9, <1>3
  <2> QED
    BY <2>1 DEF NextEdge, len
<1>10. PathFits(edges, mark2, at2, path2)
  <2>1. ASSUME NEW i \in 1..(len + 1), NEW j \in 1..(len + 1), path2[i] = path2[j] PROVE i = j
    <3>1. (i \in 1..len \/ i = len + 1) /\ (j \in 1..len \/ j = len + 1)
      BY <1>1
    <3>2. CASE i \in 1..len /\ j \in 1..len
      <4>1. path[i] = path2[i] /\ path[j] = path2[j]
        BY <1>2, <3>2
      <4>2. path[i] = path[j]
        BY <2>1, <4>1
      <4>3. \A x, y \in 1..len : path[x] = path[y] => x = y
        BY <1>5
      <4> QED
        BY <3>2, <4>2, <4>3
    <3>3. CASE i \in 1..len /\ j = len + 1
      <4>1. path[i] = m
        BY <1>2, <2>1, <3>3
      <4> QED
        BY <1>6, <3>3, <4>1
    <3>4. CASE j \in 1..len /\ i = len + 1
      <4>1. path[j] = m
        BY <1>2, <2>1, <3>4
      <4> QED
        BY <1>6, <3>4, <4>1
    <3> QED
      BY <3>1, <3>2, <3>3, <3>4
  <2>2. ASSUME NEW k \in Waiting PROVE mark2[k] = "on path" <=> \E i \in 1..(len + 1) : path2[i] = k
    <3>1. \A i \in 1..(len + 1) : i \in 1..len \/ i = len + 1
      BY <1>1
    <3>2. len + 1 \in 1..(len + 1) /\ \A i \in 1..len : i \in 1..(len + 1)
      BY <1>1
    <3>3. CASE k = m
      BY <1>2, <1>7, <3>2, <3>3
    <3>4. CASE k # m
      <4>1. mark2[k] = "on path" <=> \E i \in 1..len : path[i] = k
        BY <1>5, <1>7, <3>4
      <4>2. (\E i \in 1..(len + 1) : path2[i] = k) <=> \E i \in 1..len : path[i] = k
        BY <1>2, <3>1, <3>2, <3>4
      <4> QED
        BY <4>1, <4>2
    <3> QED
      BY <3>3, <3>4
  <2>3. ASSUME NEW i \in 1..len
        PROVE  at2[path2[i]] \in 1..Len(edges[path2[i]]) /\ edges[path2[i]][at2[path2[i]]] = path2[i + 1]
    <3>1. CASE i = len
      <4>1. path2[i] = path[len] /\ path2[i + 1] = m /\ len > 0
        BY <1>1, <1>2, <3>1
      <4> QED
        BY <1>9, <4>1
    <3>2. CASE i # len
      <4>1. i \in 1..(len - 1) /\ i + 1 \in 1..len /\ len \in 1..len
        BY <1>1, <3>2
      <4>2. path[i] # path[len]
        BY <1>5, <3>2, <4>1
      <4>3. at2[path[i]] = at[path[i]]
        BY <1>1, <1>8, <4>2
      <4>4. path2[i] = path[i] /\ path2[i + 1] = path[i + 1]
        BY <1>2, <4>1
      <4>5. at[path[i]] \in 1..Len(edges[path[i]]) /\ edges[path[i]][at[path[i]]] = path[i + 1]
        BY <1>5, <4>1
      <4> QED
        BY <4>3, <4>4, <4>5
    <3> QED
      BY <3>1, <3>2
  <2>4. 1..Len(path2) = 1..(len + 1) /\ 1..(Len(path2) - 1) = 1..len
    BY <1>1, <1>2
  <2> QED
    BY <2>1, <2>2, <2>3, <2>4 DEF PathFits
<1>11. /\ \A n \in Waiting : at[n] <= Len(edges[n])
       /\ \A n \in Waiting : mark[n] = "new" => at[n] = 0
       /\ \A n \in Waiting : mark[n] = "done" => at[n] = Len(edges[n])
       /\ \A n \in Waiting : \A j \in 1..at[n] :
           \/ mark[edges[n][j]] = "done"
           \/ \E i \in 1..(len - 1) : path[i] = n /\ j = at[n]
  BY DEF LookedAt, len
<1>12. LookedAt(edges, mark2, at2, path2)
  <2>1. ASSUME NEW k \in Waiting PROVE at2[k] <= Len(edges[k])
    BY <1>1, <1>4, <1>8, <1>9, <1>11, <1>3
  <2>2. ASSUME NEW k \in Waiting, mark2[k] = "new" PROVE at2[k] = 0
    <3>1. mark[k] = "new"
      BY <1>7, <2>2
    <3>2. len = 0 \/ k # path[len]
      BY <1>5, <1>3, <3>1
    <3> QED
      BY <1>8, <1>11, <3>1, <3>2
  <2>3. ASSUME NEW k \in Waiting, mark2[k] = "done" PROVE at2[k] = Len(edges[k])
    <3>1. mark[k] = "done"
      BY <1>7, <2>3
    <3>2. len = 0 \/ k # path[len]
      BY <1>5, <1>3, <3>1
    <3> QED
      BY <1>8, <1>11, <3>1, <3>2
  <2>4. ASSUME NEW k \in Waiting, NEW j \in 1..at2[k]
        PROVE  mark2[edges[k][j]] = "done" \/ \E i \in 1..len : path2[i] = k /\ j = at2[k]
    <3>1. ASSUME len > 0, k = path[len], j = at[k] + 1
          PROVE  \E i \in 1..len : path2[i] = k /\ j = at2[k]
      <4>1. len \in 1..len
        BY <1>1, <3>1
      <4> QED
        BY <1>2, <1>9, <3>1, <4>1
    <3>2. ASSUME ~ (len > 0 /\ k = path[len] /\ j = at[k] + 1)
          PROVE  mark2[edges[k][j]] = "done" \/ \E i \in 1..len : path2[i] = k /\ j = at2[k]
      <4>1. j \in 1..at[k]
        <5>1. CASE len = 0 \/ k # path[len]
          BY <1>8, <5>1
        <5>2. CASE len > 0 /\ k = path[len]
          <6>1. at2[k] = at[k] + 1 /\ j # at[k] + 1 /\ at[k] \in Nat
            BY <1>9, <3>2, <5>2
          <6> QED
            BY <6>1
        <5> QED
          BY <1>1, <5>1, <5>2
      <4>2. edges[k][j] \in Waiting
        BY <1>4, <1>11, <4>1
      <4>3. CASE mark[edges[k][j]] = "done"
        BY <1>7, <4>2, <4>3
      <4>4. ASSUME NEW i \in 1..(len - 1), path[i] = k, j = at[k]
            PROVE  \E x \in 1..len : path2[x] = k /\ j = at2[k]
        <5>1. i \in 1..len /\ len \in 1..len /\ i # len
          BY <1>1
        <5>2. k # path[len]
          BY <1>5, <4>4, <5>1
        <5> QED
          BY <1>2, <1>8, <4>4, <5>1, <5>2
      <4> QED
        BY <1>11, <4>1, <4>3, <4>4
    <3> QED
      BY <3>1, <3>2
  <2>5. 1..(Len(path2) - 1) = 1..len
    BY <1>1, <1>2
  <2>6. \A k \in Waiting : \A j \in 1..at2[k] :
          \/ mark2[edges[k][j]] = "done"
          \/ \E i \in 1..(Len(path2) - 1) : path2[i] = k /\ j = at2[k]
    BY <2>4, <2>5
  <2> QED
    BY <2>1, <2>2, <2>3, <2>6 DEF LookedAt
<1>13. DoneAreFree(edges, mark2)
  BY <1>7 DEF DoneAreFree
<1> QED
  BY <1>10, <1>12, <1>13

\* A path that has begun has a last node.
LEMMA PathHasLast ==
  ASSUME NEW S, NEW path \in Seq(S), path # <<>>
  PROVE  /\ Len(path) \in Nat /\ Len(path) \in 1..Len(path)
         /\ \A i \in 1..Len(path) : path[i] \in S
         /\ path[Len(path)] \in S /\ Last(path) = path[Len(path)]
BY DEF Last

\* The search goes on with the next of whom n waits for.
LEMMA EdgeIsBehind ==
  ASSUME ViewsAssumption, NEW edges \in Edges, NEW mark \in [Waiting -> Marks],
         NEW at \in [Waiting -> Nat], NEW path \in Seq(Waiting), path # <<>>,
         PathFits(edges, mark, at, path), LookedAt(edges, mark, at, path),
         NEW m \in Waiting, mark[m] = "done",
         NEW at2 \in [Waiting -> Nat], NextEdge(edges, at, path, m, at2)
  PROVE  PathFits(edges, mark, at2, path) /\ LookedAt(edges, mark, at2, path)
<1> DEFINE len == Len(path)
           n == path[len]
<1>1. len \in Nat /\ len \in 1..len /\ (\A i \in 1..len : path[i] \in Waiting) /\ n \in Waiting
  BY PathHasLast
<1>2. at2[n] = at[n] + 1 /\ at2[n] \in 1..Len(edges[n]) /\ edges[n][at2[n]] = m
  BY <1>1 DEF NextEdge
<1>3. \A k \in Waiting \ {n} : at2[k] = at[k]
  BY <1>1 DEF NextEdge
<1>4. \A i, j \in 1..len : path[i] = path[j] => i = j
  BY DEF PathFits
<1>5. \A k \in Waiting : mark[k] = "on path" <=> \E i \in 1..len : path[i] = k
  BY DEF PathFits
<1>6. \A i \in 1..(len - 1) :
        at[path[i]] \in 1..Len(edges[path[i]]) /\ edges[path[i]][at[path[i]]] = path[i + 1]
  BY DEF PathFits
<1>7. \A k \in Waiting : at[k] <= Len(edges[k])
  BY DEF LookedAt
<1>8. \A k \in Waiting : mark[k] = "new" => at[k] = 0
  BY DEF LookedAt
<1>9. \A k \in Waiting : mark[k] = "done" => at[k] = Len(edges[k])
  BY DEF LookedAt
<1>10. \A k \in Waiting : \A j \in 1..at[k] :
         mark[edges[k][j]] = "done" \/ \E i \in 1..(len - 1) : path[i] = k /\ j = at[k]
  BY DEF LookedAt
<1>11. mark[n] = "on path"
  BY <1>1, <1>5
<1> HIDE DEF len, n
<1>12. ASSUME NEW i \in 1..(len - 1) PROVE i \in 1..len /\ path[i] \in Waiting \ {n}
  <2>1. i \in 1..len /\ i # len
    BY <1>1
  <2> QED
    BY <1>1, <1>4, <2>1 DEF n
<1>13. \A i \in 1..(len - 1) :
         at2[path[i]] \in 1..Len(edges[path[i]]) /\ edges[path[i]][at2[path[i]]] = path[i + 1]
  BY <1>3, <1>6, <1>12
<1>14. PathFits(edges, mark, at2, path)
  BY <1>4, <1>5, <1>13 DEF PathFits, len
<1>15. \A k \in Waiting : at2[k] <= Len(edges[k])
  <2>1. Len(edges[n]) \in Nat
    BY <1>1, EdgesFacts
  <2>2. at2[n] <= Len(edges[n])
    BY <1>2, <2>1
  <2> QED
    BY <1>3, <1>7, <2>2
<1>16. \A k \in Waiting : mark[k] = "new" => at2[k] = 0
  BY <1>3, <1>8, <1>11
<1>17. \A k \in Waiting : mark[k] = "done" => at2[k] = Len(edges[k])
  BY <1>3, <1>9, <1>11
<1>18. ASSUME NEW k \in Waiting, NEW j \in 1..at2[k]
       PROVE  mark[edges[k][j]] = "done" \/ \E i \in 1..(len - 1) : path[i] = k /\ j = at2[k]
  <2>1. CASE k # n
    BY <1>3, <1>10, <2>1
  <2>2. CASE k = n /\ j = at2[n]
    BY <1>2, <2>2
  <2>3. CASE k = n /\ j # at2[n]
    <3>1. j \in 1..at[n]
      BY <1>1, <1>2, <2>3
    <3>2. ~ \E i \in 1..(len - 1) : path[i] = n
      BY <1>12
    <3> QED
      BY <1>1, <1>10, <2>3, <3>1, <3>2
  <2> QED
    BY <2>1, <2>2, <2>3
<1>19. LookedAt(edges, mark, at2, path)
  BY <1>15, <1>16, <1>17, <1>18 DEF LookedAt, len
<1> QED
  BY <1>14, <1>19

\* The places of a path from one of them on.
LEMMA FromThereOn ==
  ASSUME NEW len \in Nat, NEW p \in 1..len
  PROVE  /\ p \in p..len
         /\ \A i \in p..len : i \in 1..len /\ (i = len \/ (i \in 1..(len - 1) /\ i + 1 \in p..len))
OBVIOUS

\* Where the path comes back to itself those from there on are deadlocked.
LEMMA CycleIsDeadlock ==
  ASSUME ViewsAssumption, NEW edges \in Edges, NEW mark \in [Waiting -> Marks],
         NEW at \in [Waiting -> Nat], NEW path \in Seq(Waiting), path # <<>>,
         PathFits(edges, mark, at, path),
         NEW m \in Waiting, mark[m] = "on path",
         NEW at2 \in [Waiting -> Nat], NextEdge(edges, at, path, m, at2)
  PROVE  \E S \in SUBSET Waiting : Deadlocked(edges, S)
<1> DEFINE len == Len(path)
<1>1. len \in Nat /\ len \in 1..len /\ (\A i \in 1..len : path[i] \in Waiting)
  BY PathHasLast
<1>2. path[len] \in Waiting
  BY <1>1
<1>3. at2[path[len]] \in 1..Len(edges[path[len]]) /\ edges[path[len]][at2[path[len]]] = m
  BY <1>2 DEF NextEdge
<1> HIDE DEF len
<1>4. PICK p \in 1..len : path[p] = m
  BY DEF PathFits, len
<1>5. \A i \in 1..(len - 1) :
        at[path[i]] \in 1..Len(edges[path[i]]) /\ edges[path[i]][at[path[i]]] = path[i + 1]
  BY DEF PathFits, len
<1> DEFINE S == {path[i] : i \in p..len}
<1>6. p \in p..len /\ \A i \in p..len : i \in 1..len /\ (i = len \/ (i \in 1..(len - 1) /\ i + 1 \in p..len))
  BY <1>1, <1>4, FromThereOn
<1>7. S \in SUBSET Waiting /\ m \in S
  BY <1>1, <1>4, <1>6
<1>8. ASSUME NEW x \in S PROVE Range(edges[x]) \intersect S # {}
  <2>1. PICK i \in p..len : x = path[i]
    BY <1>8
  <2>2. i \in 1..len /\ x \in Waiting
    BY <1>1, <1>6, <2>1
  <2>3. Range(edges[x]) = {edges[x][j] : j \in 1..Len(edges[x])}
    BY <2>2, EdgesFacts
  <2>4. CASE i = len
    <3>1. m \in Range(edges[x])
      BY <1>3, <2>1, <2>3, <2>4
    <3> QED
      BY <1>7, <3>1
  <2>5. CASE i \in 1..(len - 1) /\ i + 1 \in p..len
    <3>1. path[i + 1] \in Range(edges[x])
      BY <1>5, <2>1, <2>3, <2>5
    <3>2. path[i + 1] \in S
      BY <2>5
    <3> QED
      BY <3>1, <3>2
  <2> QED
    BY <1>6, <2>4, <2>5
<1>9. Deadlocked(edges, S)
  BY <1>7, <1>8 DEF Deadlocked
<1> QED
  BY <1>7, <1>9

\* n comes back: it is done, and off the path.
Returned(mark, n, mark2) == mark2 = [mark EXCEPT ![n] = "done"]
Shorter(path, path2) ==
  Len(path2) = Len(path) - 1 /\ \A i \in 1..(Len(path) - 1) : path2[i] = path[i]

\* A node of which all edges were looked at is done, and not deadlocked.
LEMMA NodeIsDone ==
  ASSUME ViewsAssumption, NEW edges \in Edges, NEW mark \in [Waiting -> Marks],
         NEW at \in [Waiting -> Nat], NEW path \in Seq(Waiting), path # <<>>,
         PathFits(edges, mark, at, path), LookedAt(edges, mark, at, path), DoneAreFree(edges, mark),
         at[path[Len(path)]] = Len(edges[path[Len(path)]]),
         NEW mark2 \in [Waiting -> Marks], Returned(mark, path[Len(path)], mark2),
         NEW path2 \in Seq(Waiting), Shorter(path, path2)
  PROVE  PathFits(edges, mark2, at, path2) /\ LookedAt(edges, mark2, at, path2) /\ DoneAreFree(edges, mark2)
<1> DEFINE len == Len(path)
           n == path[len]
<1>1. len \in Nat /\ len \in 1..len /\ (\A i \in 1..len : path[i] \in Waiting) /\ n \in Waiting
  BY PathHasLast
<1>2. at[n] = Len(edges[n]) /\ Len(edges[n]) \in Nat
  BY <1>1, EdgesFacts
<1>3. mark2[n] = "done" /\ \A k \in Waiting \ {n} : mark2[k] = mark[k]
  BY <1>1 DEF Returned
<1>4. \A i, j \in 1..len : path[i] = path[j] => i = j
  BY DEF PathFits
<1>5. \A k \in Waiting : mark[k] = "on path" <=> \E i \in 1..len : path[i] = k
  BY DEF PathFits
<1>6. \A i \in 1..(len - 1) :
        at[path[i]] \in 1..Len(edges[path[i]]) /\ edges[path[i]][at[path[i]]] = path[i + 1]
  BY DEF PathFits
<1>7. \A k \in Waiting : at[k] <= Len(edges[k])
  BY DEF LookedAt
<1>8. \A k \in Waiting : mark[k] = "new" => at[k] = 0
  BY DEF LookedAt
<1>9. \A k \in Waiting : mark[k] = "done" => at[k] = Len(edges[k])
  BY DEF LookedAt
<1>10. \A k \in Waiting : \A j \in 1..at[k] :
         mark[edges[k][j]] = "done" \/ \E i \in 1..(len - 1) : path[i] = k /\ j = at[k]
  BY DEF LookedAt
<1>11. Len(path2) = len - 1 /\ \A i \in 1..(len - 1) : path2[i] = path[i]
  BY DEF Shorter
<1> HIDE DEF len, n
<1>12. ASSUME NEW i \in 1..(len - 1)
       PROVE  i \in 1..len /\ path[i] \in Waiting \ {n} /\ path2[i] = path[i]
  <2>1. i \in 1..len /\ i # len
    BY <1>1
  <2> QED
    BY <1>1, <1>4, <1>11, <2>1 DEF n
<1>13. PathFits(edges, mark2, at, path2)
  <2>1. \A i, j \in 1..(len - 1) : path2[i] = path2[j] => i = j
    BY <1>4, <1>12
  <2>2. ASSUME NEW k \in Waiting PROVE mark2[k] = "on path" <=> \E i \in 1..(len - 1) : path2[i] = k
    <3>1. CASE k = n
      BY <1>3, <1>12, <3>1
    <3>2. CASE k # n
      <4>1. mark2[k] = "on path" <=> \E i \in 1..len : path[i] = k
        BY <1>3, <1>5, <3>2
      <4>2. \A i \in 1..len : path[i] = k => i \in 1..(len - 1)
        BY <1>1, <3>2 DEF n
      <4> QED
        BY <1>12, <4>1, <4>2
    <3> QED
      BY <3>1, <3>2
  <2>3. ASSUME NEW i \in 1..(len - 1 - 1)
        PROVE  at[path2[i]] \in 1..Len(edges[path2[i]]) /\ edges[path2[i]][at[path2[i]]] = path2[i + 1]
    <3>1. i \in 1..(len - 1) /\ i + 1 \in 1..(len - 1)
      BY <1>1
    <3> QED
      BY <1>6, <1>12, <3>1
  <2> QED
    BY <1>11, <2>1, <2>2, <2>3 DEF PathFits
<1>14. LookedAt(edges, mark2, at, path2)
  <2>1. \A k \in Waiting : mark2[k] = "new" => at[k] = 0
    BY <1>3, <1>8
  <2>2. \A k \in Waiting : mark2[k] = "done" => at[k] = Len(edges[k])
    BY <1>2, <1>3, <1>9
  <2>3. ASSUME NEW k \in Waiting, NEW j \in 1..at[k]
        PROVE  mark2[edges[k][j]] = "done" \/ \E i \in 1..(len - 1 - 1) : path2[i] = k /\ j = at[k]
    <3>1. edges[k][j] \in Waiting
      <4>1. Len(edges[k]) \in Nat /\ \A i \in 1..Len(edges[k]) : edges[k][i] \in Waiting
        BY EdgesFacts
      <4>2. j \in 1..Len(edges[k])
        BY <1>7, <4>1
      <4> QED
        BY <4>1, <4>2
    <3>2. CASE mark[edges[k][j]] = "done"
      BY <1>3, <3>1, <3>2
    <3>3. ASSUME NEW i \in 1..(len - 1), path[i] = k, j = at[k]
          PROVE  mark2[edges[k][j]] = "done" \/ \E x \in 1..(len - 1 - 1) : path2[x] = k /\ j = at[k]
      <4>1. CASE i = len - 1
        <5>1. i + 1 = len
          BY <1>1, <4>1
        <5>2. edges[k][j] = n
          BY <1>6, <3>3, <5>1 DEF n
        <5> QED
          BY <1>3, <5>2
      <4>2. CASE i # len - 1
        <5>1. i \in 1..(len - 1 - 1)
          BY <1>1, <4>2
        <5> QED
          BY <1>12, <3>3, <5>1
      <4> QED
        BY <4>1, <4>2
    <3> QED
      BY <1>10, <3>2, <3>3
  <2> QED
    BY <1>7, <1>11, <2>1, <2>2, <2>3 DEF LookedAt
<1>15. DoneAreFree(edges, mark2)
  <2>1. SUFFICES ASSUME NEW S \in SUBSET Waiting, Deadlocked(edges, S), NEW x \in S, mark2[x] = "done"
                 PROVE  FALSE
    BY DEF DoneAreFree
  <2>2. \A k \in S : mark[k] # "done"
    BY <2>1 DEF DoneAreFree
  <2>3. n \in S
    BY <1>3, <2>1, <2>2
  <2>4. PICK e \in S : e \in Range(edges[n])
    BY <2>1, <2>3 DEF Deadlocked
  <2>5. PICK j \in 1..Len(edges[n]) : e = edges[n][j]
    <3>1. Range(edges[n]) = {edges[n][j] : j \in 1..Len(edges[n])}
      BY <1>1, EdgesFacts
    <3> QED
      BY <2>4, <3>1
  <2>6. mark[e] = "done" \/ \E i \in 1..(len - 1) : path[i] = n
    BY <1>1, <1>2, <1>10, <2>5
  <2> QED
    BY <1>12, <2>2, <2>6
<1> QED
  BY <1>13, <1>14, <1>15

\* The parts of a search change one by one.
LEMMA SearchesChanged ==
  ASSUME NEW s \in Searches, NEW mark, NEW at, NEW path
  PROVE  /\ [s EXCEPT !.at = at] = [mark |-> s.mark, at |-> at, path |-> s.path, found |-> s.found]
         /\ [s EXCEPT !.mark = mark, !.path = path] = [mark |-> mark, at |-> s.at, path |-> path, found |-> s.found]
<1>1. DOMAIN s = {"mark", "at", "path", "found"}
  BY DEF Searches
<1>2. [s EXCEPT !.at = at] = [mark |-> s.mark, at |-> at, path |-> s.path, found |-> s.found]
  <2> DEFINE u == [s EXCEPT !.at = at]
  <2>1. DOMAIN u = DOMAIN s /\ u.mark = s.mark /\ u.at = at /\ u.path = s.path /\ u.found = s.found
    BY <1>1
  <2>2. u = [x \in DOMAIN u |-> u[x]]
    OBVIOUS
  <2> HIDE DEF u
  <2>3. u = [mark |-> s.mark, at |-> at, path |-> s.path, found |-> s.found]
    BY <1>1, <2>1, <2>2
  <2> QED
    BY <2>3 DEF u
<1> DEFINE t == [s EXCEPT !.mark = mark, !.path = path]
<1>4. DOMAIN t = DOMAIN s /\ t.mark = mark /\ t.at = s.at /\ t.path = path /\ t.found = s.found
  BY <1>1
<1>5. t = [x \in DOMAIN t |-> t[x]]
  OBVIOUS
<1> HIDE DEF t
<1>6. t = [mark |-> mark, at |-> s.at, path |-> path, found |-> s.found]
  BY <1>1, <1>4, <1>5
<1> QED
  BY <1>2, <1>6 DEF t

\* A sequence without its last.
LEMMA FrontIsShorter ==
  ASSUME NEW S, NEW path \in Seq(S), path # <<>>
  PROVE  /\ Front(path) \in Seq(S) /\ Len(Front(path)) = Len(path) - 1
         /\ \A i \in 1..(Len(path) - 1) : Front(path)[i] = path[i]
<1>1. Len(path) \in Nat /\ Len(path) - 1 \in Nat /\ \A i \in 1..(Len(path) - 1) : path[i] \in S
  OBVIOUS
<1>2. Front(path) = [i \in 1..(Len(path) - 1) |-> path[i]]
  BY <1>1 DEF Front, SubSeq
<1> QED
  BY <1>1, <1>2

\* A search that goes on is as it should be.
LEMMA SearchOnIsRight ==
  ASSUME ViewsAssumption, NEW edges \in Edges, NEW s \in Searches,
         SearchIsRight(edges, s), ~ s.found, s.path # <<>>
  PROVE  SearchOn(s, edges) \in Searches /\ SearchIsRight(edges, SearchOn(s, edges))
<1> DEFINE mark == s.mark
           at == s.at
           path == s.path
           n == path[Len(path)]
<1>1. /\ mark \in [Waiting -> Marks] /\ at \in [Waiting -> Nat] /\ path \in Seq(Waiting)
      /\ s = [mark |-> mark, at |-> at, path |-> path, found |-> FALSE]
  BY DEF Searches
<1>2. PathFits(edges, mark, at, path) /\ LookedAt(edges, mark, at, path) /\ DoneAreFree(edges, mark)
  BY DEF SearchIsRight
<1>3. path # <<>> /\ Len(path) \in Nat /\ Len(path) \in 1..Len(path) /\ n \in Waiting /\ Last(path) = n
  BY <1>1 DEF Last
<1>4. Len(edges[n]) \in Nat /\ DOMAIN edges[n] = 1..Len(edges[n]) /\ \A i \in 1..Len(edges[n]) : edges[n][i] \in Waiting
  BY <1>3, EdgesFacts
<1>5. at[n] \in Nat /\ at[n] <= Len(edges[n])
  BY <1>1, <1>2, <1>3 DEF LookedAt
<1> HIDE DEF mark, at, path, n
<1>6. CASE at[n] + 1 \in DOMAIN edges[n]
  <2> DEFINE m == edges[n][at[n] + 1]
             at2 == [at EXCEPT ![n] = at[n] + 1]
             s2 == [mark |-> mark, at |-> at2, path |-> path, found |-> FALSE]
  <2>1. SearchOn(s, edges) = Visit([s EXCEPT !.at[n] = at[n] + 1], m)
    BY <1>3, <1>6 DEF SearchOn, at, path
  <2>2. [s EXCEPT !.at[n] = at[n] + 1] = s2
    <3>1. s.at = at /\ [s EXCEPT !.at[n] = at[n] + 1] = [s EXCEPT !.at = at2]
      BY DEF at
    <3> HIDE DEF at2
    <3>2. [s EXCEPT !.at = at2] = [mark |-> s.mark, at |-> at2, path |-> s.path, found |-> s.found]
      BY SearchesChanged
    <3>3. s.mark = mark /\ s.path = path /\ s.found = FALSE
      BY <1>1
    <3> QED
      BY <3>1, <3>2, <3>3
  <2>3. m \in Waiting /\ at2 \in [Waiting -> Nat] /\ NextEdge(edges, at, path, m, at2)
    BY <1>1, <1>3, <1>4, <1>5, <1>6 DEF NextEdge, n
  <2> HIDE DEF m, at2
  <2>4. CASE mark[m] = "done"
    <3>1. SearchOn(s, edges) = s2
      BY <2>1, <2>2, <2>4 DEF Visit
    <3>2. PathFits(edges, mark, at2, path) /\ LookedAt(edges, mark, at2, path)
      BY <1>1, <1>2, <1>3, <2>3, <2>4, EdgeIsBehind
    <3>3. s2 \in Searches /\ SearchIsRight(edges, s2)
      BY <1>1, <1>2, <2>3, <3>2 DEF Searches, SearchIsRight
    <3> QED
      BY <3>1, <3>3
  <2>5. CASE mark[m] = "on path"
    <3> DEFINE s3 == [mark |-> mark, at |-> at2, path |-> path, found |-> TRUE]
    <3>1. SearchOn(s, edges) = s3
      BY <2>1, <2>2, <2>5 DEF Visit
    <3>2. \E S \in SUBSET Waiting : Deadlocked(edges, S)
      BY <1>1, <1>2, <1>3, <2>3, <2>5, CycleIsDeadlock
    <3>3. s3 \in Searches /\ SearchIsRight(edges, s3)
      BY <1>1, <2>3, <3>2 DEF Searches, SearchIsRight
    <3> QED
      BY <3>1, <3>3
  <2>6. CASE mark[m] \notin {"done", "on path"}
    <3> DEFINE mark2 == [mark EXCEPT ![m] = "on path"]
               path2 == Append(path, m)
               s3 == [mark |-> mark2, at |-> at2, path |-> path2, found |-> FALSE]
    <3>1. SearchOn(s, edges) = s3
      BY <2>1, <2>2, <2>6 DEF Visit
    <3>2. mark2 \in [Waiting -> Marks] /\ path2 \in Seq(Waiting) /\ Entered(mark, m, mark2) /\ mark[m] = "new"
      <4>1. path2 \in Seq(Waiting)
        BY <1>1, <2>3
      <4>2. mark2 \in [Waiting -> Marks] /\ Entered(mark, m, mark2)
        BY <1>1, <2>3 DEF Entered, Marks
      <4>3. mark[m] = "new"
        BY <1>1, <2>3, <2>6 DEF Marks
      <4> QED
        BY <4>1, <4>2, <4>3
    <3>3. Longer(path, m, path2)
      BY <1>1, <2>3 DEF Longer
    <3> HIDE DEF mark2, path2
    <3>4. PathFits(edges, mark2, at2, path2) /\ LookedAt(edges, mark2, at2, path2) /\ DoneAreFree(edges, mark2)
      BY <1>1, <1>2, <2>3, <3>2, <3>3, PathGrows
    <3>5. s3 \in Searches /\ SearchIsRight(edges, s3)
      BY <2>3, <3>2, <3>4 DEF Searches, SearchIsRight
    <3> QED
      BY <3>1, <3>5
  <2> QED
    BY <2>4, <2>5, <2>6
<1>7. CASE at[n] + 1 \notin DOMAIN edges[n]
  <2> DEFINE mark2 == [mark EXCEPT ![n] = "done"]
             path2 == Front(path)
             s3 == [mark |-> mark2, at |-> at, path |-> path2, found |-> FALSE]
  <2>1. SearchOn(s, edges) = s3
    <3>1. s.path = path /\ s.at = at /\ Last(s.path) = n
      BY <1>3 DEF path, at
    <3>2. SearchOn(s, edges) = [s EXCEPT !.mark[n] = "done", !.path = Front(@)]
      BY <1>7, <3>1 DEF SearchOn
    <3>3. s.mark = mark /\ [s EXCEPT !.mark[n] = "done", !.path = Front(@)] = [s EXCEPT !.mark = mark2, !.path = path2]
      BY <3>1 DEF mark
    <3> HIDE DEF mark2, path2
    <3> QED
      BY <1>1, <3>2, <3>3
  <2>2. at[path[Len(path)]] = Len(edges[path[Len(path)]])
    BY <1>4, <1>5, <1>7 DEF n
  <2>3. mark2 \in [Waiting -> Marks] /\ Returned(mark, path[Len(path)], mark2)
    BY <1>1, <1>3 DEF Returned, Marks, n
  <2>4. path2 \in Seq(Waiting) /\ Shorter(path, path2)
    BY <1>1, <1>3, FrontIsShorter DEF Shorter
  <2> HIDE DEF mark2, path2
  <2>5. PathFits(edges, mark2, at, path2) /\ LookedAt(edges, mark2, at, path2) /\ DoneAreFree(edges, mark2)
    BY <1>1, <1>2, <1>3, <2>2, <2>3, <2>4, NodeIsDone
  <2>6. s3 \in Searches /\ SearchIsRight(edges, s3)
    BY <1>1, <2>3, <2>4, <2>5 DEF Searches, SearchIsRight
  <2> QED
    BY <2>1, <2>6
<1> QED
  BY <1>6, <1>7

\* A search that starts from a node nobody has been to is as it should be.
LEMMA SearchFromIsRight ==
  ASSUME ViewsAssumption, NEW edges \in Edges, NEW s \in Searches,
         SearchIsRight(edges, s), ~ s.found, s.path = <<>>, NEW m \in Waiting, s.mark[m] = "new"
  PROVE  Visit(s, m) \in Searches /\ SearchIsRight(edges, Visit(s, m))
<1> DEFINE mark == s.mark
           at == s.at
           path == s.path
           mark2 == [mark EXCEPT ![m] = "on path"]
           path2 == Append(path, m)
           t == [mark |-> mark2, at |-> at, path |-> path2, found |-> FALSE]
<1>1. /\ mark \in [Waiting -> Marks] /\ at \in [Waiting -> Nat] /\ path \in Seq(Waiting)
      /\ s = [mark |-> mark, at |-> at, path |-> path, found |-> FALSE]
      /\ mark[m] = "new" /\ path = <<>>
  BY DEF Searches
<1>2. PathFits(edges, mark, at, path) /\ LookedAt(edges, mark, at, path) /\ DoneAreFree(edges, mark)
  BY DEF SearchIsRight
<1>3. Visit(s, m) = t
  <2>1. Visit(s, m) = [s EXCEPT !.mark[m] = "on path", !.path = Append(@, m)]
    BY DEF Visit
  <2>2. [s EXCEPT !.mark[m] = "on path", !.path = Append(@, m)] = [s EXCEPT !.mark = mark2, !.path = path2]
    OBVIOUS
  <2> HIDE DEF mark2, path2
  <2>3. [s EXCEPT !.mark = mark2, !.path = path2] = [mark |-> mark2, at |-> s.at, path |-> path2, found |-> s.found]
    BY SearchesChanged
  <2>4. s.found = FALSE /\ s.at = at
    BY <1>1
  <2> QED
    BY <2>1, <2>2, <2>3, <2>4
<1> HIDE DEF mark, at, path
<1>4. path2 \in Seq(Waiting) /\ Longer(path, m, path2)
  BY <1>1 DEF Longer
<1>5. mark2 \in [Waiting -> Marks] /\ Entered(mark, m, mark2)
  BY <1>1 DEF Entered, Marks
<1>6. NextEdge(edges, at, path, m, at)
  BY <1>1 DEF NextEdge
<1> HIDE DEF mark2, path2
<1>7. PathFits(edges, mark2, at, path2) /\ LookedAt(edges, mark2, at, path2) /\ DoneAreFree(edges, mark2)
  BY <1>1, <1>2, <1>4, <1>5, <1>6, PathGrows
<1>8. t \in Searches /\ SearchIsRight(edges, t)
  BY <1>1, <1>4, <1>5, <1>7 DEF Searches, SearchIsRight
<1> QED
  BY <1>3, <1>8

\* Before it begins it is.
LEMMA NewSearchIsRight ==
  ASSUME ViewsAssumption, NEW edges \in Edges
  PROVE  NewSearch(Waiting) \in Searches /\ SearchIsRight(edges, NewSearch(Waiting))
<1> DEFINE mark == [n \in Waiting |-> "new"]
           at == [n \in Waiting |-> 0]
           s == [mark |-> mark, at |-> at, path |-> <<>>, found |-> FALSE]
<1>1. NewSearch(Waiting) = s
  BY DEF NewSearch
<1>2. mark \in [Waiting -> Marks] /\ at \in [Waiting -> Nat] /\ <<>> \in Seq(Waiting)
  BY DEF Marks
<1>3. /\ \A n \in Waiting : mark[n] = "new"
      /\ \A n \in Waiting : at[n] = 0
      /\ Len(<<>>) = 0 /\ 1..0 = {} /\ 1..(0 - 1) = {}
  OBVIOUS
<1>4. \A n \in Waiting : Len(edges[n]) \in Nat
  BY EdgesFacts
<1> HIDE DEF mark, at
<1>5. PathFits(edges, mark, at, <<>>)
  BY <1>3 DEF PathFits
<1>6. LookedAt(edges, mark, at, <<>>)
  BY <1>3, <1>4 DEF LookedAt
<1>7. DoneAreFree(edges, mark)
  BY <1>3 DEF DoneAreFree
<1>8. s \in Searches /\ SearchIsRight(edges, s)
  BY <1>2, <1>5, <1>6, <1>7 DEF Searches, SearchIsRight
<1> QED
  BY <1>1, <1>8

-----------------------------------------------------------------------------
(* All together. *)

ViewsInv == sample \in Samples /\ LintFits /\ SearchFits /\ PullFits

\* Hence WarningsRight.
LEMMA WarningsAreRight ==
  ASSUME ViewsAssumption, ViewsInv PROVE WarningsRight
<1>1. ASSUME sample.kind = "case"
      PROVE  /\ lint.warned = {i \in 1..lint.at : StillWaits(sample.steps, i - 1, sample.steps[i].actor)}
             /\ Valid(sample.cast, sample.steps) =>
                  \A i \in DOMAIN sample.steps :
                    Cardinality({a \in DOMAIN sample.cast : sample.cast[a] = sample.steps[i].actor}) = 1
  BY <1>1, KindsFit, ValidIsClear DEF ViewsInv, LintFits
<1>2. ASSUME sample.kind = "waits", search.found
      PROVE  {S \in SUBSET Waiting : Deadlocked(sample.edges, S)} # {}
  BY <1>2 DEF ViewsInv, SearchFits, SearchIsRight
<1>3. ASSUME sample.kind = "waits", search.path = <<>>, \A n \in Waiting : search.mark[n] # "new",
             ~ search.found
      PROVE  {S \in SUBSET Waiting : Deadlocked(sample.edges, S)} = {}
  <2>1. /\ search \in Searches /\ DoneAreFree(sample.edges, search.mark)
        /\ PathFits(sample.edges, search.mark, search.at, <<>>)
    BY <1>3 DEF ViewsInv, SearchFits, SearchIsRight
  <2>2. \A n \in Waiting : search.mark[n] # "on path"
    <3>1. 1..Len(<<>>) = {}
      OBVIOUS
    <3> QED
      BY <2>1, <3>1 DEF PathFits
  <2>3. \A n \in Waiting : search.mark[n] = "done"
    BY <1>3, <2>1, <2>2 DEF Searches, Marks
  <2> QED
    BY <2>1, <2>3 DEF DoneAreFree, Deadlocked
<1> QED
  BY <1>1, <1>2, <1>3 DEF WarningsRight

\* The four of them.
LEMMA ViewsInvIsEnough ==
  ASSUME ViewsAssumption, ViewsInv PROVE ReportsRight
BY ComparisonIsFair, SummaryIsHonest, WarningsAreRight, PullRight DEF ViewsInv, ReportsRight

\* Every sample begins with nothing warned of, searched or heard.
LEMMA ViewsInvInit ==
  ASSUME ViewsAssumption, ViewsInit PROVE ViewsInv
<1>1. sample \in Samples /\ lint = LintStart /\ search = NewSearch(Waiting)
      /\ pull = NoProgress(Layers) /\ heard = [l \in Layers |-> 0]
  BY DEF ViewsInit
<1>2. LintFits
  <2> SUFFICES ASSUME sample.kind = "case"
               PROVE  /\ lint.at \in 0..Len(sample.steps)
                      /\ lint.warned = {i \in 1..lint.at : StillWaits(sample.steps, i - 1, sample.steps[i].actor)}
                      /\ lint.blocked = {a \in Actors : StillWaits(sample.steps, lint.at, a)}
    BY DEF LintFits
  <2>1. lint.at = 0 /\ lint.warned = {} /\ lint.blocked = {}
    BY <1>1 DEF LintStart
  <2>2. Len(sample.steps) \in Nat
    BY <1>1, KindsFit, UpToFacts DEF ViewsAssumption
  <2>3. 1..0 = {} /\ 0 \in 0..Len(sample.steps)
    BY <2>2
  <2> QED
    BY <2>1, <2>3 DEF StillWaits
<1>3. SearchFits
  BY <1>1, KindsFit, NewSearchIsRight DEF SearchFits
<1>4. PullFits
  <2> SUFFICES ASSUME sample.kind = "pull" PROVE PullFits
    BY DEF PullFits
  <2>1. \A l \in Layers : heard[l] = 0 /\ pull.download[l] = NoBytes /\ pull.extract[l] = NoBytes /\ l \notin pull.done
    BY <1>1 DEF NoProgress
  <2>2. pull \in Pulls /\ heard \in [Layers -> Nat]
    <3>1. NoBytes \in [current : Nat, total : Nat]
      BY DEF NoBytes
    <3>2. NoProgress(Layers) \in Pulls
      BY <3>1 DEF NoProgress, Pulls, Bytes
    <3> QED
      BY <1>1, <3>2
  <2>3. \A l \in Layers : Len(sample.script[l]) \in Nat /\ Len(sample.script[l]) > 0
    BY <1>1, KindsFit, ScriptsEnd
  <2>4. \A l \in Layers : LayerFits(l)
    BY <2>1, <2>3 DEF LayerFits
  <2> QED
    BY <2>2, <2>4 DEF PullFits
<1> QED
  BY <1>1, <1>2, <1>3, <1>4 DEF ViewsInv

\* A step is about one sample's computation and leaves the others' alone.
LEMMA ViewsInvStep ==
  ASSUME ViewsAssumption, ViewsInv, [ViewsNext]_viewsVars PROVE ViewsInv'
<1> USE DEF ViewsInv
<1>1. ASSUME sample' = sample, lint' = lint PROVE LintFits'
  BY <1>1 DEF LintFits
<1>2. ASSUME sample' = sample, search' = search PROVE SearchFits'
  BY <1>2 DEF SearchFits
<1>3. ASSUME sample' = sample, pull' = pull, heard' = heard PROVE PullFits'
  BY <1>3 DEF PullFits, LayerFits
<1>4. CASE Lint
  <2>1. sample' = sample /\ search' = search /\ pull' = pull /\ heard' = heard
    BY <1>4 DEF Lint
  <2> QED
    BY <1>2, <1>3, <1>4, <2>1, LintKeepsFit
<1>5. ASSUME NEW n \in Waiting, SearchFrom(n) PROVE ViewsInv'
  <2>1. /\ sample.kind = "waits" /\ sample' = sample /\ lint' = lint /\ pull' = pull /\ heard' = heard
        /\ ~ search.found /\ search.path = <<>> /\ search.mark[n] = "new" /\ search' = Visit(search, n)
    BY <1>5 DEF SearchFrom
  <2>2. sample.edges \in Edges /\ search \in Searches /\ SearchIsRight(sample.edges, search)
    BY <2>1, KindsFit DEF SearchFits
  <2>3. search' \in Searches /\ SearchIsRight(sample.edges, search')
    BY <2>1, <2>2, SearchFromIsRight
  <2>4. SearchFits'
    BY <2>1, <2>3 DEF SearchFits
  <2> QED
    BY <1>1, <1>3, <2>1, <2>4
<1>6. CASE SearchGoesOn
  <2>1. /\ sample.kind = "waits" /\ sample' = sample /\ lint' = lint /\ pull' = pull /\ heard' = heard
        /\ ~ search.found /\ search.path # <<>> /\ search' = SearchOn(search, sample.edges)
    BY <1>6 DEF SearchGoesOn
  <2>2. sample.edges \in Edges /\ search \in Searches /\ SearchIsRight(sample.edges, search)
    BY <2>1, KindsFit DEF SearchFits
  <2>3. search' \in Searches /\ SearchIsRight(sample.edges, search')
    BY <2>1, <2>2, SearchOnIsRight
  <2>4. SearchFits'
    BY <2>1, <2>3 DEF SearchFits
  <2> QED
    BY <1>1, <1>3, <2>1, <2>4
<1>7. ASSUME NEW l \in Layers, Hear(l) PROVE ViewsInv'
  <2>1. sample' = sample /\ search' = search /\ lint' = lint
    BY <1>7 DEF Hear
  <2>2. PullFits'
    BY <1>7, PullStep
  <2> QED
    BY <1>1, <1>2, <2>1, <2>2
<1>8. CASE UNCHANGED viewsVars
  <2>1. sample' = sample /\ search' = search /\ lint' = lint /\ pull' = pull /\ heard' = heard
    BY <1>8 DEF viewsVars
  <2> QED
    BY <1>1, <1>2, <1>3, <2>1
<1> QED
  BY <1>4, <1>5, <1>6, <1>7, <1>8 DEF ViewsNext

\* What a reader is told of scenarios, runs, sweeps and pulls is so, whatever
\* the sample and however far the loop, the search or the pull is.
THEOREM ReportsAreRight == ViewsSpec => []ReportsRight
<1>1. ViewsInit => ViewsInv
  BY ViewsAssumption, ViewsInvInit
<1>2. ViewsInv /\ [ViewsNext]_viewsVars => ViewsInv'
  BY ViewsAssumption, ViewsInvStep
<1>3. ViewsInv => ReportsRight
  BY ViewsAssumption, ViewsInvIsEnough
<1> QED
  BY <1>1, <1>2, <1>3, PTL DEF ViewsSpec

-----------------------------------------------------------------------------
(***************************************************************************)
(* What a page shows of locks.  First the loops of LockView: a recursive   *)
(* function is shown to exist, and what it is at each turn follows from    *)
(* the turn before.                                                        *)
(***************************************************************************)

\* What holds at the start of a loop and is kept by each turn holds throughout.
LEMMA LoopInduction ==
  ASSUME NEW n \in Nat, NEW T, 0 \in T, \A i \in 1..n : i - 1 \in T => i \in T
  PROVE  \A i \in 0..n : i \in T
<1> DEFINE Bad == {i \in 0..n : i \notin T}
<1> SUFFICES ASSUME Bad # {} PROVE FALSE
  OBVIOUS
<1>1. PICK i \in Bad : \A j \in Bad : i <= j
  <2>1. Bad \subseteq Nat
    OBVIOUS
  <2> HIDE DEF Bad
  <2> QED
    BY <2>1, LeastNumber
<1>2. i \in 1..n /\ i - 1 \in 0..n /\ ~ (i <= i - 1)
  BY <1>1
<1>3. i - 1 \in T
  BY <1>1, <1>2
<1> QED
  BY <1>1, <1>2, <1>3

\* What a loop has made after each turn i, which takes x to g[i][x].
IsRun(n, S, a, g, f) ==
  f \in [0..n -> S] /\ f[0] = a /\ \A i \in 1..n : f[i] = g[i][f[i - 1]]

\* A loop whose turns stay within a set has a run.
LEMMA LoopExists ==
  ASSUME NEW n \in Nat, NEW S, NEW a \in S, NEW g \in [1..n -> [S -> S]]
  PROVE  \E f : IsRun(n, S, a, g, f)
<1> DEFINE Runs(m) == \E f \in [0..m -> S] : f[0] = a /\ \A i \in 1..m : f[i] = g[i][f[i - 1]]
           T == {m \in 0..n : Runs(m)}
<1>1. 0 \in T
  <2> DEFINE h == [i \in 0..0 |-> a]
  <2>1. h \in [0..0 -> S] /\ h[0] = a /\ 1..0 = {}
    OBVIOUS
  <2>2. Runs(0)
    <3> HIDE DEF h
    <3> QED
      BY <2>1
  <2> HIDE DEF Runs
  <2> QED
    BY <2>2
<1>2. ASSUME NEW m \in 1..n, m - 1 \in T PROVE m \in T
  <2>1. PICK f \in [0..(m - 1) -> S] : f[0] = a /\ \A i \in 1..(m - 1) : f[i] = g[i][f[i - 1]]
    BY <1>2
  <2> DEFINE h == [i \in 0..m |-> IF i = m THEN g[m][f[m - 1]] ELSE f[i]]
  <2>2. h \in [0..m -> S]
    <3>1. g[m][f[m - 1]] \in S
      BY <2>1
    <3>2. \A i \in 0..m : i # m => i \in 0..(m - 1)
      OBVIOUS
    <3> QED
      BY <2>1, <3>1, <3>2
  <2>3. h[0] = a
    BY <2>1
  <2>4. ASSUME NEW i \in 1..m PROVE h[i] = g[i][h[i - 1]]
    <3>1. h[i - 1] = f[i - 1]
      OBVIOUS
    <3>2. CASE i = m
      BY <3>1, <3>2
    <3>3. CASE i # m
      <4>1. i \in 1..(m - 1)
        BY <3>3
      <4> QED
        BY <2>1, <3>1, <3>3, <4>1
    <3> QED
      BY <3>2, <3>3
  <2>5. Runs(m)
    <3> HIDE DEF h
    <3> QED
      BY <2>2, <2>3, <2>4
  <2>6. m \in 0..n
    OBVIOUS
  <2> HIDE DEF Runs
  <2> QED
    BY <2>5, <2>6
<1>3. \A m \in 0..n : m \in T
  <2> HIDE DEF T
  <2> QED
    BY <1>1, <1>2, LoopInduction
<1> QED
  BY <1>3 DEF IsRun

Letters == {Quote, Comma, Space, "a", "1"}

\* How a letter is written in quotes.
Twice(c) == IF c = Quote THEN <<Quote, Quote>> ELSE <<c>>

\* The run of the loop that doubles quotes.
Doubling(s, d) ==
  /\ d \in [0..Len(s) -> Seq(Letters)]
  /\ d[0] = <<>> /\ \A i \in 1..Len(s) : d[i] = d[i - 1] \o Twice(s[i])

LEMMA TwiceFacts == \A c \in Letters : Twice(c) \in Seq(Letters) /\ Len(Twice(c)) \in 1..2
<1> SUFFICES ASSUME NEW c \in Letters PROVE Twice(c) \in Seq(Letters) /\ Len(Twice(c)) \in 1..2
  OBVIOUS
<1>1. Quote \in Letters
  BY DEF Letters
<1>2. /\ <<c>> \in Seq(Letters) /\ Len(<<c>>) = 1
      /\ <<Quote, Quote>> \in Seq(Letters) /\ Len(<<Quote, Quote>>) = 2
  BY <1>1
<1> QED
  BY <1>2 DEF Twice

LEMMA DoubledIs ==
  ASSUME NEW s \in Seq(Letters)
  PROVE  \E d : Doubling(s, d) /\ Doubled(s) = d[Len(s)]
<1> DEFINE n == Len(s)
           S == Seq(Letters)
           empty == <<>>
           Turn(x, i) == x \o (IF s[i] = Quote THEN <<Quote, Quote>> ELSE <<s[i]>>)
           g == [i \in 1..n |-> [x \in S |-> Turn(x, i)]]
           c == CHOOSE f : f = [i \in 0..n |-> IF i = 0 THEN <<>> ELSE Turn(f[i - 1], i)]
<1>1. n \in Nat
  OBVIOUS
<1>2. empty \in S
  OBVIOUS
<1>3. ASSUME NEW i \in 1..n PROVE \A x : Turn(x, i) = x \o Twice(s[i]) /\ (x \in S => Turn(x, i) \in S)
  <2>1. s[i] \in Letters
    OBVIOUS
  <2>2. Twice(s[i]) \in Seq(Letters)
    BY <2>1, TwiceFacts
  <2> QED
    BY <2>2 DEF Twice
<1>4. g \in [1..n -> [S -> S]]
  <2> HIDE DEF Turn, S, n
  <2> QED
    BY <1>3
<1> HIDE DEF Turn, S, n, empty, g, c
<1>5. PICK f : IsRun(n, S, empty, g, f)
  BY <1>1, <1>2, <1>4, LoopExists
<1>13. f \in [0..n -> S] /\ f[0] = empty
  BY <1>5 DEF IsRun
<1>6. ASSUME NEW i \in 1..n PROVE f[i - 1] \in S /\ f[i] = Turn(f[i - 1], i)
  <2>1. f[i - 1] \in S
    BY <1>1, <1>13
  <2>2. f[i] = g[i][f[i - 1]]
    BY <1>5 DEF IsRun
  <2>3. g[i] = [x \in S |-> Turn(x, i)]
    BY DEF g
  <2> QED
    BY <2>1, <2>2, <2>3
<1>7. f = [i \in 0..n |-> IF i = 0 THEN empty ELSE Turn(f[i - 1], i)]
  BY <1>1, <1>13, <1>6
<1>8. c = [i \in 0..n |-> IF i = 0 THEN empty ELSE Turn(c[i - 1], i)]
  BY <1>7 DEF c, empty
<1>9. c[0] = empty /\ \A i \in 1..n : c[i] = Turn(c[i - 1], i)
  BY <1>1, <1>8
<1> DEFINE T == {j \in 0..n : c[j] = f[j]}
<1>10. \A i \in 0..n : i \in T
  <2>1. 0 \in T
    BY <1>1, <1>13, <1>9
  <2>2. \A i \in 1..n : i - 1 \in T => i \in T
    BY <1>1, <1>6, <1>9
  <2> HIDE DEF T
  <2> QED
    BY <1>1, <2>1, <2>2, LoopInduction
<1>11. Doubled(s) = f[n]
  <2>1. Doubled(s) = c[n]
    BY DEF Doubled, Loop, c, Turn, n
  <2> QED
    BY <1>1, <1>10, <2>1
<1>12. Doubling(s, f)
  BY <1>3, <1>13, <1>6 DEF Doubling, n, S, empty
<1> QED
  BY <1>11, <1>12 DEF n

\* What the reader of LOCK_DATA has: the components it read, the one it is in, and
\* whether it is in quotes or has to skip a letter.
Reader(out, current, inQuote, skip) ==
  [out |-> out, current |-> current, inQuote |-> inQuote, skip |-> skip]

\* The runs of the other loops.
Undoubling(s, u) ==
  /\ u \in [0..Len(s) -> [out : Seq(Letters), skip : BOOLEAN]]
  /\ u[0] = [out |-> <<>>, skip |-> FALSE]
  /\ \A i \in 1..Len(s) : u[i] = UndoubleLetter(s, u[i - 1], i)

Splitting(data, a) ==
  /\ a[0] = Reader(<<>>, <<>>, FALSE, FALSE)
  /\ \A i \in 1..Len(data) : a[i] = SplitLetter(data, a[i - 1], i)

KeyComponents == [string : BOOLEAN, text : Seq(Letters)]
Separator(i) == IF i = 1 THEN <<>> ELSE <<Comma, Space>>

Writing(key, w) ==
  /\ w \in [0..Len(key) -> Seq(Letters)]
  /\ w[0] = <<>>
  /\ \A i \in 1..Len(key) : w[i] = w[i - 1] \o Separator(i) \o Written(key[i])

Keeping(s, X, T, f) ==
  /\ f \in [0..Len(s) -> Seq(T)]
  /\ f[0] = <<>>
  /\ \A i \in 1..Len(s) : f[i] = IF s[i] \in X THEN f[i - 1] ELSE Append(f[i - 1], s[i])

LEMMA UndoubleLetterFits ==
  ASSUME NEW s \in Seq(Letters), NEW i \in 1..Len(s),
         NEW x \in [out : Seq(Letters), skip : BOOLEAN]
  PROVE  UndoubleLetter(s, x, i) \in [out : Seq(Letters), skip : BOOLEAN]
<1>1. s[i] \in Letters /\ x.out \in Seq(Letters)
  OBVIOUS
<1>2. Append(x.out, s[i]) \in Seq(Letters)
  BY <1>1
<1>3. (s[i] = Quote /\ i < Len(s) /\ s[i + 1] = Quote) \in BOOLEAN
  OBVIOUS
<1> QED
  BY <1>2, <1>3 DEF UndoubleLetter

LEMMA UndoubledIs ==
  ASSUME NEW s \in Seq(Letters)
  PROVE  \E f : Undoubling(s, f) /\ Undoubled(s) = f[Len(s)].out
<1> DEFINE n == Len(s)
           S == [out : Seq(Letters), skip : BOOLEAN]
           empty == [out |-> <<>>, skip |-> FALSE]
           Turn(x, i) == UndoubleLetter(s, x, i)
           g == [i \in 1..n |-> [x \in S |-> Turn(x, i)]]
           c == CHOOSE f : f = [i \in 0..n |-> IF i = 0 THEN [out |-> <<>>, skip |-> FALSE] ELSE Turn(f[i - 1], i)]
<1>1. n \in Nat
  OBVIOUS
<1>2. empty \in S
  OBVIOUS
<1>3. ASSUME NEW i \in 1..n, NEW x \in S PROVE Turn(x, i) \in S
  BY UndoubleLetterFits
<1> HIDE DEF Turn, S, n, empty, g, c
<1>4. g \in [1..n -> [S -> S]]
  BY <1>3 DEF g
<1>5. PICK f : IsRun(n, S, empty, g, f)
  BY <1>1, <1>2, <1>4, LoopExists
<1>6. f \in [0..n -> S] /\ f[0] = empty
  BY <1>5 DEF IsRun
<1>7. ASSUME NEW i \in 1..n PROVE f[i - 1] \in S /\ f[i] = Turn(f[i - 1], i)
  <2>1. f[i - 1] \in S
    BY <1>1, <1>6
  <2>2. f[i] = g[i][f[i - 1]]
    BY <1>5 DEF IsRun
  <2>3. g[i] = [x \in S |-> Turn(x, i)]
    BY DEF g
  <2> QED
    BY <2>1, <2>2, <2>3
<1>8. f = [i \in 0..n |-> IF i = 0 THEN empty ELSE Turn(f[i - 1], i)]
  BY <1>1, <1>6, <1>7
<1>9. c = [i \in 0..n |-> IF i = 0 THEN empty ELSE Turn(c[i - 1], i)]
  BY <1>8 DEF c, empty
<1>10. c[0] = empty /\ \A i \in 1..n : c[i] = Turn(c[i - 1], i)
  BY <1>1, <1>9
<1> DEFINE T == {j \in 0..n : c[j] = f[j]}
<1>11. \A i \in 0..n : i \in T
  <2>1. 0 \in T
    BY <1>1, <1>6, <1>10
  <2>2. \A i \in 1..n : i - 1 \in T => i \in T
    BY <1>1, <1>7, <1>10
  <2> HIDE DEF T
  <2> QED
    BY <1>1, <2>1, <2>2, LoopInduction
<1>12. Undoubled(s) = f[Len(s)].out
  <2>1. Undoubled(s) = c[n].out
    BY DEF Undoubled, Loop, c, Turn, n
  <2> QED
    BY <1>1, <1>11, <2>1 DEF n
<1>13. Undoubling(s, f)
  BY <1>6, <1>7 DEF Undoubling, n, S, empty, Turn
<1> QED
  BY <1>12, <1>13

\* What the reader may have.
Readers == [out : Seq({UnquoteComponent(t) : t \in Seq(Letters)}), current : Seq(Letters),
            inQuote : BOOLEAN, skip : BOOLEAN]

LEMMA LettersAre == {Quote, Comma, Space, "1"} \subseteq Letters
BY DEF Letters

LEMMA SplitLetterFits ==
  ASSUME NEW data \in Seq(Letters), NEW i \in 1..Len(data), NEW x \in Readers
  PROVE  SplitLetter(data, x, i) \in Readers
<1>1. /\ data[i] \in Letters /\ Quote \in Letters
      /\ x.out \in Seq({UnquoteComponent(t) : t \in Seq(Letters)})
      /\ x.current \in Seq(Letters) /\ x.inQuote \in BOOLEAN /\ x.skip \in BOOLEAN
  BY LettersAre DEF Readers
<1>2. /\ x.current \o <<Quote, Quote>> \in Seq(Letters)
      /\ Append(x.current, Quote) \in Seq(Letters)
      /\ Append(x.current, data[i]) \in Seq(Letters)
      /\ <<>> \in Seq(Letters)
  BY <1>1
<1>3. Append(x.out, UnquoteComponent(x.current)) \in Seq({UnquoteComponent(t) : t \in Seq(Letters)})
  <2> DEFINE U == {UnquoteComponent(t) : t \in Seq(Letters)}
  <2>1. UnquoteComponent(x.current) \in U
    BY <1>1
  <2>2. x.out \in Seq(U)
    BY <1>1
  <2> HIDE DEF U
  <2>3. Append(x.out, UnquoteComponent(x.current)) \in Seq(U)
    BY <2>1, <2>2
  <2> QED
    BY <2>3 DEF U
<1> QED
  BY <1>1, <1>2, <1>3 DEF SplitLetter, Readers

LEMMA SplitIs ==
  ASSUME NEW data \in Seq(Letters)
  PROVE  \E f : Splitting(data, f) /\ (data # <<>> /\ Trim(data) = data => SplitLockData(data) = Append(f[Len(data)].out, UnquoteComponent(f[Len(data)].current)))
<1> DEFINE n == Len(data)
           S == Readers
           empty == [out |-> <<>>, current |-> <<>>, inQuote |-> FALSE, skip |-> FALSE]
           Turn(x, i) == SplitLetter(data, x, i)
           g == [i \in 1..n |-> [x \in S |-> Turn(x, i)]]
           c == CHOOSE f : f = [i \in 0..n |-> IF i = 0 THEN [out |-> <<>>, current |-> <<>>, inQuote |-> FALSE, skip |-> FALSE] ELSE Turn(f[i - 1], i)]
<1>1. n \in Nat
  OBVIOUS
<1>2. empty \in S
  <2>1. \A U : <<>> \in Seq(U)
    OBVIOUS
  <2> QED
    BY <2>1 DEF Readers
<1>3. ASSUME NEW i \in 1..n, NEW x \in S PROVE Turn(x, i) \in S
  BY SplitLetterFits
<1> HIDE DEF Turn, S, n, empty, g, c
<1>4. g \in [1..n -> [S -> S]]
  BY <1>3 DEF g
<1>5. PICK f : IsRun(n, S, empty, g, f)
  BY <1>1, <1>2, <1>4, LoopExists
<1>6. f \in [0..n -> S] /\ f[0] = empty
  BY <1>5 DEF IsRun
<1>7. ASSUME NEW i \in 1..n PROVE f[i - 1] \in S /\ f[i] = Turn(f[i - 1], i)
  <2>1. f[i - 1] \in S
    BY <1>1, <1>6
  <2>2. f[i] = g[i][f[i - 1]]
    BY <1>5 DEF IsRun
  <2>3. g[i] = [x \in S |-> Turn(x, i)]
    BY DEF g
  <2> QED
    BY <2>1, <2>2, <2>3
<1>8. f = [i \in 0..n |-> IF i = 0 THEN empty ELSE Turn(f[i - 1], i)]
  BY <1>1, <1>6, <1>7
<1>9. c = [i \in 0..n |-> IF i = 0 THEN empty ELSE Turn(c[i - 1], i)]
  BY <1>8 DEF c, empty
<1>10. c[0] = empty /\ \A i \in 1..n : c[i] = Turn(c[i - 1], i)
  BY <1>1, <1>9
<1> DEFINE T == {j \in 0..n : c[j] = f[j]}
<1>11. \A i \in 0..n : i \in T
  <2>1. 0 \in T
    BY <1>1, <1>6, <1>10
  <2>2. \A i \in 1..n : i - 1 \in T => i \in T
    BY <1>1, <1>7, <1>10
  <2> HIDE DEF T
  <2> QED
    BY <1>1, <2>1, <2>2, LoopInduction
<1>12. (data # <<>> /\ Trim(data) = data => SplitLockData(data) = Append(f[Len(data)].out, UnquoteComponent(f[Len(data)].current)))
  <2> SUFFICES ASSUME data # <<>>, Trim(data) = data
               PROVE  SplitLockData(data) = Append(f[Len(data)].out, UnquoteComponent(f[Len(data)].current))
    OBVIOUS
  <2>1. SplitLockData(data) = Append(c[n].out, UnquoteComponent(c[n].current))
    BY DEF SplitLockData, Loop, c, Turn, n
  <2>2. c[n] = f[n]
    BY <1>1, <1>11
  <2> QED
    BY <2>1, <2>2 DEF n
<1>13. Splitting(data, f)
  BY <1>6, <1>7 DEF Splitting, n, S, empty, Turn, Reader
<1> QED
  BY <1>12, <1>13

LEMMA WrittenFits ==
  ASSUME NEW c \in KeyComponents
  PROVE  /\ c.string \in BOOLEAN /\ c.text \in Seq(Letters)
         /\ Doubled(c.text) \in Seq(Letters) /\ Written(c) \in Seq(Letters)
<1>1. c.string \in BOOLEAN /\ c.text \in Seq(Letters)
  BY DEF KeyComponents
<1>2. Doubled(c.text) \in Seq(Letters)
  <2>1. PICK d : Doubling(c.text, d) /\ Doubled(c.text) = d[Len(c.text)]
    BY <1>1, DoubledIs
  <2>2. Len(c.text) \in 0..Len(c.text)
    BY <1>1
  <2> QED
    BY <2>1, <2>2 DEF Doubling
<1>3. Quote \in Letters
  BY LettersAre
<1>4. <<Quote>> \o Doubled(c.text) \o <<Quote>> \in Seq(Letters)
  BY <1>2, <1>3
<1> QED
  BY <1>1, <1>2, <1>4 DEF Written

LEMMA WrittenIs ==
  ASSUME NEW key \in Seq(KeyComponents)
  PROVE  \E f : Writing(key, f) /\ WrittenKey(key) = f[Len(key)]
<1> DEFINE n == Len(key)
           S == Seq(Letters)
           empty == <<>>
           Turn(x, i) == x \o (IF i = 1 THEN <<>> ELSE <<Comma, Space>>) \o Written(key[i])
           g == [i \in 1..n |-> [x \in S |-> Turn(x, i)]]
           c == CHOOSE f : f = [i \in 0..n |-> IF i = 0 THEN <<>> ELSE Turn(f[i - 1], i)]
<1>1. n \in Nat
  OBVIOUS
<1>2. empty \in S
  OBVIOUS
<1>3. ASSUME NEW i \in 1..n, NEW x \in S PROVE Turn(x, i) \in S
  <2>1. Written(key[i]) \in Seq(Letters)
    BY WrittenFits
  <2>2. Separator(i) \in Seq(Letters)
    <3>1. Comma \in Letters /\ Space \in Letters
      BY LettersAre
    <3> QED
      BY <3>1 DEF Separator
  <2> QED
    BY <2>1, <2>2 DEF Separator
<1> HIDE DEF Turn, S, n, empty, g, c
<1>4. g \in [1..n -> [S -> S]]
  BY <1>3 DEF g
<1>5. PICK f : IsRun(n, S, empty, g, f)
  BY <1>1, <1>2, <1>4, LoopExists
<1>6. f \in [0..n -> S] /\ f[0] = empty
  BY <1>5 DEF IsRun
<1>7. ASSUME NEW i \in 1..n PROVE f[i - 1] \in S /\ f[i] = Turn(f[i - 1], i)
  <2>1. f[i - 1] \in S
    BY <1>1, <1>6
  <2>2. f[i] = g[i][f[i - 1]]
    BY <1>5 DEF IsRun
  <2>3. g[i] = [x \in S |-> Turn(x, i)]
    BY DEF g
  <2> QED
    BY <2>1, <2>2, <2>3
<1>8. f = [i \in 0..n |-> IF i = 0 THEN empty ELSE Turn(f[i - 1], i)]
  BY <1>1, <1>6, <1>7
<1>9. c = [i \in 0..n |-> IF i = 0 THEN empty ELSE Turn(c[i - 1], i)]
  BY <1>8 DEF c, empty
<1>10. c[0] = empty /\ \A i \in 1..n : c[i] = Turn(c[i - 1], i)
  BY <1>1, <1>9
<1> DEFINE T == {j \in 0..n : c[j] = f[j]}
<1>11. \A i \in 0..n : i \in T
  <2>1. 0 \in T
    BY <1>1, <1>6, <1>10
  <2>2. \A i \in 1..n : i - 1 \in T => i \in T
    BY <1>1, <1>7, <1>10
  <2> HIDE DEF T
  <2> QED
    BY <1>1, <2>1, <2>2, LoopInduction
<1>12. WrittenKey(key) = f[Len(key)]
  <2>1. WrittenKey(key) = c[n]
    BY DEF WrittenKey, Loop, c, Turn, n
  <2> QED
    BY <1>1, <1>11, <2>1 DEF n
<1>13. Writing(key, f)
  BY <1>6, <1>7 DEF Writing, n, S, empty, Turn, Separator
<1> QED
  BY <1>12, <1>13

LEMMA WithoutIs ==
  ASSUME NEW T0, NEW s \in Seq(T0), NEW X
  PROVE  \E f : Keeping(s, X, T0, f) /\ Without(s, X) = f[Len(s)]
<1> DEFINE n == Len(s)
           S == Seq(T0)
           empty == <<>>
           Turn(x, i) == IF s[i] \in X THEN x ELSE Append(x, s[i])
           g == [i \in 1..n |-> [x \in S |-> Turn(x, i)]]
           c == CHOOSE f : f = [i \in 0..n |-> IF i = 0 THEN <<>> ELSE Turn(f[i - 1], i)]
<1>1. n \in Nat
  OBVIOUS
<1>2. empty \in S
  OBVIOUS
<1>3. ASSUME NEW i \in 1..n, NEW x \in S PROVE Turn(x, i) \in S
  OBVIOUS
<1> HIDE DEF Turn, S, n, empty, g, c
<1>4. g \in [1..n -> [S -> S]]
  BY <1>3 DEF g
<1>5. PICK f : IsRun(n, S, empty, g, f)
  BY <1>1, <1>2, <1>4, LoopExists
<1>6. f \in [0..n -> S] /\ f[0] = empty
  BY <1>5 DEF IsRun
<1>7. ASSUME NEW i \in 1..n PROVE f[i - 1] \in S /\ f[i] = Turn(f[i - 1], i)
  <2>1. f[i - 1] \in S
    BY <1>1, <1>6
  <2>2. f[i] = g[i][f[i - 1]]
    BY <1>5 DEF IsRun
  <2>3. g[i] = [x \in S |-> Turn(x, i)]
    BY DEF g
  <2> QED
    BY <2>1, <2>2, <2>3
<1>8. f = [i \in 0..n |-> IF i = 0 THEN empty ELSE Turn(f[i - 1], i)]
  BY <1>1, <1>6, <1>7
<1>9. c = [i \in 0..n |-> IF i = 0 THEN empty ELSE Turn(c[i - 1], i)]
  BY <1>8 DEF c, empty
<1>10. c[0] = empty /\ \A i \in 1..n : c[i] = Turn(c[i - 1], i)
  BY <1>1, <1>9
<1> DEFINE T == {j \in 0..n : c[j] = f[j]}
<1>11. \A i \in 0..n : i \in T
  <2>1. 0 \in T
    BY <1>1, <1>6, <1>10
  <2>2. \A i \in 1..n : i - 1 \in T => i \in T
    BY <1>1, <1>7, <1>10
  <2> HIDE DEF T
  <2> QED
    BY <1>1, <2>1, <2>2, LoopInduction
<1>12. Without(s, X) = f[Len(s)]
  <2>1. Without(s, X) = c[n]
    BY DEF Without, Loop, c, Turn, n
  <2> QED
    BY <1>1, <1>11, <2>1 DEF n
<1>13. Keeping(s, X, T0, f)
  BY <1>6, <1>7 DEF Keeping, n, S, empty, Turn
<1> QED
  BY <1>12, <1>13

\* t begins with p.
Begins(p, t) == Len(p) <= Len(t) /\ \A k \in 1..Len(p) : t[k] = p[k]

\* d grows by what e has.
Grows(n, d, e) == \A i \in 1..n : d[i] = d[i - 1] \o e[i]

LEMMA GrowingBegins ==
  ASSUME NEW n \in Nat, NEW L, NEW d \in [0..n -> Seq(L)], NEW e \in [1..n -> Seq(L)],
         Grows(n, d, e)
  PROVE  \A j \in 0..n : \A i \in 0..j : Begins(d[i], d[j])
<1> DEFINE T == {j \in 0..n : \A i \in 0..j : Begins(d[i], d[j])}
<1> HIDE DEF T
<1>1. 0 \in T
  <2>1. \A i \in 0..0 : i = 0
    OBVIOUS
  <2>2. Begins(d[0], d[0])
    <3>1. d[0] \in Seq(L)
      OBVIOUS
    <3> QED
      BY <3>1 DEF Begins
  <2> QED
    BY <2>1, <2>2 DEF T
<1>2. ASSUME NEW j \in 1..n, j - 1 \in T PROVE j \in T
  <2> SUFFICES ASSUME NEW i \in 0..j PROVE Begins(d[i], d[j])
    BY DEF T
  <2>1. d[i] \in Seq(L) /\ d[j] \in Seq(L) /\ d[j - 1] \in Seq(L) /\ e[j] \in Seq(L)
    OBVIOUS
  <2>2. CASE i = j
    BY <2>1, <2>2 DEF Begins
  <2>3. CASE i # j
    <3>1. Begins(d[i], d[j - 1])
      BY <1>2, <2>3 DEF T
    <3>2. d[j] = d[j - 1] \o e[j]
      BY DEF Grows
    <3>3. /\ Len(d[j]) = Len(d[j - 1]) + Len(e[j])
          /\ \A k \in 1..Len(d[j - 1]) : d[j][k] = d[j - 1][k]
      BY <2>1, <3>2
    <3>4. Len(d[i]) \in Nat /\ Len(d[j - 1]) \in Nat /\ Len(e[j]) \in Nat
      BY <2>1
    <3> QED
      BY <3>1, <3>3, <3>4 DEF Begins
  <2> QED
    BY <2>2, <2>3
<1>3. \A j \in 0..n : j \in T
  BY <1>1, <1>2, LoopInduction
<1> QED
  BY <1>3 DEF T

\* What ReplaceAll has after a letter.
Replaced(out, skip) == [out |-> out, skip |-> skip]

LEMMA LetterIsSkipped ==
  ASSUME NEW s, NEW i, NEW out
  PROVE  UndoubleLetter(s, Replaced(out, TRUE), i) = Replaced(out, FALSE)
BY DEF UndoubleLetter, Replaced

LEMMA LetterIsPaired ==
  ASSUME NEW s, NEW i, NEW out, s[i] = Quote, i < Len(s), s[i + 1] = Quote
  PROVE  UndoubleLetter(s, Replaced(out, FALSE), i) = Replaced(Append(out, s[i]), TRUE)
BY DEF UndoubleLetter, Replaced

LEMMA LetterIsPlain ==
  ASSUME NEW s, NEW i, NEW out, s[i] # Quote
  PROVE  UndoubleLetter(s, Replaced(out, FALSE), i) = Replaced(Append(out, s[i]), FALSE)
BY DEF UndoubleLetter, Replaced

\* What was doubled is undoubled to what it was.
LEMMA UndoubledDoubled ==
  ASSUME NEW s \in Seq(Letters)
  PROVE  Undoubled(Doubled(s)) = s
<1> DEFINE n == Len(s)
           D == Doubled(s)
<1>1. PICK d : Doubling(s, d) /\ D = d[n]
  BY DoubledIs
<1>2. n \in Nat /\ d \in [0..n -> Seq(Letters)] /\ d[0] = <<>>
  BY <1>1 DEF Doubling
<1>3. \A i \in 1..n : d[i] = d[i - 1] \o Twice(s[i])
  BY <1>1 DEF Doubling
<1>4. \A i \in 1..n : s[i] \in Letters /\ Twice(s[i]) \in Seq(Letters)
  BY TwiceFacts
<1> HIDE DEF n, D
<1>5. D \in Seq(Letters)
  BY <1>1, <1>2
<1>6. PICK u : Undoubling(D, u) /\ Undoubled(D) = u[Len(D)].out
  BY <1>5, UndoubledIs
<1>14. u[0] = Replaced(<<>>, FALSE)
  BY <1>6 DEF Undoubling, Replaced
<1>7. \A i \in 1..Len(D) : u[i] = UndoubleLetter(D, u[i - 1], i)
  BY <1>6 DEF Undoubling
<1>8. \A i \in 0..n : Begins(d[i], D)
  <2> DEFINE e == [i \in 1..n |-> Twice(s[i])]
  <2>1. e \in [1..n -> Seq(Letters)]
    BY <1>4
  <2>2. Grows(n, d, e)
    BY <1>3 DEF Grows
  <2> HIDE DEF e
  <2>3. \A j \in 0..n : \A i \in 0..j : Begins(d[i], d[j])
    BY <1>2, <2>1, <2>2, GrowingBegins
  <2>4. n \in 0..n
    BY <1>2
  <2> QED
    BY <1>1, <2>3, <2>4
<1> DEFINE T == {i \in 0..n : u[Len(d[i])] = Replaced(SubSeq(s, 1, i), FALSE)}
<1> HIDE DEF T
<1>9. 0 \in T
  <2>1. Len(d[0]) = 0 /\ SubSeq(s, 1, 0) = <<>>
    BY <1>2
  <2>2. 0 \in 0..n
    BY <1>2
  <2>3. u[Len(d[0])] = Replaced(SubSeq(s, 1, 0), FALSE)
    BY <1>14, <2>1
  <2> QED
    BY <2>2, <2>3 DEF T
<1>10. ASSUME NEW i \in 1..n, i - 1 \in T PROVE i \in T
  <2> DEFINE m == Len(d[i - 1])
             out == SubSeq(s, 1, i - 1)
  <2>1. d[i - 1] \in Seq(Letters) /\ d[i] \in Seq(Letters) /\ m \in Nat /\ Len(D) \in Nat
    BY <1>2, <1>5
  <2>2. u[m] = Replaced(out, FALSE)
    BY <1>10 DEF T
  <2>3. SubSeq(s, 1, i) = Append(out, s[i])
    BY <1>2, SubSeqRecursiveSecond DEF n
  <2>4. d[i] = d[i - 1] \o Twice(s[i])
    BY <1>3
  <2>8. i \in 0..n
    BY <1>2
  <2>9. Len(d[i]) <= Len(D) /\ \A k \in 1..Len(d[i]) : D[k] = d[i][k]
    BY <1>8, <2>8 DEF Begins
  <2> HIDE DEF out, m
  <2>7. i \in T <=> u[Len(d[i])] = Replaced(Append(out, s[i]), FALSE)
    BY <2>3, <2>8 DEF T
  <2>5. CASE s[i] = Quote
    <3>1. d[i] = d[i - 1] \o <<Quote, Quote>>
      BY <2>4, <2>5 DEF Twice
    <3>2. Len(d[i]) = m + 2 /\ d[i][m + 1] = Quote /\ d[i][m + 2] = Quote
      BY <2>1, <3>1 DEF m
    <3>3. m + 2 <= Len(D) /\ D[m + 1] = Quote /\ D[m + 2] = Quote
      <4>1. m + 1 \in 1..Len(d[i]) /\ m + 2 \in 1..Len(d[i])
        BY <2>1, <3>2
      <4> QED
        BY <2>9, <3>2, <4>1
    <3>4. u[m + 1] = UndoubleLetter(D, u[m], m + 1)
      <4>1. m + 1 \in 1..Len(D) /\ (m + 1) - 1 = m
        BY <2>1, <3>3
      <4> QED
        BY <1>7, <4>1
    <3>5. u[m + 1] = Replaced(Append(out, s[i]), TRUE)
      <4>1. D[m + 1] = Quote /\ m + 1 < Len(D) /\ D[(m + 1) + 1] = Quote
        BY <2>1, <3>3
      <4>2. UndoubleLetter(D, Replaced(out, FALSE), m + 1) = Replaced(Append(out, D[m + 1]), TRUE)
        BY <4>1, LetterIsPaired
      <4> QED
        BY <2>2, <2>5, <3>4, <4>1, <4>2
    <3>6. u[m + 2] = UndoubleLetter(D, u[m + 1], m + 2)
      <4>1. m + 2 \in 1..Len(D) /\ (m + 2) - 1 = m + 1
        BY <2>1, <3>3
      <4> QED
        BY <1>7, <4>1
    <3>7. u[m + 2] = Replaced(Append(out, s[i]), FALSE)
      <4>1. UndoubleLetter(D, Replaced(Append(out, s[i]), TRUE), m + 2)
              = Replaced(Append(out, s[i]), FALSE)
        BY LetterIsSkipped
      <4> QED
        BY <3>5, <3>6, <4>1
    <3> QED
      BY <2>7, <3>2, <3>7
  <2>6. CASE s[i] # Quote
    <3>1. d[i] = d[i - 1] \o <<s[i]>>
      BY <2>4, <2>6 DEF Twice
    <3>2. Len(d[i]) = m + 1 /\ d[i][m + 1] = s[i]
      BY <2>1, <3>1 DEF m
    <3>3. m + 1 <= Len(D) /\ D[m + 1] = s[i]
      <4>1. m + 1 \in 1..Len(d[i])
        BY <2>1, <3>2
      <4> QED
        BY <2>9, <3>2, <4>1
    <3>4. u[m + 1] = UndoubleLetter(D, u[m], m + 1)
      <4>1. m + 1 \in 1..Len(D) /\ (m + 1) - 1 = m
        BY <2>1, <3>3
      <4> QED
        BY <1>7, <4>1
    <3>5. u[m + 1] = Replaced(Append(out, s[i]), FALSE)
      <4>1. UndoubleLetter(D, Replaced(out, FALSE), m + 1) = Replaced(Append(out, D[m + 1]), FALSE)
        BY <2>6, <3>3, LetterIsPlain
      <4> QED
        BY <2>2, <3>3, <3>4, <4>1
    <3> QED
      BY <2>7, <3>2, <3>5
  <2> QED
    BY <2>5, <2>6
<1>11. \A i \in 0..n : i \in T
  BY <1>2, <1>9, <1>10, LoopInduction
<1>12. u[Len(D)] = Replaced(SubSeq(s, 1, n), FALSE)
  <2>1. n \in T
    BY <1>2, <1>11
  <2> QED
    BY <1>1, <2>1 DEF T
<1>13. SubSeq(s, 1, n) = s
  BY SubSeqFull DEF n
<1> QED
  BY <1>6, <1>12, <1>13 DEF D, Replaced

\* Spaces around a text do not matter.
LEMMA TrimPadded ==
  ASSUME NEW t \in Seq(Letters), NEW pad \in {<<>>, <<Space>>},
         t # <<>>, t[1] # Space, t[Len(t)] # Space
  PROVE  Trim(pad \o t) = t
<1> DEFINE s == pad \o t
           m == Len(pad)
           letters == {i \in 1..Len(s) : s[i] # Space}
<1>1. Space \in Letters
  BY LettersAre
<1>2. pad \in Seq(Letters) /\ m \in Nat /\ Len(t) \in Nat /\ Len(t) >= 1
  <2>1. CASE pad = <<>>
    BY <2>1
  <2>2. CASE pad = <<Space>>
    BY <1>1, <2>2
  <2> QED
    BY <2>1, <2>2
<1>3. /\ s \in Seq(Letters) /\ Len(s) = m + Len(t)
      /\ \A i \in 1..Len(t) : s[m + i] = t[i]
      /\ \A i \in 1..m : s[i] = pad[i]
  BY <1>2
<1>4. \A i \in 1..m : pad[i] = Space
  BY <1>1
<1> HIDE DEF m, s
<1>5. m + 1 \in letters /\ \A i \in letters : m + 1 <= i
  BY <1>2, <1>3, <1>4
<1>6. Len(s) \in letters /\ \A i \in letters : i <= Len(s)
  BY <1>2, <1>3
<1>7. letters \subseteq Nat
  BY <1>2, <1>3
<1> HIDE DEF letters
<1>8. Min(letters) = m + 1
  <2>1. Min(letters) \in letters /\ \A i \in letters : Min(letters) <= i
    BY <1>5 DEF Min
  <2> DEFINE x == Min(letters)
  <2>2. x \in letters /\ x \in Nat /\ x <= m + 1 /\ m + 1 <= x
    BY <1>5, <1>7, <2>1
  <2> HIDE DEF x
  <2>3. x = m + 1
    BY <1>2, <2>2
  <2> QED
    BY <2>3 DEF x
<1>9. Max(letters) = Len(s)
  <2>1. Max(letters) \in letters /\ \A i \in letters : i <= Max(letters)
    BY <1>6 DEF Max
  <2> DEFINE x == Max(letters)
  <2>2. x \in letters /\ x \in Nat /\ Len(s) \in Nat /\ Len(s) <= x /\ x <= Len(s)
    BY <1>2, <1>3, <1>6, <1>7, <2>1
  <2> HIDE DEF x
  <2>3. x = Len(s)
    BY <2>2
  <2> QED
    BY <2>3 DEF x
<1>10. Trim(s) = SubSeq(s, m + 1, m + Len(t))
  <2>1. Trim(s) = SubSeq(s, Min(letters), Max(letters))
    BY <1>5 DEF Trim, letters
  <2> QED
    BY <1>3, <1>8, <1>9, <2>1
<1>11. SubSeq(s, m + 1, m + Len(t)) = t
  BY <1>2, SubSeqOfConcat2 DEF s, m
<1> QED
  BY <1>10, <1>11 DEF s

LEMMA LettersApart == Quote # Comma /\ Quote # Space /\ Comma # Space
BY DEF Quote, Comma, Space

\* A text without quotes is one letter here, and none that means something.
Proper(c) ==
  /\ c \in KeyComponents
  /\ ~ c.string => Len(c.text) = 1 /\ c.text[1] \notin {Quote, Comma, Space}

\* How a written component begins and ends.
LEMMA WrittenEnds ==
  ASSUME NEW c, Proper(c)
  PROVE  /\ Written(c) \in Seq(Letters) /\ Len(Written(c)) >= 1
         /\ Written(c)[1] # Space /\ Written(c)[Len(Written(c))] # Space
<1>1. /\ c.string \in BOOLEAN /\ c.text \in Seq(Letters)
      /\ Doubled(c.text) \in Seq(Letters) /\ Written(c) \in Seq(Letters)
  BY WrittenFits DEF Proper
<1>2. CASE c.string
  <2> DEFINE D == Doubled(c.text)
             W == <<Quote>> \o D \o <<Quote>>
  <2>1. Written(c) = W
    BY <1>2 DEF Written
  <2>2. Quote \in Letters /\ D \in Seq(Letters) /\ Len(D) \in Nat
    BY <1>1, LettersAre
  <2> HIDE DEF D
  <2>3. Len(W) = Len(D) + 2 /\ W[1] = Quote /\ W[Len(D) + 2] = Quote
    BY <2>2
  <2> HIDE DEF W
  <2> QED
    BY <1>1, <2>1, <2>2, <2>3, LettersApart
<1>3. CASE ~ c.string
  <2>1. Written(c) = c.text /\ Len(c.text) = 1 /\ c.text[1] # Space
    BY <1>3 DEF Written, Proper
  <2> QED
    BY <1>1, <2>1
<1> QED
  BY <1>1, <1>2, <1>3

\* A written component is unquoted to its text.
LEMMA UnquotedIsText ==
  ASSUME NEW c, Proper(c), NEW pad \in {<<>>, <<Space>>}
  PROVE  UnquoteComponent(pad \o Written(c)) = c.text
<1>1. /\ c.string \in BOOLEAN /\ c.text \in Seq(Letters)
      /\ Doubled(c.text) \in Seq(Letters) /\ Written(c) \in Seq(Letters)
  BY WrittenFits DEF Proper
<1>2. Trim(pad \o Written(c)) = Written(c)
  <2>1. Written(c) # <<>> /\ Written(c)[1] # Space /\ Written(c)[Len(Written(c))] # Space
    BY WrittenEnds
  <2> QED
    BY <1>1, <2>1, TrimPadded
<1>3. CASE c.string
  <2> DEFINE D == Doubled(c.text)
             W == <<Quote>> \o D \o <<Quote>>
  <2>1. Written(c) = W
    BY <1>3 DEF Written
  <2>2. Quote \in Letters /\ D \in Seq(Letters) /\ Len(D) \in Nat
    BY <1>1, LettersAre
  <2>3. Undoubled(D) = c.text
    BY <1>1, UndoubledDoubled
  <2> HIDE DEF D
  <2>4. W \in Seq(Letters) /\ Len(W) = Len(D) + 2 /\ W[1] = Quote /\ W[Len(D) + 2] = Quote
    BY <2>2
  <2>5. Head(W) = Quote /\ Last(W) = Quote
    BY <2>2, <2>4 DEF Last
  <2>6. SubSeq(W, 2, Len(W) - 1) = D
    <3>1. Len(W) - 1 = Len(D) + 1 /\ \A k \in 1..Len(D) : W[k + 1] = D[k]
      BY <2>2, <2>4
    <3>2. SubSeq(W, 2, Len(D) + 1) \in Seq(Letters) /\ Len(SubSeq(W, 2, Len(D) + 1)) = Len(D)
      BY <2>2, <2>4
    <3>3. \A k \in 1..Len(D) : SubSeq(W, 2, Len(D) + 1)[k] = W[k + 1]
      BY <2>2, <2>4
    <3> HIDE DEF W
    <3>4. SubSeq(W, 2, Len(D) + 1) = D
      BY <2>2, <3>1, <3>2, <3>3, SeqEqual
    <3> QED
      BY <3>1, <3>4
  <2> HIDE DEF W
  <2>7. UnquoteComponent(pad \o Written(c)) = Undoubled(SubSeq(W, 2, Len(W) - 1))
    BY <1>2, <2>1, <2>2, <2>4, <2>5 DEF UnquoteComponent
  <2> QED
    BY <2>3, <2>6, <2>7
<1>4. CASE ~ c.string
  <2>1. Written(c) = c.text /\ Len(c.text) = 1
    BY <1>4 DEF Written, Proper
  <2> QED
    BY <1>2, <2>1 DEF UnquoteComponent
<1> QED
  BY <1>1, <1>3, <1>4

-----------------------------------------------------------------------------
\* The loop over the letters, a letter at a time.
LEMMA SplitSkips ==
  ASSUME NEW data, NEW out, NEW current, NEW q, NEW i
  PROVE  SplitLetter(data, Reader(out, current, q, TRUE), i) = Reader(out, current, q, FALSE)
BY DEF SplitLetter, Reader

LEMMA SplitPairs ==
  ASSUME NEW data, NEW out, NEW current, NEW i,
         data[i] = Quote, i < Len(data), data[i + 1] = Quote
  PROVE  SplitLetter(data, Reader(out, current, TRUE, FALSE), i)
           = Reader(out, current \o <<Quote, Quote>>, TRUE, TRUE)
BY DEF SplitLetter, Reader

LEMMA SplitOpens ==
  ASSUME NEW data, NEW out, NEW current, NEW i, data[i] = Quote
  PROVE  SplitLetter(data, Reader(out, current, FALSE, FALSE), i)
           = Reader(out, Append(current, Quote), TRUE, FALSE)
BY DEF SplitLetter, Reader

LEMMA SplitCloses ==
  ASSUME NEW data, NEW out, NEW current, NEW i,
         data[i] = Quote, ~ (i < Len(data) /\ data[i + 1] = Quote)
  PROVE  SplitLetter(data, Reader(out, current, TRUE, FALSE), i)
           = Reader(out, Append(current, Quote), FALSE, FALSE)
BY DEF SplitLetter, Reader


LEMMA SplitTakesQuoted ==
  ASSUME NEW data, NEW out, NEW current, NEW i, data[i] # Quote
  PROVE  SplitLetter(data, Reader(out, current, TRUE, FALSE), i)
           = Reader(out, Append(current, data[i]), TRUE, FALSE)
BY DEF SplitLetter, Reader

LEMMA SplitTakes ==
  ASSUME NEW data, NEW out, NEW current, NEW i, data[i] # Quote, data[i] # Comma
  PROVE  SplitLetter(data, Reader(out, current, FALSE, FALSE), i)
           = Reader(out, Append(current, data[i]), FALSE, FALSE)
BY DEF SplitLetter, Reader

LEMMA Joined ==
  \A s, t, u \in Seq(Letters) : (s \o t) \o u = s \o (t \o u)
BY ConcatAssociative

\* W comes next in the data, after its first o letters.
Ahead(data, o, W) ==
  o + Len(W) <= Len(data) /\ \A k \in 1..Len(W) : data[o + k] = W[k]

\* No quote comes next.
NoQuote(data, p) == p < Len(data) => data[p + 1] # Quote

\* One turn of the loop.
LEMMA SplitTurn ==
  ASSUME NEW data, NEW a, Splitting(data, a), NEW p \in Nat, Len(data) \in Nat, p < Len(data)
  PROVE  a[p + 1] = SplitLetter(data, a[p], p + 1)
<1>1. p + 1 \in 1..Len(data) /\ (p + 1) - 1 = p
  OBVIOUS
<1> QED
  BY <1>1 DEF Splitting

\* After p letters the reader has these components and is in this one, not in quotes.
At(a, p, out, current) == a[p] = Reader(out, current, FALSE, FALSE)

\* A string in quotes comes next.
BeforeString(data, a, o, s, out, pad) ==
  /\ data \in Seq(Letters) /\ Splitting(data, a) /\ o \in Nat
  /\ s \in Seq(Letters) /\ pad \in Seq(Letters)
  /\ At(a, o, out, pad)
  /\ Ahead(data, o, <<Quote>> \o Doubled(s) \o <<Quote>>)
  /\ NoQuote(data, o + Len(Doubled(s)) + 2)

\* It is read to its closing quote.
LEMMA StringIsRead ==
  ASSUME NEW data, NEW a, NEW o, NEW s, NEW out, NEW pad, BeforeString(data, a, o, s, out, pad)
  PROVE  At(a, o + Len(Doubled(s)) + 2, out, pad \o (<<Quote>> \o Doubled(s) \o <<Quote>>))
<1> SUFFICES ASSUME data \in Seq(Letters), Splitting(data, a), o \in Nat, s \in Seq(Letters),
                    pad \in Seq(Letters), a[o] = Reader(out, pad, FALSE, FALSE),
                    Ahead(data, o, <<Quote>> \o Doubled(s) \o <<Quote>>),
                    NoQuote(data, o + Len(Doubled(s)) + 2)
             PROVE  a[o + Len(Doubled(s)) + 2]
                      = Reader(out, pad \o (<<Quote>> \o Doubled(s) \o <<Quote>>), FALSE, FALSE)
  BY DEF BeforeString, At
<1> DEFINE n == Len(s)
           D == Doubled(s)
           b == o + 1
           cur == pad \o <<Quote>>
<1>1. PICK d : Doubling(s, d) /\ D = d[n]
  BY DoubledIs
<1>2. n \in Nat /\ d \in [0..n -> Seq(Letters)] /\ d[0] = <<>>
  BY <1>1 DEF Doubling
<1>3. \A i \in 1..n : d[i] = d[i - 1] \o Twice(s[i])
  BY <1>1 DEF Doubling
<1>4. \A i \in 1..n : s[i] \in Letters /\ Twice(s[i]) \in Seq(Letters)
  BY TwiceFacts
<1>5. Quote \in Letters
  BY LettersAre
<1> HIDE DEF n, D
<1>6. D \in Seq(Letters) /\ Len(D) \in Nat
  BY <1>1, <1>2
<1>7. \A i \in 0..n : Len(d[i]) <= Len(D) /\ \A k \in 1..Len(d[i]) : D[k] = d[i][k]
  <2> DEFINE e == [i \in 1..n |-> Twice(s[i])]
  <2>1. e \in [1..n -> Seq(Letters)]
    BY <1>4
  <2>2. Grows(n, d, e)
    BY <1>3 DEF Grows
  <2> HIDE DEF e
  <2>3. \A j \in 0..n : \A i \in 0..j : Begins(d[i], d[j])
    BY <1>2, <2>1, <2>2, GrowingBegins
  <2>4. n \in 0..n
    BY <1>2
  <2> QED
    BY <1>1, <2>3, <2>4 DEF Begins
<1>8. /\ b + Len(D) + 1 <= Len(data) /\ data[b] = Quote
      /\ \A k \in 1..Len(D) : data[b + k] = D[k]
      /\ data[b + Len(D) + 1] = Quote
  <2> DEFINE W == <<Quote>> \o D \o <<Quote>>
  <2>1. /\ W \in Seq(Letters) /\ Len(W) = Len(D) + 2 /\ W[1] = Quote /\ W[Len(D) + 2] = Quote
        /\ \A k \in 1..Len(D) : W[k + 1] = D[k]
    BY <1>5, <1>6
  <2>2. o + Len(W) <= Len(data) /\ \A k \in 1..Len(W) : data[o + k] = W[k]
    BY DEF Ahead, D
  <2> HIDE DEF W
  <2>3. \A k \in 1..Len(D) : k + 1 \in 1..Len(W) /\ o + (k + 1) = b + k
    BY <1>6, <2>1
  <2>4. /\ 1 \in 1..Len(W) /\ Len(D) + 2 \in 1..Len(W) /\ o + 1 = b
        /\ o + (Len(D) + 2) = b + Len(D) + 1
    BY <1>6, <2>1
  <2> QED
    BY <1>6, <2>1, <2>2, <2>3, <2>4
<1>9. b \in Nat /\ Len(data) \in Nat /\ b - 1 = o
  OBVIOUS
<1>10. a[b] = Reader(out, cur, TRUE, FALSE)
  <2>4. o < Len(data) /\ data[b] = Quote
    BY <1>6, <1>8, <1>9
  <2>1. a[b] = SplitLetter(data, a[o], b)
    BY <1>9, <2>4, SplitTurn
  <2>2. SplitLetter(data, Reader(out, pad, FALSE, FALSE), b) = Reader(out, Append(pad, Quote), TRUE, FALSE)
    BY <2>4, SplitOpens
  <2>3. Append(pad, Quote) = cur
    BY <1>5
  <2> QED
    BY <2>1, <2>2, <2>3
<1>11. cur \in Seq(Letters)
  BY <1>5
<1> HIDE DEF b, cur
<1> DEFINE T == {i \in 0..n : a[b + Len(d[i])] = Reader(out, cur \o d[i], TRUE, FALSE)}
<1> HIDE DEF T
<1>12. 0 \in T
  <2>1. 0 \in 0..n
    BY <1>2
  <2>2. b + Len(d[0]) = b /\ cur \o d[0] = cur
    BY <1>2, <1>9, <1>11
  <2> QED
    BY <1>10, <2>1, <2>2 DEF T
<1>13. ASSUME NEW i \in 1..n, i - 1 \in T PROVE i \in T
  <2> DEFINE m == Len(d[i - 1])
             now == cur \o d[i - 1]
  <2>1. /\ d[i - 1] \in Seq(Letters) /\ d[i] \in Seq(Letters) /\ m \in Nat
        /\ i \in 0..n /\ s[i] \in Letters
    BY <1>2, <1>4
  <2>2. a[b + m] = Reader(out, now, TRUE, FALSE)
    BY <1>13 DEF T
  <2>3. d[i] = d[i - 1] \o Twice(s[i])
    BY <1>3
  <2>4. Len(d[i]) <= Len(D) /\ \A k \in 1..Len(d[i]) : D[k] = d[i][k]
    BY <1>7, <2>1
  <2>5. now \in Seq(Letters) /\ b + m \in Nat
    BY <1>9, <1>11, <2>1
  <2>6. i \in T <=> a[b + Len(d[i])] = Reader(out, cur \o d[i], TRUE, FALSE)
    BY <2>1 DEF T
  <2>7. CASE s[i] = Quote
    <3>1. d[i] = d[i - 1] \o <<Quote, Quote>>
      BY <2>3, <2>7 DEF Twice
    <3>2. Len(d[i]) = m + 2 /\ d[i][m + 1] = Quote /\ d[i][m + 2] = Quote
      BY <1>5, <2>1, <3>1
    <3>3. m + 2 <= Len(D) /\ D[m + 1] = Quote /\ D[m + 2] = Quote
      <4> HIDE DEF m
      <4>1. m + 1 \in 1..Len(d[i]) /\ m + 2 \in 1..Len(d[i])
        BY <2>1, <3>2
      <4> QED
        BY <2>4, <3>2, <4>1
    <3>4. cur \o d[i] = now \o <<Quote, Quote>>
      <4> DEFINE two == <<Quote, Quote>>
      <4>1. two \in Seq(Letters)
        BY <1>5
      <4> HIDE DEF two
      <4>3. cur \o (d[i - 1] \o two) = (cur \o d[i - 1]) \o two
        BY <1>11, <2>1, <4>1, Joined
      <4>2. cur \o (d[i - 1] \o <<Quote, Quote>>) = (cur \o d[i - 1]) \o <<Quote, Quote>>
        BY <4>3 DEF two
      <4> QED
        BY <3>1, <4>2
    <3> HIDE DEF m, now
    <3>5. data[b + m + 1] = Quote /\ data[b + m + 2] = Quote /\ b + m + 2 < Len(data)
      <4>1. m + 1 \in 1..Len(D) /\ m + 2 \in 1..Len(D) /\ b + (m + 1) = b + m + 1 /\ b + (m + 2) = b + m + 2
        BY <1>6, <1>9, <2>1, <3>3
      <4>2. data[b + (m + 1)] = Quote /\ data[b + (m + 2)] = Quote
        BY <1>8, <3>3, <4>1
      <4> QED
        BY <1>6, <1>8, <1>9, <2>1, <3>3, <4>1, <4>2
    <3>6. a[b + m + 1] = Reader(out, now \o <<Quote, Quote>>, TRUE, TRUE)
      <4>1. a[b + m + 1] = SplitLetter(data, a[b + m], b + m + 1)
        BY <1>9, <2>1, <2>5, <3>5, SplitTurn
      <4>2. b + m + 1 < Len(data) /\ data[(b + m + 1) + 1] = Quote
        BY <1>9, <2>1, <3>5
      <4>3. SplitLetter(data, Reader(out, now, TRUE, FALSE), b + m + 1)
              = Reader(out, now \o <<Quote, Quote>>, TRUE, TRUE)
        BY <3>5, <4>2, SplitPairs
      <4> QED
        BY <2>2, <4>1, <4>3
    <3>7. a[b + m + 2] = Reader(out, now \o <<Quote, Quote>>, TRUE, FALSE)
      <4>1. b + m + 1 \in Nat /\ b + m + 1 < Len(data) /\ (b + m + 1) + 1 = b + m + 2
        BY <1>9, <2>1, <3>5
      <4>2. a[b + m + 2] = SplitLetter(data, a[b + m + 1], b + m + 2)
        BY <1>9, <4>1, SplitTurn
      <4>3. SplitLetter(data, Reader(out, now \o <<Quote, Quote>>, TRUE, TRUE), b + m + 2)
              = Reader(out, now \o <<Quote, Quote>>, TRUE, FALSE)
        BY SplitSkips
      <4> QED
        BY <3>6, <4>2, <4>3
    <3>8. b + Len(d[i]) = b + m + 2
      BY <1>9, <2>1, <3>2
    <3> QED
      BY <2>6, <3>4, <3>7, <3>8
  <2>8. CASE s[i] # Quote
    <3>1. d[i] = d[i - 1] \o <<s[i]>>
      BY <2>3, <2>8 DEF Twice
    <3>2. Len(d[i]) = m + 1 /\ d[i][m + 1] = s[i]
      BY <2>1, <3>1
    <3>3. m + 1 <= Len(D) /\ D[m + 1] = s[i]
      <4> HIDE DEF m
      <4>1. m + 1 \in 1..Len(d[i])
        BY <2>1, <3>2
      <4> QED
        BY <2>4, <3>2, <4>1
    <3>4. cur \o d[i] = Append(now, s[i])
      <4> DEFINE one == <<s[i]>>
      <4>1. one \in Seq(Letters)
        BY <2>1
      <4> HIDE DEF one
      <4>4. cur \o (d[i - 1] \o one) = (cur \o d[i - 1]) \o one
        BY <1>11, <2>1, <4>1, Joined
      <4>2. cur \o (d[i - 1] \o <<s[i]>>) = (cur \o d[i - 1]) \o <<s[i]>>
        BY <4>4 DEF one
      <4>3. cur \o d[i] = now \o <<s[i]>>
        BY <3>1, <4>2
      <4> QED
        BY <2>1, <2>5, <4>3, AppendIsConcat
    <3> HIDE DEF m, now
    <3>5. data[b + m + 1] = s[i] /\ b + m + 1 <= Len(data) /\ b + m < Len(data)
      <4>1. m + 1 \in 1..Len(D) /\ b + (m + 1) = b + m + 1
        BY <1>6, <1>9, <2>1, <3>3
      <4>2. data[b + (m + 1)] = s[i]
        BY <1>8, <3>3, <4>1
      <4> QED
        BY <1>6, <1>8, <1>9, <2>1, <3>3, <4>1, <4>2
    <3>6. a[b + m + 1] = Reader(out, Append(now, s[i]), TRUE, FALSE)
      <4>1. a[b + m + 1] = SplitLetter(data, a[b + m], b + m + 1)
        BY <1>9, <2>1, <2>5, <3>5, SplitTurn
      <4>2. SplitLetter(data, Reader(out, now, TRUE, FALSE), b + m + 1)
              = Reader(out, Append(now, data[b + m + 1]), TRUE, FALSE)
        <5>1. data[b + m + 1] # Quote
          BY <2>8, <3>5
        <5> QED
          BY <5>1, SplitTakesQuoted
      <4> QED
        BY <2>2, <3>5, <4>1, <4>2
    <3>7. b + Len(d[i]) = b + m + 1
      BY <1>9, <2>1, <3>2
    <3> QED
      BY <2>6, <3>4, <3>6, <3>7
  <2> QED
    BY <2>7, <2>8
<1>14. \A i \in 0..n : i \in T
  BY <1>2, <1>12, <1>13, LoopInduction
<1>15. a[b + Len(D)] = Reader(out, cur \o D, TRUE, FALSE)
  <2>1. n \in T
    BY <1>2, <1>14
  <2> QED
    BY <1>1, <2>1 DEF T
<1>16. a[b + Len(D) + 1] = Reader(out, Append(cur \o D, Quote), FALSE, FALSE)
  <2>1. b + Len(D) \in Nat /\ b + Len(D) < Len(data)
    BY <1>6, <1>8, <1>9
  <2>2. a[b + Len(D) + 1] = SplitLetter(data, a[b + Len(D)], b + Len(D) + 1)
    BY <1>9, <2>1, SplitTurn
  <2>3. ~ (b + Len(D) + 1 < Len(data) /\ data[(b + Len(D) + 1) + 1] = Quote)
    <3>1. o + Len(D) + 2 = b + Len(D) + 1
      BY <1>6, <1>9
    <3>2. NoQuote(data, b + Len(D) + 1)
      BY <3>1 DEF D
    <3> QED
      BY <3>2 DEF NoQuote
  <2>4. SplitLetter(data, Reader(out, cur \o D, TRUE, FALSE), b + Len(D) + 1)
          = Reader(out, Append(cur \o D, Quote), FALSE, FALSE)
    <3>1. data[b + Len(D) + 1] = Quote
      BY <1>8
    <3> QED
      BY <2>3, <3>1, SplitCloses
  <2> QED
    BY <1>15, <2>2, <2>4
<1>17. Append(cur \o D, Quote) = pad \o (<<Quote>> \o D \o <<Quote>>)
  <2>1. <<Quote>> \in Seq(Letters) /\ <<Quote>> \o D \in Seq(Letters) /\ cur \o D \in Seq(Letters)
    BY <1>5, <1>6, <1>11
  <2>2. Append(cur \o D, Quote) = (cur \o D) \o <<Quote>>
    BY <1>5, <2>1, AppendIsConcat
  <2>3. cur \o D = pad \o (<<Quote>> \o D)
    BY <1>6, <2>1, ConcatAssociative DEF cur
  <2>4. (pad \o (<<Quote>> \o D)) \o <<Quote>> = pad \o ((<<Quote>> \o D) \o <<Quote>>)
    <3> DEFINE one == <<Quote>>
               most == <<Quote>> \o D
    <3>1. one \in Seq(Letters) /\ most \in Seq(Letters)
      BY <2>1
    <3> HIDE DEF one, most
    <3>2. (pad \o most) \o one = pad \o (most \o one)
      BY <3>1, Joined
    <3> QED
      BY <3>2 DEF one, most
  <2> QED
    BY <2>2, <2>3, <2>4
<1>18. o + Len(D) + 2 = b + Len(D) + 1
  BY <1>6, <1>9
<1> QED
  BY <1>16, <1>17, <1>18 DEF D

\* A component comes next.
BeforeComponent(data, a, o, c, out, pad) ==
  /\ data \in Seq(Letters) /\ Splitting(data, a) /\ o \in Nat
  /\ Proper(c) /\ pad \in Seq(Letters)
  /\ At(a, o, out, pad)
  /\ Ahead(data, o, Written(c)) /\ NoQuote(data, o + Len(Written(c)))

\* It is read to its end.
LEMMA ComponentIsRead ==
  ASSUME NEW data, NEW a, NEW o, NEW c, NEW out, NEW pad, BeforeComponent(data, a, o, c, out, pad)
  PROVE  At(a, o + Len(Written(c)), out, pad \o Written(c))
<1> SUFFICES ASSUME data \in Seq(Letters), Splitting(data, a), o \in Nat, Proper(c),
                    pad \in Seq(Letters), a[o] = Reader(out, pad, FALSE, FALSE),
                    Ahead(data, o, Written(c)), NoQuote(data, o + Len(Written(c)))
             PROVE  a[o + Len(Written(c))] = Reader(out, pad \o Written(c), FALSE, FALSE)
  BY DEF BeforeComponent, At
<1>1. /\ c.string \in BOOLEAN /\ c.text \in Seq(Letters)
      /\ Doubled(c.text) \in Seq(Letters) /\ Written(c) \in Seq(Letters)
  BY WrittenFits DEF Proper
<1>2. CASE c.string
  <2> DEFINE D == Doubled(c.text)
  <2>1. Written(c) = <<Quote>> \o D \o <<Quote>>
    BY <1>2 DEF Written
  <2>2. D \in Seq(Letters) /\ Quote \in Letters
    BY <1>1, LettersAre
  <2> HIDE DEF D
  <2>3. Len(Written(c)) = Len(D) + 2 /\ Len(D) \in Nat
    BY <2>1, <2>2
  <2>4. o + Len(Written(c)) = o + Len(D) + 2
    BY <2>3
  <2> DEFINE text == c.text
  <2>5. text \in Seq(Letters) /\ D = Doubled(text)
    BY <1>1 DEF D
  <2> HIDE DEF text
  <2>6. BeforeString(data, a, o, text, out, pad)
    BY <2>1, <2>4, <2>5 DEF BeforeString, At
  <2>7. At(a, o + Len(Doubled(text)) + 2, out, pad \o (<<Quote>> \o Doubled(text) \o <<Quote>>))
    BY <2>6, StringIsRead
  <2> QED
    BY <2>1, <2>4, <2>5, <2>7 DEF At
<1>3. CASE ~ c.string
  <2>1. /\ Written(c) = c.text /\ Len(c.text) = 1
        /\ c.text[1] # Quote /\ c.text[1] # Comma /\ c.text[1] \in Letters
    BY <1>1, <1>3 DEF Written, Proper
  <2>2. o + 1 <= Len(data) /\ data[o + 1] = c.text[1]
    BY <1>1, <2>1 DEF Ahead
  <2>3. Len(data) \in Nat /\ o < Len(data)
    BY <2>2
  <2>4. a[o + 1] = SplitLetter(data, a[o], o + 1)
    BY <2>3, SplitTurn
  <2>5. SplitLetter(data, Reader(out, pad, FALSE, FALSE), o + 1)
          = Reader(out, Append(pad, data[o + 1]), FALSE, FALSE)
    <3>1. data[o + 1] # Quote /\ data[o + 1] # Comma
      BY <2>1, <2>2
    <3> QED
      BY <3>1, SplitTakes
  <2>6. Append(pad, c.text[1]) = pad \o Written(c)
    <3>1. c.text = <<c.text[1]>>
      BY <1>1, <2>1
    <3>2. Append(pad, c.text[1]) = pad \o <<c.text[1]>>
      BY <2>1, AppendIsConcat
    <3> QED
      BY <2>1, <3>1, <3>2
  <2> QED
    BY <2>1, <2>2, <2>4, <2>5, <2>6
<1> QED
  BY <1>1, <1>2, <1>3

\* The first n components' texts.
Texts(key, n) == [k \in 1..n |-> key[k].text]
Pad(i) == IF i = 1 THEN <<>> ELSE <<Space>>

LEMMA TextsGrow ==
  ASSUME NEW key, NEW n \in Nat
  PROVE  Append(Texts(key, n), key[n + 1].text) = Texts(key, n + 1)
<1> DEFINE U == {key[k].text : k \in 1..(n + 1)}
<1>1. Texts(key, n) \in Seq(U) /\ Len(Texts(key, n)) = n /\ \A k \in 1..n : Texts(key, n)[k] = key[k].text
  <2>1. \A k \in 1..n : k \in 1..(n + 1)
    OBVIOUS
  <2>2. Texts(key, n) \in [1..n -> U]
    BY <2>1 DEF Texts
  <2> QED
    BY <2>2 DEF Texts
<1>2. key[n + 1].text \in U
  OBVIOUS
<1>3. Texts(key, n + 1) \in Seq(U) /\ Len(Texts(key, n + 1)) = n + 1
      /\ \A k \in 1..(n + 1) : Texts(key, n + 1)[k] = key[k].text
  <2>2. Texts(key, n + 1) \in [1..(n + 1) -> U]
    BY DEF Texts
  <2> QED
    BY <2>2 DEF Texts
<1> HIDE DEF U
<1> DEFINE s == Texts(key, n)
           x == key[n + 1].text
<1>4. s \in Seq(U) /\ Len(s) = n /\ x \in U
  BY <1>1, <1>2
<1>5. \A k \in 1..n : s[k] = key[k].text
  BY <1>1
<1> HIDE DEF s
<1>6. Append(s, x) \in Seq(U) /\ Len(Append(s, x)) = n + 1
      /\ (\A k \in 1..n : Append(s, x)[k] = s[k]) /\ Append(s, x)[n + 1] = x
  BY <1>4
<1>7. \A k \in 1..(n + 1) : Append(s, x)[k] = Texts(key, n + 1)[k]
  BY <1>3, <1>5, <1>6
<1>8. Append(s, x) = Texts(key, n + 1)
  BY <1>3, <1>6, <1>7, SeqEqual
<1> QED
  BY <1>8 DEF s

\* Where a component is in the written key.
LEMMA WrittenKeyParts ==
  ASSUME NEW key \in Seq(KeyComponents), NEW w, Writing(key, w),
         \A i \in 1..Len(key) : Proper(key[i])
  PROVE  \A i \in 1..Len(key) :
           /\ w[i] = w[i - 1] \o (Separator(i) \o Written(key[i]))
           /\ Begins(w[i], w[Len(key)])
<1> DEFINE n == Len(key)
           e == [i \in 1..n |-> Separator(i) \o Written(key[i])]
<1>1. n \in Nat /\ w \in [0..n -> Seq(Letters)]
  BY DEF Writing
<1>2. \A i \in 1..n : w[i] = w[i - 1] \o Separator(i) \o Written(key[i])
  BY DEF Writing
<1>3. \A i \in 1..n : Separator(i) \in Seq(Letters) /\ Written(key[i]) \in Seq(Letters)
  <2> SUFFICES ASSUME NEW i \in 1..n
               PROVE  Separator(i) \in Seq(Letters) /\ Written(key[i]) \in Seq(Letters)
    OBVIOUS
  <2>1. Comma \in Letters /\ Space \in Letters
    BY LettersAre
  <2>2. Separator(i) \in Seq(Letters)
    BY <2>1 DEF Separator
  <2>3. Written(key[i]) \in Seq(Letters)
    BY WrittenEnds
  <2> QED
    BY <2>2, <2>3
<1> HIDE DEF n
<1>4. e \in [1..n -> Seq(Letters)]
  BY <1>3
<1>5. \A i \in 1..n : w[i] = w[i - 1] \o e[i]
  <2> SUFFICES ASSUME NEW i \in 1..n PROVE w[i] = w[i - 1] \o e[i]
    OBVIOUS
  <2>1. w[i - 1] \in Seq(Letters)
    BY <1>1
  <2>2. (w[i - 1] \o Separator(i)) \o Written(key[i]) = w[i - 1] \o (Separator(i) \o Written(key[i]))
    BY <1>3, <2>1, Joined
  <2> QED
    BY <1>2, <2>2
<1>6. \A i \in 1..n : e[i] = Separator(i) \o Written(key[i])
  OBVIOUS
<1> HIDE DEF e
<1>7. Grows(n, w, e)
  BY <1>5 DEF Grows
<1>8. \A j \in 0..n : \A i \in 0..j : Begins(w[i], w[j])
  BY <1>1, <1>4, <1>7, GrowingBegins
<1>9. n \in 0..n /\ \A i \in 1..n : i \in 0..n
  BY <1>1
<1>10. \A i \in 1..n : Begins(w[i], w[n])
  BY <1>8, <1>9
<1> QED
  BY <1>5, <1>6, <1>10 DEF n

\* A component, what is before it, and where it ends.
ComponentIsAt(key, w, i) ==
  LET data == w[Len(key)]
      o == Len(w[i - 1])
      sep == IF i = 1 THEN 0 ELSE 2
  IN /\ o \in Nat /\ o + sep + Len(Written(key[i])) = Len(w[i])
     /\ Ahead(data, o + sep, Written(key[i]))
     /\ i # 1 => o + 2 <= Len(data) /\ data[o + 1] = Comma /\ data[o + 2] = Space

LEMMA ComponentIsAhead ==
  ASSUME NEW key \in Seq(KeyComponents), NEW w, Writing(key, w), NEW i \in 1..Len(key),
         \A k \in 1..Len(key) : Proper(key[k])
  PROVE  ComponentIsAt(key, w, i)
<1> DEFINE data == w[Len(key)]
           W == Written(key[i])
           p == w[i - 1]
           S == Separator(i)
           sep == IF i = 1 THEN 0 ELSE 2
<1>1. w[i] = p \o (S \o W) /\ Begins(w[i], data)
  BY WrittenKeyParts
<1>2. W \in Seq(Letters)
  BY WrittenEnds
<1>3. data \in Seq(Letters) /\ p \in Seq(Letters) /\ w[i] \in Seq(Letters)
  <2>1. Len(key) \in Nat /\ i - 1 \in 0..Len(key) /\ Len(key) \in 0..Len(key) /\ i \in 0..Len(key)
    OBVIOUS
  <2> QED
    BY <2>1 DEF Writing
<1>4. /\ S \in Seq(Letters) /\ Len(S) = sep
      /\ i # 1 => S[1] = Comma /\ S[2] = Space
  <2>1. Comma \in Letters /\ Space \in Letters
    BY LettersAre
  <2> QED
    BY <2>1 DEF Separator
<1>5. sep \in Nat
  OBVIOUS
<1>12. i # 1 => sep = 2
  OBVIOUS
<1> HIDE DEF data, W, p, S, sep
<1>6. S \o W \in Seq(Letters) /\ Len(S \o W) = sep + Len(W) /\ Len(W) \in Nat
      /\ (\A k \in 1..sep : (S \o W)[k] = S[k]) /\ \A k \in 1..Len(W) : (S \o W)[sep + k] = W[k]
  BY <1>2, <1>4, <1>5
<1> DEFINE e == S \o W
           o == Len(p)
<1> HIDE DEF e
<1>7. /\ o \in Nat /\ Len(w[i]) = o + Len(e) /\ Len(e) = sep + Len(W)
      /\ \A k \in 1..Len(e) : w[i][o + k] = e[k]
  BY <1>1, <1>3, <1>6 DEF e
<1> HIDE DEF o
<1>8. Len(w[i]) <= Len(data) /\ \A k \in 1..Len(e) : data[o + k] = e[k]
  <2>1. \A k \in 1..Len(e) : o + k \in 1..Len(w[i])
    BY <1>6, <1>7, <1>5
  <2> QED
    BY <1>1, <1>7, <2>1 DEF Begins
<1>9. Len(data) \in Nat
  BY <1>3
<1>10. Ahead(data, o + sep, W)
  <2>1. \A k \in 1..Len(W) : sep + k \in 1..Len(e) /\ o + (sep + k) = (o + sep) + k
    BY <1>5, <1>6, <1>7
  <2>2. \A k \in 1..Len(W) : e[sep + k] = W[k]
    BY <1>6 DEF e
  <2>3. (o + sep) + Len(W) <= Len(data)
    BY <1>5, <1>6, <1>7, <1>8, <1>9
  <2> QED
    BY <1>8, <2>1, <2>2, <2>3 DEF Ahead
<1>11. i # 1 => o + 2 <= Len(data) /\ data[o + 1] = Comma /\ data[o + 2] = Space
  <2> SUFFICES ASSUME i # 1 PROVE o + 2 <= Len(data) /\ data[o + 1] = Comma /\ data[o + 2] = Space
    OBVIOUS
  <2>1. sep = 2
    BY <1>12
  <2>2. e[1] = Comma /\ e[2] = Space
    BY <1>4, <1>6, <2>1 DEF e
  <2>3. 1 \in 1..Len(e) /\ 2 \in 1..Len(e)
    BY <1>6, <1>7, <2>1
  <2> QED
    BY <1>6, <1>7, <1>8, <1>9, <2>1, <2>2, <2>3
<1>13. o + sep + Len(W) = Len(w[i])
  BY <1>5, <1>6, <1>7
<1> QED
  BY <1>7, <1>10, <1>11, <1>13 DEF ComponentIsAt, data, W, p, sep, o

\* A written key is read back component by component.
LEMMA KeyIsRead ==
  ASSUME NEW key \in Seq(KeyComponents), \A i \in 1..Len(key) : Proper(key[i])
  PROVE  SplitLockData(WrittenKey(key)) = Texts(key, Len(key))
<1> DEFINE n == Len(key)
<1>1. n \in Nat
  OBVIOUS
<1>2. PICK w : Writing(key, w) /\ WrittenKey(key) = w[n]
  BY WrittenIs
<1>3. w \in [0..n -> Seq(Letters)] /\ w[0] = <<>>
  BY <1>2 DEF Writing
<1> DEFINE data == w[n]
<1>4. data \in Seq(Letters) /\ Len(data) \in Nat
  BY <1>1, <1>3
<1>5. CASE n = 0
  <2>1. data = <<>>
    BY <1>3, <1>5
  <2>2. Trim(<<>>) = <<>>
    BY DEF Trim
  <2>3. SplitLockData(<<>>) = <<>>
    BY <2>2 DEF SplitLockData
  <2>4. Texts(key, n) = <<>>
    BY <1>5 DEF Texts
  <2> QED
    BY <1>2, <2>1, <2>3, <2>4
<1>6. CASE n # 0
  <2>1. PICK a : /\ Splitting(data, a)
                 /\ data # <<>> /\ Trim(data) = data =>
                      SplitLockData(data) = Append(a[Len(data)].out, UnquoteComponent(a[Len(data)].current))
    BY <1>4, SplitIs
  <2> DEFINE o(i) == Len(w[i - 1])
  <2>2. \A i \in 1..n : Proper(key[i])
    OBVIOUS
  <2>3. ASSUME NEW i \in 1..n
        PROVE  /\ o(i) \in Nat /\ o(i) + (IF i = 1 THEN 0 ELSE 2) + Len(Written(key[i])) = Len(w[i])
               /\ Ahead(data, o(i) + (IF i = 1 THEN 0 ELSE 2), Written(key[i]))
               /\ i # 1 => /\ o(i) + 2 <= Len(data)
                           /\ data[o(i) + 1] = Comma /\ data[o(i) + 2] = Space
    <3>1. ComponentIsAt(key, w, i)
      BY <1>2, <2>2, ComponentIsAhead
    <3> QED
      BY <3>1 DEF ComponentIsAt
  <2>4. ASSUME NEW i \in 1..n
        PROVE  /\ Written(key[i]) \in Seq(Letters) /\ Len(Written(key[i])) \in Nat
               /\ Len(Written(key[i])) >= 1
               /\ Written(key[i])[1] # Space /\ Written(key[i])[Len(Written(key[i]))] # Space
    BY <2>2, WrittenEnds
  <2> HIDE DEF data, n
  <2>5. ASSUME NEW i \in 1..n PROVE NoQuote(data, Len(w[i]))
    <3>1. CASE i = n
      BY <1>4, <3>1 DEF NoQuote, data
    <3>2. CASE i # n
      <4>1. i + 1 \in 1..n /\ i + 1 # 1 /\ (i + 1) - 1 = i
        BY <1>1, <3>2
      <4>2. data[Len(w[i]) + 1] = Comma
        BY <2>3, <4>1
      <4> QED
        BY <4>2, LettersApart DEF NoQuote
    <3> QED
      BY <3>1, <3>2
  <2> DEFINE T == {i \in 0..n : i > 0 =>
                     a[Len(w[i])] = Reader(Texts(key, i - 1), Pad(i) \o Written(key[i]), FALSE, FALSE)}
  <2> HIDE DEF T
  <2>6. 0 \in T
    BY <1>1 DEF T
  <2>7. ASSUME NEW i \in 1..n, i - 1 \in T PROVE i \in T
    <3> DEFINE c == key[i]
               W == Written(c)
    <3>1. Proper(c) /\ W \in Seq(Letters) /\ Len(W) \in Nat
      BY <2>2, <2>4
    <3>2. NoQuote(data, Len(w[i]))
      BY <2>5
    <3>3. i \in 0..n /\ i > 0 /\ i \in Nat
      BY <1>1
    <3>4. i \in T <=> a[Len(w[i])] = Reader(Texts(key, i - 1), Pad(i) \o W, FALSE, FALSE)
      BY <3>3 DEF T
    <3>5. CASE i = 1
      <4>1. o(i) = 0
        BY <1>3, <3>5
      <4>2. Len(W) = Len(w[i]) /\ Ahead(data, 0, W)
        <5>1. 0 + 0 + Len(W) = Len(w[i]) /\ Ahead(data, 0 + 0, W)
          BY <2>3, <3>5, <4>1
        <5> QED
          BY <3>1, <5>1
      <4> DEFINE none == <<>>
      <4>3. none \in Seq(Letters) /\ Pad(i) = none /\ Texts(key, i - 1) = none
        BY <3>5 DEF Pad, Texts
      <4>4. a[0] = Reader(none, none, FALSE, FALSE)
        BY <2>1 DEF Splitting
      <4> HIDE DEF none, c
      <4>5. a[Len(W)] = Reader(none, none \o W, FALSE, FALSE)
        <5> DEFINE z == 0
        <5>1. z + Len(W) = Len(W) /\ z \in Nat
          BY <3>1
        <5>3. a[z] = Reader(none, none, FALSE, FALSE) /\ Ahead(data, z, W)
          BY <4>2, <4>4
        <5> HIDE DEF z
        <5>2. BeforeComponent(data, a, z, c, none, none)
          BY <1>4, <2>1, <3>1, <3>2, <4>2, <4>3, <5>1, <5>3 DEF BeforeComponent, At
        <5>4. At(a, z + Len(W), none, none \o W)
          BY <5>2, ComponentIsRead
        <5> QED
          BY <5>1, <5>4 DEF At
      <4> QED
        BY <3>4, <4>2, <4>3, <4>5
    <3>6. CASE i # 1
      <4> DEFINE m == o(i)
                 before == key[i - 1]
                 pad == <<Space>>
                 read == Texts(key, i - 1)
      <4>1. i - 1 \in 1..n /\ i - 1 > 0 /\ (i - 1) - 1 = i - 2 /\ i - 2 \in Nat /\ (i - 2) + 1 = i - 1
        BY <1>1, <3>3, <3>6
      <4>2. a[m] = Reader(Texts(key, i - 2), Pad(i - 1) \o Written(before), FALSE, FALSE)
        BY <2>7, <4>1 DEF T
      <4>3. /\ m \in Nat /\ m + 2 + Len(W) = Len(w[i]) /\ Ahead(data, m + 2, W)
            /\ m + 2 <= Len(data) /\ data[m + 1] = Comma /\ data[m + 2] = Space
        BY <2>3, <3>6
      <4>4. UnquoteComponent(Pad(i - 1) \o Written(before)) = before.text
        <5>1. Pad(i - 1) \in {<<>>, <<Space>>}
          BY DEF Pad
        <5>2. Proper(before)
          BY <2>2, <4>1
        <5> QED
          BY <5>1, <5>2, UnquotedIsText
      <4>5. Append(Texts(key, i - 2), before.text) = read
        BY <4>1, TextsGrow
      <4>6. pad \in Seq(Letters) /\ Append(<<>>, Space) = pad /\ Pad(i) = pad
        BY <3>6, LettersAre DEF Pad
      <4> HIDE DEF m, before, pad, read, c
      <4>7. m < Len(data) /\ m + 1 < Len(data) /\ m + 1 \in Nat /\ (m + 1) + 1 = m + 2 /\ m + 2 \in Nat
        BY <1>4, <4>3
      <4>8. a[m + 1] = Reader(read, <<>>, FALSE, FALSE)
        <5>1. a[m + 1] = SplitLetter(data, a[m], m + 1)
          BY <1>4, <2>1, <4>3, <4>7, SplitTurn
        <5> DEFINE current == Pad(i - 1) \o Written(before)
                   past == Texts(key, i - 2)
        <5> DEFINE text == before.text
        <5>2. a[m] = Reader(past, current, FALSE, FALSE) /\ Append(past, text) = read
          BY <4>2, <4>5
        <5>4. text = UnquoteComponent(current)
          BY <4>4
        <5> HIDE DEF current, past, text
        <5>3. SplitLetter(data, Reader(past, current, FALSE, FALSE), m + 1)
                = Reader(Append(past, text), <<>>, FALSE, FALSE)
          <6>1. data[m + 1] = Comma
            BY <4>3
          <6> QED
            BY <5>4, <6>1, LettersApart DEF SplitLetter, Reader
        <5> QED
          BY <5>1, <5>2, <5>3
      <4>9. a[m + 2] = Reader(read, pad, FALSE, FALSE)
        <5>1. a[m + 2] = SplitLetter(data, a[m + 1], m + 2)
          BY <1>4, <2>1, <4>7, SplitTurn
        <5>2. data[m + 2] # Quote /\ data[m + 2] # Comma
          BY <4>3, LettersApart
        <5>3. SplitLetter(data, Reader(read, <<>>, FALSE, FALSE), m + 2)
                = Reader(read, Append(<<>>, data[m + 2]), FALSE, FALSE)
          BY <5>2, SplitTakes
        <5> QED
          BY <4>3, <4>6, <4>8, <5>1, <5>3
      <4>10. a[(m + 2) + Len(W)] = Reader(read, pad \o W, FALSE, FALSE)
        <5>1. (m + 2) + Len(W) = Len(w[i])
          BY <4>3
        <5>2. NoQuote(data, (m + 2) + Len(W))
          BY <3>2, <5>1
        <5> DEFINE z == m + 2
        <5>3. z \in Nat /\ a[z] = Reader(read, pad, FALSE, FALSE) /\ Ahead(data, z, W)
          BY <4>3, <4>7, <4>9
        <5>4. NoQuote(data, z + Len(W))
          BY <5>2
        <5> HIDE DEF z
        <5>5. BeforeComponent(data, a, z, c, read, pad)
          BY <1>4, <2>1, <3>1, <4>6, <5>3, <5>4 DEF BeforeComponent, At
        <5>6. At(a, z + Len(W), read, pad \o W)
          BY <5>5, ComponentIsRead
        <5> QED
          BY <5>6 DEF z, At
      <4> QED
        BY <3>4, <4>3, <4>6, <4>10 DEF read
    <3> QED
      BY <3>5, <3>6
  <2>8. \A i \in 0..n : i \in T
    BY <1>1, <2>6, <2>7, LoopInduction
  <2>9. n \in 1..n /\ n \in 0..n /\ n > 0 /\ n - 1 \in Nat /\ (n - 1) + 1 = n
    BY <1>1, <1>6
  <2>10. a[Len(data)] = Reader(Texts(key, n - 1), Pad(n) \o Written(key[n]), FALSE, FALSE)
    BY <2>8, <2>9 DEF T, data
  <2>11. UnquoteComponent(Pad(n) \o Written(key[n])) = key[n].text
    <3>1. Pad(n) \in {<<>>, <<Space>>}
      BY DEF Pad
    <3> QED
      BY <2>2, <2>9, <3>1, UnquotedIsText
  <2>12. Append(a[Len(data)].out, UnquoteComponent(a[Len(data)].current)) = Texts(key, n)
    <3>1. Append(Texts(key, n - 1), key[n].text) = Texts(key, n)
      BY <2>9, TextsGrow
    <3> QED
      BY <2>10, <2>11, <3>1 DEF Reader
  <2>13. data # <<>> /\ data[1] # Space /\ data[Len(data)] # Space
    <3>1. /\ 1 \in 1..n
          /\ \E i \in 1..n : i = 1
      BY <1>1, <1>6
    <3>2. o(1) = 0 /\ Ahead(data, 0, Written(key[1]))
      <4>1. o(1) = 0
        BY <1>3
      <4>2. Ahead(data, 0 + 0, Written(key[1]))
        BY <2>3, <3>1, <4>1
      <4> QED
        BY <4>1, <4>2
    <3>3. Len(data) >= 1 /\ data[1] # Space
      <4>1. 1 \in 1..Len(Written(key[1])) /\ 0 + 1 = 1
        BY <2>4, <3>1
      <4> QED
        BY <1>4, <2>4, <3>1, <3>2, <4>1 DEF Ahead
    <3>4. data[Len(data)] # Space
      <4> DEFINE sep == IF n = 1 THEN 0 ELSE 2
                 W == Written(key[n])
      <4>1. o(n) + sep + Len(W) = Len(data) /\ Ahead(data, o(n) + sep, W) /\ o(n) \in Nat
        BY <2>3, <2>9 DEF data
      <4>2. Len(W) \in 1..Len(W) /\ W[Len(W)] # Space
        BY <2>4, <2>9
      <4> HIDE DEF W
      <4> QED
        BY <4>1, <4>2 DEF Ahead
    <3> QED
      BY <3>3, <3>4
  <2>14. Trim(data) = data
    <3> DEFINE none == <<>>
    <3>1. none \in {<<>>, <<Space>>} /\ none \o data = data
      BY <1>4
    <3> HIDE DEF none
    <3>2. Trim(none \o data) = data
      BY <1>4, <2>13, <3>1, TrimPadded
    <3> QED
      BY <3>1, <3>2
  <2> QED
    BY <1>2, <2>1, <2>12, <2>13, <2>14 DEF data, n
<1> QED
  BY <1>5, <1>6

-----------------------------------------------------------------------------
\* What is read back is what a sample's key has.
LEMMA SampleKeyIsRead ==
  ASSUME ViewsAssumption, sample \in Samples PROVE KeysReadBack
<1> SUFFICES ASSUME sample.kind = "key"
             PROVE  SplitLockData(WrittenKey(sample.key)) = [i \in DOMAIN sample.key |-> sample.key[i].text]
  BY DEF KeysReadBack
<1> DEFINE key == sample.key
<1>1. key \in UpTo(Components, 2)
  <2>1. \A s \in LockSamples : s.kind = "lock"
    BY DEF LockSamples
  <2> QED
    BY <2>1 DEF Samples
<1> HIDE DEF key
<1>2. ASSUME NEW c \in Components PROVE Proper(c)
  <2>1. CASE c \in {[string |-> TRUE, text |-> t] : t \in UpTo({Quote, Comma, Space, "a"}, MaxLetters)}
    <3>1. PICK t \in UpTo({Quote, Comma, Space, "a"}, MaxLetters) : c = [string |-> TRUE, text |-> t]
      BY <2>1
    <3>2. t \in Seq({Quote, Comma, Space, "a"})
      BY UpToFacts DEF ViewsAssumption
    <3>3. {Quote, Comma, Space, "a"} \subseteq Letters
      BY DEF Letters
    <3>4. t \in Seq(Letters)
      BY <3>2, <3>3
    <3> QED
      BY <3>1, <3>4 DEF Proper, KeyComponents
  <2>2. CASE c = [string |-> FALSE, text |-> <<"1">>]
    <3>1. "1" \in Letters /\ "1" \notin {Quote, Comma, Space}
      BY DEF Letters, Quote, Comma, Space
    <3> DEFINE one == <<"1">>
    <3>2. one \in Seq(Letters) /\ Len(one) = 1 /\ one[1] = "1"
      BY <3>1
    <3> HIDE DEF one
    <3>3. c = [string |-> FALSE, text |-> one]
      BY <2>2 DEF one
    <3> QED
      BY <3>1, <3>2, <3>3 DEF Proper, KeyComponents
  <2> QED
    BY <2>1, <2>2 DEF Components
<1>3. key \in Seq(Components)
  BY <1>1, UpToFacts
<1>4. key \in Seq(KeyComponents) /\ \A i \in 1..Len(key) : Proper(key[i])
  <2>1. Components \subseteq KeyComponents
    BY <1>2 DEF Proper
  <2>2. \A i \in 1..Len(key) : key[i] \in Components
    BY <1>3
  <2> QED
    BY <1>2, <1>3, <2>1, <2>2
<1>5. SplitLockData(WrittenKey(key)) = Texts(key, Len(key))
  BY <1>4, KeyIsRead
<1>6. DOMAIN key = 1..Len(key)
  BY <1>3
<1> QED
  BY <1>5, <1>6 DEF key, Texts

-----------------------------------------------------------------------------
(* The rows in order. *)

\* Precedes orders the rows by their keys, strictly and all of them.
KeysAreOrdered(R, key) ==
  /\ \A r \in R : ~ Precedes(key[r], key[r])
  /\ \A r, s, t \in R : Precedes(key[r], key[s]) /\ Precedes(key[s], key[t]) => Precedes(key[r], key[t])
  /\ \A r, s \in R : r # s => Precedes(key[r], key[s]) \/ Precedes(key[s], key[r])

\* Numbers in a row, of the same length.
LEMMA PrecedesIs ==
  ASSUME NEW m \in Nat, NEW a \in [1..m -> Nat], NEW b \in [1..m -> Nat]
  PROVE  Precedes(a, b) <=> \E k \in 1..m : a[k] < b[k] /\ \A j \in 1..(k - 1) : a[j] = b[j]
BY DEF Precedes

LEMMA PrecedesIsStrict ==
  ASSUME NEW m \in Nat, NEW a \in [1..m -> Nat]
  PROVE  ~ Precedes(a, a)
<1> SUFFICES ASSUME NEW k \in 1..m, a[k] < a[k] PROVE FALSE
  BY DEF Precedes
<1> QED
  OBVIOUS

LEMMA PrecedesIsTransitive ==
  ASSUME NEW m \in Nat, NEW a \in [1..m -> Nat], NEW b \in [1..m -> Nat], NEW c \in [1..m -> Nat],
         Precedes(a, b), Precedes(b, c)
  PROVE  Precedes(a, c)
<1>1. PICK k \in 1..m : a[k] < b[k] /\ \A j \in 1..(k - 1) : a[j] = b[j]
  BY PrecedesIs
<1>2. PICK l \in 1..m : b[l] < c[l] /\ \A j \in 1..(l - 1) : b[j] = c[j]
  BY PrecedesIs
<1>3. CASE k <= l
  <2>1. a[k] < c[k]
    BY <1>1, <1>2, <1>3
  <2>2. \A j \in 1..(k - 1) : a[j] = c[j]
    BY <1>1, <1>2, <1>3
  <2> QED
    BY <2>1, <2>2 DEF Precedes
<1>4. CASE ~ (k <= l)
  <2>1. a[l] < c[l]
    BY <1>1, <1>2, <1>4
  <2>2. \A j \in 1..(l - 1) : a[j] = c[j]
    BY <1>1, <1>2, <1>4
  <2> QED
    BY <2>1, <2>2 DEF Precedes
<1> QED
  BY <1>3, <1>4

LEMMA PrecedesIsTotal ==
  ASSUME NEW m \in Nat, NEW a \in [1..m -> Nat], NEW b \in [1..m -> Nat], a # b
  PROVE  Precedes(a, b) \/ Precedes(b, a)
<1> DEFINE T == {k \in 1..m : a[k] # b[k]}
<1>1. T # {}
  OBVIOUS
<1>2. PICK k \in T : \A j \in T : k <= j
  <2>1. T \subseteq Nat
    OBVIOUS
  <2> HIDE DEF T
  <2> QED
    BY <1>1, <2>1, LeastNumber
<1>3. \A j \in 1..(k - 1) : a[j] = b[j]
  <2> SUFFICES ASSUME NEW j \in 1..(k - 1), a[j] # b[j] PROVE FALSE
    OBVIOUS
  <2>1. j \in T /\ k \in 1..m
    OBVIOUS
  <2> QED
    BY <1>2, <2>1
<1>4. a[k] < b[k] \/ b[k] < a[k]
  OBVIOUS
<1> QED
  BY <1>3, <1>4 DEF Precedes

LEMMA DistinctKeysAreOrdered ==
  ASSUME NEW m \in Nat, NEW R, NEW key \in [R -> [1..m -> Nat]],
         \A r, s \in R : r # s => key[r] # key[s]
  PROVE  KeysAreOrdered(R, key)
<1>1. \A r \in R : key[r] \in [1..m -> Nat]
  OBVIOUS
<1>2. \A r \in R : ~ Precedes(key[r], key[r])
  BY <1>1, PrecedesIsStrict
<1>3. ASSUME NEW r \in R, NEW s \in R, NEW t \in R, Precedes(key[r], key[s]), Precedes(key[s], key[t])
      PROVE  Precedes(key[r], key[t])
  BY <1>1, <1>3, PrecedesIsTransitive
<1>4. ASSUME NEW r \in R, NEW s \in R, r # s PROVE Precedes(key[r], key[s]) \/ Precedes(key[s], key[r])
  BY <1>1, <1>4, PrecedesIsTotal
<1> QED
  BY <1>2, <1>3, <1>4 DEF KeysAreOrdered

\* How many rows come before r.
Before(R, key, r) == {s \in R : Precedes(key[s], key[r])}

LEMMA RanksDiffer ==
  ASSUME NEW R, IsFiniteSet(R), NEW key, KeysAreOrdered(R, key), NEW r \in R
  PROVE  /\ Cardinality(Before(R, key, r)) \in 0..(Cardinality(R) - 1)
         /\ \A s \in R : Cardinality(Before(R, key, s)) = Cardinality(Before(R, key, r)) => s = r
<1>1. ASSUME NEW s \in R
      PROVE  /\ Before(R, key, s) \subseteq R /\ s \notin Before(R, key, s)
             /\ IsFiniteSet(Before(R, key, s)) /\ Cardinality(Before(R, key, s)) \in Nat
             /\ IsFiniteSet(Before(R, key, s) \union {s})
             /\ Cardinality(Before(R, key, s) \union {s}) = Cardinality(Before(R, key, s)) + 1
  <2>1. Before(R, key, s) \subseteq R /\ s \notin Before(R, key, s)
    BY DEF Before, KeysAreOrdered
  <2>2. IsFiniteSet(Before(R, key, s))
    BY <2>1, FS_Subset
  <2> QED
    BY <2>1, <2>2, FS_CardinalityType, FS_AddElement
<1>2. Cardinality(Before(R, key, r)) \in 0..(Cardinality(R) - 1)
  <2>1. Before(R, key, r) \union {r} \subseteq R
    BY <1>1
  <2>2. Cardinality(Before(R, key, r) \union {r}) <= Cardinality(R) /\ Cardinality(R) \in Nat
    BY <2>1, FS_Subset, FS_CardinalityType
  <2>3. /\ Cardinality(Before(R, key, r)) \in Nat
        /\ Cardinality(Before(R, key, r) \union {r}) = Cardinality(Before(R, key, r)) + 1
    BY <1>1
  <2> QED
    BY <2>2, <2>3
<1>3. ASSUME NEW s \in R, NEW t \in R, Precedes(key[s], key[t])
      PROVE  Cardinality(Before(R, key, s)) < Cardinality(Before(R, key, t))
  <2>1. Before(R, key, s) \union {s} \subseteq Before(R, key, t)
    BY <1>3 DEF Before, KeysAreOrdered
  <2>2. Cardinality(Before(R, key, s) \union {s}) <= Cardinality(Before(R, key, t))
    BY <1>1, <2>1, FS_Subset
  <2>3. /\ Cardinality(Before(R, key, s)) \in Nat /\ Cardinality(Before(R, key, t)) \in Nat
        /\ Cardinality(Before(R, key, s) \union {s}) = Cardinality(Before(R, key, s)) + 1
    BY <1>1
  <2> QED
    BY <2>2, <2>3
<1>4. ASSUME NEW s \in R, s # r PROVE Cardinality(Before(R, key, s)) # Cardinality(Before(R, key, r))
  <2>1. Precedes(key[s], key[r]) \/ Precedes(key[r], key[s])
    BY <1>4 DEF KeysAreOrdered
  <2>2. \A t \in R : Cardinality(Before(R, key, t)) \in Nat
    BY <1>1
  <2>3. Cardinality(Before(R, key, s)) < Cardinality(Before(R, key, r))
        \/ Cardinality(Before(R, key, r)) < Cardinality(Before(R, key, s))
    BY <1>3, <2>1
  <2> QED
    BY <2>2, <2>3
<1> QED
  BY <1>2, <1>4

\* Each of the sequence's is one of the rows, and another one.
LEMMA RowsInOrderAre ==
  ASSUME NEW R, IsFiniteSet(R), NEW key, KeysAreOrdered(R, key)
  PROVE  /\ \A i \in 1..Cardinality(R) : RowsInOrder(R, key)[i] \in R
         /\ \A i, j \in 1..Cardinality(R) : i # j => RowsInOrder(R, key)[i] # RowsInOrder(R, key)[j]
<1> DEFINE n == Cardinality(R)
           rank(r) == Cardinality(Before(R, key, r))
           f == [r \in R |-> rank(r) + 1]
<1>1. n \in Nat
  BY FS_CardinalityType
<1>2. \A r \in R : rank(r) \in 0..(n - 1) /\ \A s \in R : rank(s) = rank(r) => s = r
  BY RanksDiffer
<1> HIDE DEF n, rank
<1>3. f \in Injection(R, 1..n)
  <2>1. f \in [R -> 1..n]
    BY <1>1, <1>2
  <2>2. \A r, s \in R : f[r] = f[s] => r = s
    BY <1>1, <1>2
  <2> HIDE DEF f
  <2> QED
    BY <2>1, <2>2 DEF Injection, IsInjective
<1>4. f \in Surjection(R, 1..n)
  <2>1. IsFiniteSet(1..n) /\ Cardinality(1..n) = n
    BY <1>1, FS_Interval
  <2> HIDE DEF f
  <2> QED
    BY <1>3, <2>1, FS_Injection DEF n
<1>5. ASSUME NEW i \in 1..n
      PROVE  RowsInOrder(R, key)[i] \in R /\ rank(RowsInOrder(R, key)[i]) = i - 1
  <2>1. \E r \in R : f[r] = i
    <3> HIDE DEF f
    <3> QED
      BY <1>4 DEF Surjection
  <2>2. \E r \in R : rank(r) = i - 1
    BY <1>1, <1>2, <2>1
  <2>3. RowsInOrder(R, key)[i] = CHOOSE r \in R : rank(r) = i - 1
    BY DEF RowsInOrder, rank, Before, n
  <2> QED
    BY <2>2, <2>3
<1>6. \A i, j \in 1..n : i # j => RowsInOrder(R, key)[i] # RowsInOrder(R, key)[j]
  <2> SUFFICES ASSUME NEW i \in 1..n, NEW j \in 1..n, RowsInOrder(R, key)[i] = RowsInOrder(R, key)[j]
               PROVE  i = j
    OBVIOUS
  <2>1. i - 1 = j - 1
    BY <1>5
  <2> QED
    BY <2>1
<1> QED
  BY <1>5, <1>6 DEF n

-----------------------------------------------------------------------------
(* The indexes of a table with a primary key. *)

LEMMA WithoutOne ==
  ASSUME NEW c, NEW X
  PROVE  Without(<<c>>, X) = IF c \in X THEN <<>> ELSE <<c>>
<1> DEFINE s == <<c>>
<1>1. s \in Seq({c}) /\ Len(s) = 1 /\ s[1] = c
  OBVIOUS
<1> HIDE DEF s
<1>2. PICK f : Keeping(s, X, {c}, f) /\ Without(s, X) = f[Len(s)]
  BY <1>1, WithoutIs
<1>3. f[0] = <<>> /\ 1 \in 1..Len(s) /\ 1 - 1 = 0
  BY <1>1, <1>2 DEF Keeping
<1>4. f[1] = IF c \in X THEN <<>> ELSE Append(<<>>, c)
  BY <1>1, <1>2, <1>3 DEF Keeping
<1>5. Append(<<>>, c) = <<c>>
  OBVIOUS
<1>6. Without(s, X) = IF c \in X THEN <<>> ELSE <<c>>
  BY <1>1, <1>2, <1>4, <1>5
<1> QED
  BY <1>6 DEF s

LEMMA TwoInARow ==
  ASSUME NEW a, NEW b
  PROVE  <<a>> \o <<b>> = <<a, b>>
<1> DEFINE s == <<a>>
           t == <<b>>
           u == <<a, b>>
           r == s \o t
           U == {a, b}
<1>1. s \in Seq(U) /\ Len(s) = 1 /\ s[1] = a
  OBVIOUS
<1>2. t \in Seq(U) /\ Len(t) = 1 /\ t[1] = b
  OBVIOUS
<1>3. u \in Seq(U) /\ Len(u) = 2 /\ u[1] = a /\ u[2] = b
  OBVIOUS
<1> HIDE DEF s, t, u, U
<1>4. /\ r \in Seq(U) /\ Len(r) = Len(s) + Len(t)
      /\ \A i \in 1..(Len(s) + Len(t)) : r[i] = IF i <= Len(s) THEN s[i] ELSE t[i - Len(s)]
  BY <1>1, <1>2, ConcatProperties, Zenon
<1> HIDE DEF r
<1>5. Len(r) = 2 /\ r[1] = a /\ r[2] = b
  BY <1>1, <1>2, <1>4
<1>6. r = u
  <2>1. \A i \in 1..2 : i = 1 \/ i = 2
    OBVIOUS
  <2>2. \A i \in 1..2 : r[i] = u[i]
    BY <1>3, <1>5, <2>1
  <2> QED
    BY <1>3, <1>4, <1>5, <2>2, SeqEqual
<1> QED
  BY <1>6 DEF r, s, t, u

LEMMA ThreeInARow ==
  ASSUME NEW a, NEW b, NEW c
  PROVE  <<a, b>> \o <<c>> = <<a, b, c>>
<1> DEFINE s == <<a, b>>
           t == <<c>>
           u == <<a, b, c>>
           r == s \o t
           U == {a, b, c}
<1>1. s \in Seq(U) /\ Len(s) = 2 /\ s[1] = a /\ s[2] = b
  OBVIOUS
<1>2. t \in Seq(U) /\ Len(t) = 1 /\ t[1] = c
  OBVIOUS
<1>3. u \in Seq(U) /\ Len(u) = 3 /\ u[1] = a /\ u[2] = b /\ u[3] = c
  OBVIOUS
<1> HIDE DEF s, t, u, U
<1>4. /\ r \in Seq(U) /\ Len(r) = Len(s) + Len(t)
      /\ \A i \in 1..(Len(s) + Len(t)) : r[i] = IF i <= Len(s) THEN s[i] ELSE t[i - Len(s)]
  BY <1>1, <1>2, ConcatProperties, Zenon
<1> HIDE DEF r
<1>5. Len(r) = 3 /\ r[1] = a /\ r[2] = b /\ r[3] = c
  BY <1>1, <1>2, <1>4
<1>6. r = u
  <2>1. \A i \in 1..3 : i = 1 \/ i = 2 \/ i = 3
    OBVIOUS
  <2>2. \A i \in 1..3 : r[i] = u[i]
    BY <1>3, <1>5, <2>1
  <2> QED
    BY <1>3, <1>4, <1>5, <2>2, SeqEqual
<1> QED
  BY <1>6 DEF r, s, t, u

LEMMA WithoutNone ==
  ASSUME NEW c, NEW d, NEW X, c \notin X, d \notin X
  PROVE  Without(<<c, d>>, X) = <<c, d>>
<1> DEFINE s == <<c, d>>
<1>1. s \in Seq({c, d}) /\ Len(s) = 2 /\ s[1] = c /\ s[2] = d
  OBVIOUS
<1> HIDE DEF s
<1>2. PICK f : Keeping(s, X, {c, d}, f) /\ Without(s, X) = f[Len(s)]
  BY <1>1, WithoutIs
<1>3. f[0] = <<>> /\ 1 \in 1..Len(s) /\ 1 - 1 = 0 /\ 2 \in 1..Len(s) /\ 2 - 1 = 1
  BY <1>1, <1>2 DEF Keeping
<1>4. f[1] = Append(<<>>, c) /\ f[2] = Append(f[1], d)
  BY <1>1, <1>2, <1>3 DEF Keeping
<1>5. Append(Append(<<>>, c), d) = <<c, d>>
  <2>1. Append(<<>>, c) = <<c>>
    OBVIOUS
  <2>2. Append(<<c>>, d) = <<c>> \o <<d>>
    <3> DEFINE one == <<c>>
    <3>1. one \in Seq({c, d}) /\ d \in {c, d}
      OBVIOUS
    <3> HIDE DEF one
    <3>2. Append(one, d) = one \o <<d>>
      BY <3>1, AppendIsConcat
    <3> QED
      BY <3>2 DEF one
  <2> QED
    BY <2>1, <2>2, TwoInARow
<1>6. Without(s, X) = <<c, d>>
  BY <1>1, <1>2, <1>4, <1>5
<1> QED
  BY <1>6 DEF s

\* An index with one column.
LEMMA OneColumn ==
  ASSUME NEW all, NEW row, {r \in all : r.name = row.name} = {row}, row.seq = 1
  PROVE  /\ IndexOf(all, row.name).name = row.name
         /\ IndexOf(all, row.name).columns = <<row.column>>
         /\ IndexOf(all, row.name).orderable <=> row.column # Expr
<1> DEFINE its == {r \in all : r.name = row.name}
<1>1. its = {row} /\ Cardinality(its) = 1
  BY FS_Singleton
<1>2. (CHOOSE r \in its : r.seq = 1) = row
  BY <1>1
<1>3. IndexOf(all, row.name)
        = [name |-> row.name,
           columns |-> [i \in 1..Cardinality(its) |-> (CHOOSE r \in its : r.seq = i).column],
           orderable |-> \A r \in its : r.column # Expr]
  BY DEF IndexOf
<1>4. (\A r \in its : r.column # Expr) <=> row.column # Expr
  BY <1>1
<1> HIDE DEF its
<1>5. [i \in 1..Cardinality(its) |-> (CHOOSE r \in its : r.seq = i).column] = <<row.column>>
  <2> DEFINE g == [i \in 1..Cardinality(its) |-> (CHOOSE r \in its : r.seq = i).column]
  <2>1. g = [i \in 1..1 |-> g[i]] /\ g[1] = row.column
    BY <1>1, <1>2
  <2> HIDE DEF g
  <2>2. g = <<row.column>>
    BY <2>1
  <2> QED
    BY <2>2 DEF g
<1> QED
  BY <1>3, <1>4, <1>5

LEMMA PrimaryIs ==
  ASSUME NEW all, all = Indexes(TRUE)
  PROVE  /\ "PRIMARY" \in DOMAIN all /\ "by_v" \in DOMAIN all /\ "by_expr" \in DOMAIN all
         /\ \A name \in DOMAIN all : all[name].name = name
         /\ all["PRIMARY"].columns = <<"id">> /\ all["PRIMARY"].orderable
         /\ all["by_v"].columns = <<"v">> /\ all["by_v"].orderable
<1> DEFINE stats == Statistics(TRUE)
           p == [name |-> "PRIMARY", seq |-> 1, column |-> "id"]
           v == [name |-> "by_v", seq |-> 1, column |-> "v"]
           e == [name |-> "by_expr", seq |-> 1, column |-> Expr]
<1>1. stats = {p, v, e}
  BY DEF Statistics
<1>2. /\ p.name = "PRIMARY" /\ p.seq = 1 /\ p.column = "id"
      /\ v.name = "by_v" /\ v.seq = 1 /\ v.column = "v"
      /\ e.name = "by_expr"
      /\ "id" # Expr /\ "v" # Expr
  BY DEF Expr
<1> HIDE DEF stats, p, v, e
<1>3. all = [name \in {row.name : row \in stats} |-> IndexOf(stats, name)]
  BY DEF Indexes, stats
<1>4. {row.name : row \in stats} = {"PRIMARY", "by_v", "by_expr"}
  BY <1>1, <1>2
<1>5. {r \in stats : r.name = p.name} = {p} /\ {r \in stats : r.name = v.name} = {v}
  BY <1>1, <1>2
<1>6. /\ IndexOf(stats, "PRIMARY").columns = <<"id">> /\ IndexOf(stats, "PRIMARY").orderable
      /\ IndexOf(stats, "by_v").columns = <<"v">> /\ IndexOf(stats, "by_v").orderable
  <2>1. IndexOf(stats, p.name).columns = <<p.column>> /\ (IndexOf(stats, p.name).orderable <=> p.column # Expr)
    BY <1>2, <1>5, OneColumn
  <2>2. IndexOf(stats, v.name).columns = <<v.column>> /\ (IndexOf(stats, v.name).orderable <=> v.column # Expr)
    BY <1>2, <1>5, OneColumn
  <2> QED
    BY <1>2, <2>1, <2>2
<1>7. \A name : IndexOf(stats, name).name = name
  BY DEF IndexOf
<1> QED
  BY <1>3, <1>4, <1>6, <1>7

\* The table's rows as a page has them, read in the order of an index of columns.
RowsOf(rows, limit, order, columns) ==
  LET sorted == RowsInOrder(rows, order)
      seen == SubSeq(sorted, 1, IF Len(sorted) < limit THEN Len(sorted) ELSE limit)
  IN [i \in 1..Len(seen) |-> [row |-> seen[i], key |-> RowKey(seen[i], columns)]]

LEMMA RowKeysAre ==
  ASSUME NEW r \in [id : Nat, v : Nat]
  PROVE  /\ RowKey(r, <<"id">>) = <<r.id>>
         /\ RowKey(r, <<"v", "id">>) = <<r.v, r.id>>
<1>1. "id" \notin {Expr} /\ "v" \notin {Expr} /\ "id" # Expr /\ "v" # Expr
  BY DEF Expr
<1>2. ValueIn(r, "id") = r.id /\ ValueIn(r, "v") = r.v
  BY <1>1 DEF ValueIn
<1>3. RowKey(r, <<"id">>) = <<r.id>>
  <2> DEFINE shown == <<"id">>
  <2>1. Without(<<"id">>, {Expr}) = shown
    BY <1>1, WithoutOne
  <2>2. Len(shown) = 1 /\ shown[1] = "id"
    OBVIOUS
  <2> HIDE DEF shown
  <2>3. RowKey(r, <<"id">>) = [i \in 1..1 |-> ValueIn(r, shown[i])]
    BY <2>1, <2>2 DEF RowKey
  <2>4. \A i \in 1..1 : ValueIn(r, shown[i]) = r.id
    BY <1>2, <2>2
  <2>5. RowKey(r, <<"id">>) = [i \in 1..1 |-> r.id]
    BY <2>3, <2>4
  <2> QED
    BY <2>5
<1>4. RowKey(r, <<"v", "id">>) = <<r.v, r.id>>
  <2> DEFINE shown == <<"v", "id">>
  <2>1. Without(<<"v", "id">>, {Expr}) = shown
    BY <1>1, WithoutNone
  <2>2. Len(shown) = 2 /\ shown[1] = "v" /\ shown[2] = "id"
    OBVIOUS
  <2> HIDE DEF shown
  <2>3. RowKey(r, <<"v", "id">>) = [i \in 1..2 |-> ValueIn(r, shown[i])]
    BY <2>1, <2>2 DEF RowKey
  <2> DEFINE g == RowKey(r, <<"v", "id">>)
  <2>4. g = [i \in 1..2 |-> g[i]] /\ g[1] = r.v /\ g[2] = r.id
    BY <1>2, <2>2, <2>3
  <2> HIDE DEF g
  <2>5. g = <<r.v, r.id>>
    BY <2>4
  <2> QED
    BY <2>5 DEF g
<1> QED
  BY <1>3, <1>4

LEMMA RowsOfAre ==
  ASSUME NEW R, IsFiniteSet(R), NEW limit \in Nat, NEW order, NEW columns
  PROVE  \E k \in 0..Cardinality(R) :
           RowsOf(R, limit, order, columns)
             = [i \in 1..k |-> [row |-> RowsInOrder(R, order)[i],
                                key |-> RowKey(RowsInOrder(R, order)[i], columns)]]
<1> DEFINE n == Cardinality(R)
           sorted == RowsInOrder(R, order)
           U == {sorted[i] : i \in 1..n}
           m == IF Len(sorted) < limit THEN Len(sorted) ELSE limit
           seen == SubSeq(sorted, 1, m)
<1>1. n \in Nat
  BY FS_CardinalityType
<1>2. sorted = [i \in 1..n |-> sorted[i]]
  BY DEF RowsInOrder
<1> HIDE DEF n, sorted
<1>3. sorted \in Seq(U) /\ Len(sorted) = n
  <2>1. sorted \in [1..n -> U]
    BY <1>2
  <2> HIDE DEF U
  <2> QED
    BY <1>1, <2>1
<1> HIDE DEF U
<1>4. m \in 0..n
  BY <1>1, <1>3
<1> HIDE DEF m
<1>5. Len(seen) = m /\ \A i \in 1..m : seen[i] = sorted[i]
  BY <1>1, <1>3, <1>4
<1>6. RowsOf(R, limit, order, columns)
        = [i \in 1..Len(seen) |-> [row |-> seen[i], key |-> RowKey(seen[i], columns)]]
  BY DEF RowsOf, seen, m, sorted
<1> HIDE DEF seen
<1>7. [i \in 1..Len(seen) |-> [row |-> seen[i], key |-> RowKey(seen[i], columns)]]
        = [i \in 1..m |-> [row |-> sorted[i], key |-> RowKey(sorted[i], columns)]]
  BY <1>5
<1> QED
  BY <1>4, <1>6, <1>7 DEF n, sorted

LEMMA ContentsAreFinite ==
  ASSUME ViewsAssumption, NEW rows \in Contents
  PROVE  /\ IsFiniteSet(rows)
         /\ \A r \in rows : r \in [id : Nat, v : Nat]
         /\ \A r, s \in rows : r.id = s.id => r = s
<1>1. /\ \A r \in rows : r \in [id : 1..MaxRows, v : 1..2]
      /\ \A r, s \in rows : r.id = s.id => r = s
      /\ MaxRows \in Nat
  BY DEF Contents, Rows, ViewsAssumption
<1> DEFINE f == [r \in rows |-> r.id]
<1>2. f \in [rows -> 1..MaxRows] /\ \A r, s \in rows : f[r] = f[s] => r = s
  BY <1>1
<1> HIDE DEF f
<1>3. f \in Injection(rows, 1..MaxRows)
  BY <1>2 DEF Injection, IsInjective
<1>4. IsFiniteSet(1..MaxRows)
  BY <1>1, FS_Interval
<1>5. IsFiniteSet(rows)
  BY <1>3, <1>4, FS_Injection
<1> QED
  BY <1>1, <1>5

\* The order in which a table is read.
OrderOf(rows, idx, columns) ==
  [r \in rows |-> IF idx.orderable THEN RowKey(r, columns) \o <<r.id>> ELSE <<r.id>>]

LEMMA FetchTableIs ==
  ASSUME NEW rows, NEW hasPK, NEW name, NEW limit
  PROVE  LET all == Indexes(hasPK)
             idx == Index(all, name)
             columns == KeyColumns(idx, PrimaryKey(all))
         IN /\ FetchTable(rows, hasPK, name, limit).index = idx.name
            /\ FetchTable(rows, hasPK, name, limit).rows
                 = RowsOf(rows, limit, OrderOf(rows, idx, columns), columns)
BY DEF FetchTable, RowsOf, OrderOf

\* However it is read there are some rows of it.
LEMMA ViewHasRows ==
  ASSUME ViewsAssumption, NEW rows \in Contents, NEW hasPK, NEW name, NEW limit \in Nat
  PROVE  LET view == FetchTable(rows, hasPK, name, limit)
         IN Len(view.rows) \in Nat /\ DOMAIN view.rows = 1..Len(view.rows)
<1> DEFINE all == Indexes(hasPK)
           idx == Index(all, name)
           columns == KeyColumns(idx, PrimaryKey(all))
           order == OrderOf(rows, idx, columns)
           its == FetchTable(rows, hasPK, name, limit).rows
<1>1. its = RowsOf(rows, limit, order, columns)
  BY FetchTableIs
<1>2. IsFiniteSet(rows)
  BY ContentsAreFinite
<1> HIDE DEF order, columns, its
<1>3. PICK k \in 0..Cardinality(rows) :
        its = [i \in 1..k |-> [row |-> RowsInOrder(rows, order)[i],
                               key |-> RowKey(RowsInOrder(rows, order)[i], columns)]]
  BY <1>1, <1>2, RowsOfAre
<1>4. k \in Nat
  BY <1>2, FS_CardinalityType
<1>5. DOMAIN its = 1..k /\ Len(its) = k
  BY <1>3, <1>4
<1> QED
  BY <1>4, <1>5 DEF its

\* The key of an entry.
KeyOf(r, name) == IF name = "PRIMARY" THEN <<r.id>> ELSE <<r.v, r.id>>

\* Read in the order of columns, a table with a primary key has different rows at
\* different places, each with its entry's key.
LEMMA ViewIsOfDifferentRows ==
  ASSUME ViewsAssumption, NEW rows \in Contents, NEW name \in {"PRIMARY", "by_v"}, NEW limit \in Nat
  PROVE  LET view == FetchTable(rows, TRUE, name, limit)
         IN /\ \A i \in DOMAIN view.rows : /\ view.rows[i].row \in rows
                                           /\ view.rows[i].key = KeyOf(view.rows[i].row, name)
            /\ \A i, j \in DOMAIN view.rows : i # j => view.rows[i].row.id # view.rows[j].row.id
<1> DEFINE all == Indexes(TRUE)
           idx == Index(all, name)
           columns == KeyColumns(idx, PrimaryKey(all))
           order == OrderOf(rows, idx, columns)
           its == FetchTable(rows, TRUE, name, limit).rows
<1>1. its = RowsOf(rows, limit, order, columns)
  BY FetchTableIs
<1>2. /\ IsFiniteSet(rows)
      /\ \A r \in rows : r \in [id : Nat, v : Nat]
      /\ \A r, s \in rows : r.id = s.id => r = s
  BY ContentsAreFinite
<1>3. /\ name \in DOMAIN all /\ "PRIMARY" \in DOMAIN all
      /\ all[name].name = name
      /\ all["PRIMARY"].columns = <<"id">> /\ all["PRIMARY"].orderable
      /\ all["by_v"].columns = <<"v">> /\ all["by_v"].orderable
  BY PrimaryIs
<1>4. idx = all[name] /\ idx.orderable /\ idx.name = name
  BY <1>3 DEF Index
<1>5. columns = IF name = "PRIMARY" THEN <<"id">> ELSE <<"v", "id">>
  <2>1. PrimaryKey(all) = <<"id">>
    BY <1>3 DEF PrimaryKey
  <2>2. CASE name = "PRIMARY"
    BY <1>3, <1>4, <2>2 DEF KeyColumns
  <2>3. CASE name = "by_v"
    <3> DEFINE own == idx.columns
    <3>5. own = <<"v">>
      BY <1>3, <1>4, <2>3
    <3>6. Range(<<"v">>) = {"v"}
      <4> DEFINE one == <<"v">>
      <4>1. DOMAIN one = {1} /\ one[1] = "v"
        OBVIOUS
      <4> HIDE DEF one
      <4>2. Range(one) = {"v"}
        BY <4>1 DEF Range
      <4> QED
        BY <4>2 DEF one
    <3> HIDE DEF own
    <3>1. Range(own) = {"v"}
      BY <3>5, <3>6
    <3>2. columns = own \o Without(<<"id">>, Range(own))
      BY <1>4, <2>1, <2>3 DEF KeyColumns, own
    <3>3. Without(<<"id">>, Range(own)) = <<"id">>
      BY <3>1, WithoutOne
    <3>4. own \o <<"id">> = <<"v", "id">>
      BY <3>5, TwoInARow
    <3> QED
      BY <2>3, <3>2, <3>3, <3>4
  <2> QED
    BY <2>2, <2>3
<1> HIDE DEF columns, idx, all
<1>6. \A r \in rows : RowKey(r, columns) = KeyOf(r, name)
  BY <1>2, <1>5, RowKeysAre DEF KeyOf
<1>7. order = [r \in rows |-> KeyOf(r, name) \o <<r.id>>]
  BY <1>4, <1>6 DEF OrderOf
<1>8. KeysAreOrdered(rows, order)
  <2>1. CASE name = "PRIMARY"
    <3>1. \A r \in rows : order[r] = <<r.id, r.id>>
      BY <1>7, <2>1, TwoInARow DEF KeyOf
    <3>2. DOMAIN order = rows /\ order = [r \in rows |-> order[r]]
      BY <1>7
    <3> HIDE DEF order
    <3>3. \A r \in rows : order[r] \in [1..2 -> Nat] /\ order[r][1] = r.id
      <4> SUFFICES ASSUME NEW r \in rows PROVE order[r] \in [1..2 -> Nat] /\ order[r][1] = r.id
        OBVIOUS
      <4>1. r.id \in Nat
        BY <1>2
      <4>2. <<r.id, r.id>> \in Seq(Nat) /\ Len(<<r.id, r.id>>) = 2
        BY <4>1
      <4>3. <<r.id, r.id>>[1] = r.id
        OBVIOUS
      <4>4. \A q \in Seq(Nat) : Len(q) = 2 => q \in [1..2 -> Nat]
        OBVIOUS
      <4>5. <<r.id, r.id>> \in [1..2 -> Nat]
        BY <4>2, <4>4
      <4> QED
        BY <3>1, <4>3, <4>5
    <3>4. order \in [rows -> [1..2 -> Nat]]
      BY <3>2, <3>3
    <3>5. \A r, s \in rows : r # s => order[r] # order[s]
      BY <1>2, <3>3
    <3> QED
      BY <3>4, <3>5, DistinctKeysAreOrdered
  <2>2. CASE name = "by_v"
    <3>1. \A r \in rows : order[r] = <<r.v, r.id, r.id>>
      BY <1>7, <2>2, ThreeInARow DEF KeyOf
    <3>2. DOMAIN order = rows /\ order = [r \in rows |-> order[r]]
      BY <1>7
    <3> HIDE DEF order
    <3>3. \A r \in rows : order[r] \in [1..3 -> Nat] /\ order[r][2] = r.id
      <4> SUFFICES ASSUME NEW r \in rows PROVE order[r] \in [1..3 -> Nat] /\ order[r][2] = r.id
        OBVIOUS
      <4>1. r.id \in Nat /\ r.v \in Nat
        BY <1>2
      <4>2. <<r.v, r.id, r.id>> \in Seq(Nat) /\ Len(<<r.v, r.id, r.id>>) = 3
        BY <4>1
      <4>3. <<r.v, r.id, r.id>>[2] = r.id
        OBVIOUS
      <4>4. \A q \in Seq(Nat) : Len(q) = 3 => q \in [1..3 -> Nat]
        OBVIOUS
      <4>5. <<r.v, r.id, r.id>> \in [1..3 -> Nat]
        BY <4>2, <4>4
      <4> QED
        BY <3>1, <4>3, <4>5
    <3>4. order \in [rows -> [1..3 -> Nat]]
      BY <3>2, <3>3
    <3>5. \A r, s \in rows : r # s => order[r] # order[s]
      BY <1>2, <3>3
    <3> QED
      BY <3>4, <3>5, DistinctKeysAreOrdered
  <2> QED
    BY <2>1, <2>2
<1> HIDE DEF order, its
<1> DEFINE S == RowsInOrder(rows, order)
<1>9. /\ \A i \in 1..Cardinality(rows) : S[i] \in rows
      /\ \A i, j \in 1..Cardinality(rows) : i # j => S[i] # S[j]
  BY <1>2, <1>8, RowsInOrderAre
<1>10. PICK k \in 0..Cardinality(rows) :
         its = [i \in 1..k |-> [row |-> S[i], key |-> RowKey(S[i], columns)]]
  BY <1>1, <1>2, RowsOfAre
<1>11. Cardinality(rows) \in Nat
  BY <1>2, FS_CardinalityType
<1> HIDE DEF S
<1>12. /\ DOMAIN its = 1..k
       /\ \A i \in 1..k : i \in 1..Cardinality(rows)
       /\ \A i \in 1..k : its[i].row = S[i] /\ its[i].key = RowKey(S[i], columns)
  BY <1>10, <1>11
<1>13. \A i \in DOMAIN its : its[i].row \in rows /\ its[i].key = KeyOf(its[i].row, name)
  BY <1>6, <1>9, <1>12
<1>14. \A i, j \in DOMAIN its : i # j => its[i].row.id # its[j].row.id
  BY <1>2, <1>9, <1>12
<1> QED
  BY <1>13, <1>14 DEF its

-----------------------------------------------------------------------------
(* The lock of a sample. *)

LEMMA LockIs ==
  ASSUME NEW s \in LockSamples
  PROVE  /\ LockOf(s).type = "RECORD" /\ BaseTable(LockOf(s).object) = Object(0)
         /\ LockOf(s).index = s.onIndex /\ LockOf(s).mode = s.mode
         /\ LockOf(s).supremum = s.supremum
BY DEF LockOf, BaseTable, Object

\* How it is drawn is what is said of it.
LEMMA KindIsSaid ==
  ASSUME NEW s \in LockSamples
  PROVE  /\ LockKind(LockOf(s)) = ExplainLockMode(LockOf(s))
         /\ LockKind(LockOf(s)) \in {"record", "gap", "next-key", "insert-intention"}
<1> DEFINE l == LockOf(s)
<1>1. l.type = "RECORD" /\ l.mode = s.mode
  BY LockIs
<1>2. s.mode \in Modes
  BY DEF LockSamples
<1> SUFFICES /\ LockKind(l) = ExplainLockMode(l)
             /\ LockKind(l) \in {"record", "gap", "next-key", "insert-intention"}
  OBVIOUS
<1> HIDE DEF l
<1>3. CASE s.mode = {}
  BY <1>1, <1>3 DEF LockKind, ExplainLockMode, Mentions
<1>4. CASE s.mode = {"REC_NOT_GAP"}
  BY <1>1, <1>4 DEF LockKind, ExplainLockMode, Mentions
<1>5. CASE s.mode = {"GAP"}
  BY <1>1, <1>5 DEF LockKind, ExplainLockMode, Mentions
<1>6. CASE s.mode = {"GAP", "INSERT_INTENTION"}
  BY <1>1, <1>6 DEF LockKind, ExplainLockMode, Mentions
<1> QED
  BY <1>2, <1>3, <1>4, <1>5, <1>6 DEF Modes

\* What of a row's key decides whether a lock's matches it.
Matching(s, r, name) ==
  CASE s.spelled \in {"plain", "padded"} -> AlikeIn(name, r, s.on)
    [] s.spelled = "hex" -> IF name = "PRIMARY" THEN r.id = s.on.id ELSE r = s.on
    [] s.spelled = "stored" -> FALSE

\* An entry's key and a lock's match as the way it is spelled allows.
LEMMA KeysMatch ==
  ASSUME ViewsAssumption, NEW s \in LockSamples, s.hasPK, NEW r \in [id : Nat, v : Nat]
  PROVE  /\ s.onIndex = "PRIMARY" =>
              (KeyMatches(KeyOf(r, "PRIMARY"), LockOf(s).key) <=> Matching(s, r, "PRIMARY"))
         /\ s.onIndex = "by_v" =>
              (KeyMatches(KeyOf(r, "by_v"), LockOf(s).key) <=> Matching(s, r, "by_v"))
<1> DEFINE k == LockOf(s).key
<1>1. s.spelled \in {"plain", "padded", "hex", "stored"} /\ s.on \in [id : Nat, v : Nat]
  BY DEF LockSamples, Rows, ViewsAssumption
<1>2. ASSUME s.onIndex = "PRIMARY" PROVE KeyMatches(KeyOf(r, "PRIMARY"), k) <=> Matching(s, r, "PRIMARY")
  <2> DEFINE key == <<s.on.id>>
             rowKey == <<r.id>>
  <2>1. <<>> \o <<s.on.id>> = key
    OBVIOUS
  <2>2. k = [i \in DOMAIN key |-> [value |-> key[i], spelled |-> s.spelled]]
    BY <1>2, <2>1 DEF LockOf
  <2>3. DOMAIN key = 1..1 /\ key[1] = s.on.id
    OBVIOUS
  <2>4. Len(rowKey) = 1 /\ rowKey[1] = r.id
    OBVIOUS
  <2> HIDE DEF key, rowKey, k
  <2>5. Len(k) = 1 /\ k[1].value = s.on.id /\ k[1].spelled = s.spelled
    BY <2>2, <2>3
  <2>6. KeyMatches(rowKey, k) <=> ComponentMatches(rowKey[1], k[1])
    BY <2>4, <2>5 DEF KeyMatches
  <2>7. ComponentMatches(rowKey[1], k[1]) <=> Matching(s, r, "PRIMARY")
    BY <1>1, <2>4, <2>5 DEF ComponentMatches, Matching, AlikeIn
  <2> QED
    BY <2>6, <2>7 DEF KeyOf, rowKey
<1>3. ASSUME s.onIndex = "by_v" PROVE KeyMatches(KeyOf(r, "by_v"), k) <=> Matching(s, r, "by_v")
  <2> DEFINE key == <<s.on.v, s.on.id>>
             rowKey == <<r.v, r.id>>
  <2>1. <<s.on.v>> \o <<s.on.id>> = key
    BY TwoInARow
  <2>2. k = [i \in DOMAIN key |-> [value |-> key[i], spelled |-> s.spelled]]
    BY <1>3, <2>1 DEF LockOf
  <2>3. DOMAIN key = 1..2 /\ key[1] = s.on.v /\ key[2] = s.on.id
    OBVIOUS
  <2>4. Len(rowKey) = 2 /\ rowKey[1] = r.v /\ rowKey[2] = r.id
    OBVIOUS
  <2> HIDE DEF key, rowKey, k
  <2>5. /\ Len(k) = 2
        /\ k[1].value = s.on.v /\ k[1].spelled = s.spelled
        /\ k[2].value = s.on.id /\ k[2].spelled = s.spelled
    BY <2>2, <2>3
  <2>6. KeyMatches(rowKey, k) <=> ComponentMatches(rowKey[1], k[1]) /\ ComponentMatches(rowKey[2], k[2])
    <3>1. \A i \in 1..2 : i = 1 \/ i = 2
      OBVIOUS
    <3> QED
      BY <2>4, <2>5, <3>1 DEF KeyMatches
  <2>7. r.v = s.on.v /\ r.id = s.on.id <=> r = s.on
    BY <1>1
  <2>8. ComponentMatches(rowKey[1], k[1]) /\ ComponentMatches(rowKey[2], k[2]) <=> Matching(s, r, "by_v")
    BY <1>1, <2>4, <2>5, <2>7 DEF ComponentMatches, Matching, AlikeIn
  <2> QED
    BY <2>6, <2>8 DEF KeyOf, rowKey
<1> QED
  BY <1>2, <1>3 DEF k

\* The row that is found is one that matches, if there is any.
LEMMA FindRowIs ==
  ASSUME NEW rows, Len(rows) \in Nat, NEW key
  PROVE  /\ FindRow(rows, key) # 0 =>
              FindRow(rows, key) \in 1..Len(rows) /\ KeyMatches(rows[FindRow(rows, key)].key, key)
         /\ FindRow(rows, key) = 0 => \A i \in 1..Len(rows) : ~ KeyMatches(rows[i].key, key)
<1> DEFINE hits == {i \in 1..Len(rows) : KeyMatches(rows[i].key, key)}
<1>1. FindRow(rows, key) = IF hits = {} THEN 0 ELSE CHOOSE i \in hits : \A j \in hits : i <= j
  BY DEF FindRow
<1>2. hits \subseteq 1..Len(rows) /\ \A i \in hits : KeyMatches(rows[i].key, key)
  OBVIOUS
<1>3. \A i \in 1..Len(rows) : KeyMatches(rows[i].key, key) => i \in hits
  OBVIOUS
<1> HIDE DEF hits
<1>4. CASE hits = {}
  BY <1>1, <1>3, <1>4
<1>5. CASE hits # {}
  <2>1. hits \subseteq Nat
    BY <1>2
  <2>2. \E i \in hits : \A j \in hits : i <= j
    BY <1>5, <2>1, LeastNumber
  <2>3. FindRow(rows, key) \in hits
    BY <1>1, <1>5, <2>2
  <2>4. 0 \notin 1..Len(rows)
    OBVIOUS
  <2> QED
    BY <1>2, <2>3, <2>4
<1> QED
  BY <1>4, <1>5

\* Where a record's lock is drawn.
LEMMA PlaceIs ==
  ASSUME NEW s \in LockSamples, NEW view
  PROVE  LET l == LockOf(s)
         IN Place(view, Object(0), l)
              = IF s.onIndex # view.index THEN <<"other index">>
                ELSE IF s.supremum THEN <<"supremum">>
                ELSE IF FindRow(view.rows, l.key) = 0 THEN <<"unmatched">>
                ELSE <<"row", FindRow(view.rows, l.key)>>
<1> DEFINE l == LockOf(s)
<1>1. BaseTable(l.object) = Object(0) /\ l.index = s.onIndex /\ l.supremum = s.supremum
  BY LockIs
<1>2. LockKind(l) # "table"
  BY KindIsSaid
<1> HIDE DEF l
<1>3. Place(view, Object(0), l)
        = IF s.onIndex # view.index THEN <<"other index">>
          ELSE IF s.supremum THEN <<"supremum">>
          ELSE IF FindRow(view.rows, l.key) = 0 THEN <<"unmatched">>
          ELSE <<"row", FindRow(view.rows, l.key)>>
  BY <1>1, <1>2 DEF Place
<1> QED
  BY <1>3 DEF l

\* What is drawn of one lock.
LEMMA DrawnIs ==
  ASSUME NEW view, NEW table, NEW l
  PROVE  LET drawn == Annotate(view, table, {l})
             where == Place(view, table, l)
         IN /\ \A i \in 1..Len(view.rows) :
                 /\ drawn.rows[i].locks # {} <=> where = <<"row", i>> /\ CoversRecord(LockKind(l))
                 /\ drawn.rows[i].gapLocks # {} <=> where = <<"row", i>> /\ CoversGap(LockKind(l))
            /\ where = <<"supremum">> => drawn.supremum # {}
            /\ where = <<"unmatched">> => drawn.unmatched # {}
            /\ where = <<"other index">> => drawn.otherIndex # {}
BY DEF Annotate

\* What LocksDrawnRight says of a view and what is drawn on it.
DrawnRight(s, view, drawn) ==
  LET marked == {i \in DOMAIN view.rows : drawn.rows[i].locks \union drawn.rows[i].gapLocks # {}}
      its == {i \in DOMAIN view.rows :
                IF s.onIndex = "PRIMARY" THEN view.rows[i].row.id = s.on.id
                ELSE view.rows[i].row = s.on}
      said == ExplainLockMode(LockOf(s))
  IN /\ marked # {} \/ drawn.supremum \union drawn.unmatched \union drawn.otherIndex # {}
     /\ s.hasPK /\ view.index # "by_expr" /\ s.onIndex = view.index /\ ~ s.supremum =>
          \/ marked = its
          \/ s.spelled = "stored" /\ marked = {}
          \/ /\ s.spelled \in {"plain", "padded"}
             /\ \E i \in DOMAIN view.rows \ its :
                  marked = {i} /\ AlikeIn(s.onIndex, view.rows[i].row, s.on)
     /\ \A i \in marked :
          /\ drawn.rows[i].locks # {} <=> said \in {"record", "next-key"}
          /\ drawn.rows[i].gapLocks # {} <=> said # "record"

LEMMA SampleIsDrawn ==
  ASSUME ViewsAssumption, sample \in Samples PROVE LocksDrawnRight
<1> SUFFICES ASSUME sample.kind = "lock",
                    NEW view \in {FetchTable(sample.rows, sample.hasPK, sample.index, sample.limit)},
                    NEW drawn \in {Annotate(view, Object(0), {LockOf(sample)})}
             PROVE  DrawnRight(sample, view, drawn)
  BY DEF LocksDrawnRight, DrawnRight
<1> DEFINE s == sample
           l == LockOf(s)
           where == Place(view, Object(0), l)
           kind == LockKind(l)
           found == FindRow(view.rows, l.key)
           marked == {i \in DOMAIN view.rows : drawn.rows[i].locks \union drawn.rows[i].gapLocks # {}}
           its == {i \in DOMAIN view.rows :
                     IF s.onIndex = "PRIMARY" THEN view.rows[i].row.id = s.on.id
                     ELSE view.rows[i].row = s.on}
<1>0. view = FetchTable(s.rows, s.hasPK, s.index, s.limit) /\ drawn = Annotate(view, Object(0), {l})
  OBVIOUS
<1>1. s \in LockSamples
  BY DEF Samples
<1>2. s.rows \in Contents /\ s.hasPK \in BOOLEAN /\ s.index \in IndexNames /\ s.limit \in Nat
  BY <1>1 DEF LockSamples, ViewsAssumption
<1> HIDE DEF s
<1>3. Len(view.rows) \in Nat /\ DOMAIN view.rows = 1..Len(view.rows)
  BY <1>0, <1>2, ViewHasRows
<1>4. kind = ExplainLockMode(l) /\ kind \in {"record", "gap", "next-key", "insert-intention"}
  BY <1>1, KindIsSaid
<1>5. where = IF s.onIndex # view.index THEN <<"other index">>
              ELSE IF s.supremum THEN <<"supremum">>
              ELSE IF found = 0 THEN <<"unmatched">>
              ELSE <<"row", found>>
  BY <1>1, PlaceIs
<1>6. /\ found # 0 => found \in 1..Len(view.rows) /\ KeyMatches(view.rows[found].key, l.key)
      /\ found = 0 => \A i \in 1..Len(view.rows) : ~ KeyMatches(view.rows[i].key, l.key)
  BY <1>3, FindRowIs
<1>7. /\ \A i \in 1..Len(view.rows) :
           /\ drawn.rows[i].locks # {} <=> where = <<"row", i>> /\ CoversRecord(kind)
           /\ drawn.rows[i].gapLocks # {} <=> where = <<"row", i>> /\ CoversGap(kind)
      /\ where = <<"supremum">> => drawn.supremum # {}
      /\ where = <<"unmatched">> => drawn.unmatched # {}
      /\ where = <<"other index">> => drawn.otherIndex # {}
  <2> DEFINE d == Annotate(view, Object(0), {l})
  <2>1. /\ \A i \in 1..Len(view.rows) :
             /\ d.rows[i].locks # {} <=> where = <<"row", i>> /\ CoversRecord(kind)
             /\ d.rows[i].gapLocks # {} <=> where = <<"row", i>> /\ CoversGap(kind)
        /\ where = <<"supremum">> => d.supremum # {}
        /\ where = <<"unmatched">> => d.unmatched # {}
        /\ where = <<"other index">> => d.otherIndex # {}
    BY DrawnIs
  <2>2. drawn = d
    BY <1>0
  <2> HIDE DEF d, where, kind
  <2> QED
    BY <2>1, <2>2
<1>8. /\ CoversRecord(kind) <=> kind \in {"record", "next-key"}
      /\ CoversGap(kind) <=> kind # "record"
      /\ CoversRecord(kind) \/ CoversGap(kind)
  BY <1>4 DEF CoversRecord, CoversGap
<1> HIDE DEF where, kind, found
<1>9. \A i \in 1..Len(view.rows) : i \in marked <=> where = <<"row", i>>
  BY <1>3, <1>7, <1>8
<1>14. marked \subseteq 1..Len(view.rows) /\ its \subseteq 1..Len(view.rows)
  BY <1>3
<1> DEFINE beside == drawn.supremum \union drawn.unmatched \union drawn.otherIndex
<1>10. marked # {} \/ beside # {}
  <2>1. where \in {<<"supremum">>, <<"unmatched">>, <<"other index">>} => beside # {}
    BY <1>7
  <2>2. CASE where = <<"row", found>> /\ found # 0
    BY <1>6, <1>9, <2>2
  <2> QED
    BY <1>5, <2>1, <2>2
<1>11. ASSUME s.hasPK, view.index # "by_expr", s.onIndex = view.index, ~ s.supremum
       PROVE  \/ marked = its
              \/ s.spelled = "stored" /\ marked = {}
              \/ /\ s.spelled \in {"plain", "padded"}
                 /\ \E i \in DOMAIN view.rows \ its :
                      marked = {i} /\ AlikeIn(s.onIndex, view.rows[i].row, s.on)
  <2>1. s.hasPK = TRUE
    BY <1>2, <1>11
  <2> DEFINE same == FetchTable(s.rows, TRUE, s.index, s.limit)
  <2>10. view = same
    BY <1>0, <2>1, Zenon
  <2>2. s.index \in {"PRIMARY", "by_v"} /\ view.index = s.index
    <3>1. view.index = Index(Indexes(TRUE), s.index).name
      <4>1. same.index = Index(Indexes(TRUE), s.index).name
        BY DEF FetchTable
      <4> QED
        BY <2>10, <4>1, Zenon
    <3>2. s.index \in DOMAIN Indexes(TRUE) /\ Indexes(TRUE)[s.index].name = s.index
      BY <1>2, PrimaryIs DEF IndexNames
    <3>3. view.index = s.index
      BY <3>1, <3>2 DEF Index
    <3> QED
      BY <1>2, <1>11, <3>3 DEF IndexNames
  <2>3. /\ \A i \in DOMAIN view.rows : /\ view.rows[i].row \in s.rows
                                       /\ view.rows[i].key = KeyOf(view.rows[i].row, s.index)
        /\ \A i, j \in DOMAIN view.rows : i # j => view.rows[i].row.id # view.rows[j].row.id
    <3>1. s.index \in {"PRIMARY", "by_v"}
      BY <2>2
    <3>2. /\ \A i \in DOMAIN same.rows : /\ same.rows[i].row \in s.rows
                                         /\ same.rows[i].key = KeyOf(same.rows[i].row, s.index)
          /\ \A i, j \in DOMAIN same.rows : i # j => same.rows[i].row.id # same.rows[j].row.id
      BY <1>2, <3>1, ViewIsOfDifferentRows
    <3> HIDE DEF same
    <3> QED
      BY <2>10, <3>2
  <2>4. \A r \in s.rows : r \in [id : Nat, v : Nat]
    BY <1>2, ContentsAreFinite
  <2>4a. s.spelled \in {"plain", "padded", "hex", "stored"}
    BY <1>1 DEF LockSamples
  <2>5. \A i \in DOMAIN view.rows :
          /\ KeyMatches(view.rows[i].key, l.key) <=> Matching(s, view.rows[i].row, s.onIndex)
          /\ i \in its <=> IF s.onIndex = "PRIMARY" THEN view.rows[i].row.id = s.on.id
                          ELSE view.rows[i].row = s.on
    <3> SUFFICES ASSUME NEW i \in DOMAIN view.rows
                 PROVE  /\ KeyMatches(view.rows[i].key, l.key) <=> Matching(s, view.rows[i].row, s.onIndex)
                        /\ i \in its <=> IF s.onIndex = "PRIMARY" THEN view.rows[i].row.id = s.on.id
                                        ELSE view.rows[i].row = s.on
      OBVIOUS
    <3> DEFINE r == view.rows[i].row
    <3>1. r \in [id : Nat, v : Nat] /\ view.rows[i].key = KeyOf(r, s.index)
      BY <2>3, <2>4
    <3>2. i \in its <=> IF s.onIndex = "PRIMARY" THEN r.id = s.on.id ELSE r = s.on
      OBVIOUS
    <3> HIDE DEF r, l, its
    <3>3. /\ s.onIndex = "PRIMARY" =>
               (KeyMatches(KeyOf(r, "PRIMARY"), l.key) <=> Matching(s, r, "PRIMARY"))
          /\ s.onIndex = "by_v" =>
               (KeyMatches(KeyOf(r, "by_v"), l.key) <=> Matching(s, r, "by_v"))
      BY <1>1, <1>11, <3>1, KeysMatch DEF l
    <3>4. KeyMatches(view.rows[i].key, l.key) <=> Matching(s, r, s.onIndex)
      <4>1. CASE s.index = "PRIMARY"
        BY <1>11, <2>2, <3>1, <3>3, <4>1
      <4>2. CASE s.index = "by_v"
        BY <1>11, <2>2, <3>1, <3>3, <4>2
      <4> QED
        BY <2>2, <4>1, <4>2
    <3> QED
      BY <3>2, <3>4 DEF r
  <2>6. \A i, j \in its : i = j
    <3> SUFFICES ASSUME NEW i \in its, NEW j \in its PROVE view.rows[i].row.id = view.rows[j].row.id
      BY <2>3
    <3> QED
      OBVIOUS
  <2>7. where = IF found = 0 THEN <<"unmatched">> ELSE <<"row", found>>
    BY <1>5, <1>11
  <2>8. marked = IF found = 0 THEN {} ELSE {found}
    <3> HIDE DEF marked
    <3>1. \A i \in 1..Len(view.rows) : <<"unmatched">> # <<"row", i>>
      OBVIOUS
    <3>2. \A i \in 1..Len(view.rows) : <<"row", found>> = <<"row", i>> <=> found = i
      OBVIOUS
    <3> QED
      BY <1>6, <1>9, <1>14, <2>7, <3>1, <3>2
  <2>9. its \subseteq DOMAIN view.rows
    OBVIOUS
  <2> HIDE DEF its, marked, l
  <2>11. ASSUME s.spelled = "stored" PROVE s.spelled = "stored" /\ marked = {}
    <3>1. \A i \in DOMAIN view.rows : ~ KeyMatches(view.rows[i].key, l.key)
      BY <2>5, <2>11 DEF Matching
    <3> QED
      BY <1>3, <1>6, <2>8, <2>11, <3>1
  <2>12. ASSUME s.spelled = "hex" PROVE marked = its
    <3>1. \A i \in DOMAIN view.rows : KeyMatches(view.rows[i].key, l.key) <=> i \in its
      BY <2>5, <2>12 DEF Matching
    <3>2. CASE found = 0
      BY <1>3, <1>6, <2>8, <2>9, <3>1, <3>2
    <3>3. CASE found # 0
      BY <1>3, <1>6, <2>6, <2>8, <3>1, <3>3
    <3> QED
      BY <3>2, <3>3
  <2>13. ASSUME s.spelled \in {"plain", "padded"}
         PROVE  \/ marked = its
                \/ \E i \in DOMAIN view.rows \ its :
                     marked = {i} /\ AlikeIn(s.onIndex, view.rows[i].row, s.on)
    <3>1. \A i \in DOMAIN view.rows :
            KeyMatches(view.rows[i].key, l.key) <=> AlikeIn(s.onIndex, view.rows[i].row, s.on)
      BY <2>5, <2>13 DEF Matching
    <3>2. \A i \in its : AlikeIn(s.onIndex, view.rows[i].row, s.on)
      BY <2>5, <2>9 DEF AlikeIn
    <3>3. CASE found = 0
      BY <1>3, <1>6, <2>8, <2>9, <3>1, <3>2, <3>3
    <3>4. CASE found # 0 /\ found \in its
      BY <2>6, <2>8, <3>4
    <3>5. CASE found # 0 /\ found \notin its
      BY <1>3, <1>6, <2>8, <3>1, <3>5
    <3> QED
      BY <3>3, <3>4, <3>5
  <2> QED
    BY <2>4a, <2>11, <2>12, <2>13
<1>12. ASSUME NEW i \in marked
       PROVE  /\ drawn.rows[i].locks # {} <=> ExplainLockMode(l) \in {"record", "next-key"}
              /\ drawn.rows[i].gapLocks # {} <=> ExplainLockMode(l) # "record"
  <2>1. i \in 1..Len(view.rows) /\ where = <<"row", i>>
    BY <1>3, <1>9
  <2> QED
    BY <1>4, <1>7, <1>8, <2>1
<1> QED
  <2> HIDE DEF its, marked
  <2>1. s.hasPK /\ view.index # "by_expr" /\ s.onIndex = view.index /\ ~ s.supremum =>
          \/ marked = its
          \/ s.spelled = "stored" /\ marked = {}
          \/ /\ s.spelled \in {"plain", "padded"}
             /\ \E i \in DOMAIN view.rows \ its :
                  marked = {i} /\ AlikeIn(s.onIndex, view.rows[i].row, s.on)
    BY <1>11
  <2>2. \A i \in marked :
          /\ drawn.rows[i].locks # {} <=> ExplainLockMode(l) \in {"record", "next-key"}
          /\ drawn.rows[i].gapLocks # {} <=> ExplainLockMode(l) # "record"
    BY <1>12
  <2> QED
    BY <1>10, <2>1, <2>2 DEF DrawnRight, its, marked, s

-----------------------------------------------------------------------------
\* A lock is drawn on the entry it is on and said to be what it is drawn as, and
\* a key of any strings is read back as it was written, whatever the sample:
\* LocksRight, of any number of rows and letters.
THEOREM LocksAreRight == ViewsSpec => []LocksRight
<1>1. ViewsInit => ViewsInv
  BY ViewsAssumption, ViewsInvInit
<1>2. ViewsInv /\ [ViewsNext]_viewsVars => ViewsInv'
  BY ViewsAssumption, ViewsInvStep
<1>3. ViewsInv => LocksRight
  BY ViewsAssumption, SampleIsDrawn, SampleKeyIsRead DEF ViewsInv, LocksRight
<1> QED
  BY <1>1, <1>2, <1>3, PTL DEF ViewsSpec
=============================================================================
