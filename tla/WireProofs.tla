----------------------------- MODULE WireProofs -----------------------------
(***************************************************************************)
(* A connection is reported closed last, and what is decoded of it in      *)
(* order is shown as what it is, for any numbers of commands and rows.     *)
(***************************************************************************)
EXTENDS Wire, TLAPS

\* Both pumps have ended when the connection is reported closed.
HandledInv ==
  /\ DOMAIN pump = Ends
  /\ handled => \A e \in Ends : pump[e] = "ended"

LEMMA HandledInvHolds == Init => HandledInv
BY DEF Init, HandledInv

\* A pump that has ended does nothing any more.
LEMMA EndedPumpsRest ==
  ASSUME HandledInv, handled, Next
  PROVE  UNCHANGED <<pump, decoder, event, handled>>
<1>1. \A e \in Ends : ~ (Forward(e) \/ Decode(e) \/ Emit(e) \/ PumpEnds(e))
  BY DEF HandledInv, Forward, Decode, Emit, PumpEnds, AtEnd
<1>2. CASE Login \/ GoOn \/ Command \/ \E e \in Ends : Leave(e)
  BY <1>2 DEF Login, GoOn, Command, Leave, pumpVars, decoderVars
<1>3. CASE Handled \/ Rest
  BY <1>3 DEF Handled, Rest, vars, pumpVars, decoderVars
<1> QED
  BY <1>1, <1>2, <1>3 DEF Next

LEMMA HandledInvKept ==
  ASSUME HandledInv, [Next]_vars
  PROVE  HandledInv'
<1>1. CASE handled /\ Next
  BY <1>1, EndedPumpsRest DEF HandledInv
<1>2. CASE ~ handled /\ Next
  <2>1. DOMAIN pump' = Ends
    <3>1. CASE Login \/ GoOn \/ Command \/ \E e \in Ends : Leave(e)
      BY <3>1 DEF HandledInv, Login, GoOn, Command, Leave, pumpVars
    <3>2. CASE \E e \in Ends : Forward(e) \/ Decode(e) \/ Emit(e) \/ PumpEnds(e)
      <4>1. \E e \in Ends, to \in {"decode", "emit", "read", "ended"} :
              pump' = [pump EXCEPT ![e] = to]
        BY <3>2 DEF Forward, Decode, Emit, PumpEnds
      <4> QED
        BY <4>1 DEF HandledInv
    <3>3. CASE Handled \/ Rest
      BY <3>3 DEF HandledInv, Handled, Rest, vars, pumpVars
    <3> QED
      BY <1>2, <3>1, <3>2, <3>3 DEF Next
  <2>2. CASE Handled
    BY <2>2 DEF HandledInv, Handled, pumpVars
  <2>3. CASE ~ Handled
    <3>1. handled' = handled
      BY <1>2, <2>3 DEF Next, Login, GoOn, Command, Leave, Forward, Decode, Emit, PumpEnds, Rest
    <3> QED
      BY <1>2, <2>1, <3>1 DEF HandledInv
  <2> QED
    BY <2>2, <2>3
<1>3. CASE UNCHANGED vars
  BY <1>3 DEF HandledInv, vars, pumpVars
<1> QED
  BY <1>1, <1>2, <1>3

\* Once the connection is reported closed no packet of it is decoded or emitted
\* any more (wire/proxy.go, handle waits for both pumps).
THEOREM ClosedIsLast == FairSpec => ClosedComesLast
<1>1. Init => HandledInv
  BY HandledInvHolds
<1>2. HandledInv /\ [Next]_vars => HandledInv'
  BY HandledInvKept
<1>3. HandledInv /\ [Next]_vars => [handled => UNCHANGED <<decoder, event>>]_vars
  BY EndedPumpsRest
<1> QED
  BY <1>1, <1>2, <1>3, PTL DEF FairSpec, Spec, ClosedComesLast

-----------------------------------------------------------------------------
(***************************************************************************)
(* Reading.  What matters of the decoder to the properties is what it      *)
(* knows, whether it was derailed, and whether every packet so far was     *)
(* decoded in order; a packet takes one such state to the next, and is     *)
(* read right or not.                                                      *)
(***************************************************************************)

\* Only what the client sends says whether it starts a request.
From(p) == IF "start" \in DOMAIN p THEN Client ELSE Server

Reads(d, p) ==
  CASE d.handshake -> DecodeHandshake(d, From(p), p)
    [] ~ d.handshake /\ From(p) = Client -> DecodeCommand(d, p)
    [] OTHER -> DecodeResponse(d, p)

Starts(d, p) == From(p) = Client /\ p.start /\ ~ d.handshake

Derails(p) == p.is = "EndOfRows" /\ p.more /\ ~ deprecate

\* The statement a packet is truly about.
About(p) == IF "sql" \in DOMAIN p /\ p.is # "COM_STMT_CLOSE" THEN p.sql ELSE NoSQL

After(x, p) ==
  [d |-> Reads(x.d, p).decoder,
   off |-> CASE Derails(p) -> TRUE [] ~ Derails(p) /\ Starts(x.d, p) -> FALSE [] OTHER -> x.off,
   sure |-> x.sure]

\* A derailed decoder calls the rest of an answer, but for an error, unsolicited.
Shown(x, p) ==
  IF x.off /\ From(p) = Server /\ p.is # "ERR" THEN "Unsolicited" ELSE p.is

Right(x, p) ==
  /\ Reads(x.d, p).kind = Shown(x, p)
  /\ x.sure => Reads(x.d, p).sql = About(p)

\* From any state of S the packets of q are all read right, and lead into T.
Leads(S, q, T) ==
  \E through :
    /\ S \subseteq through[0] /\ through[Len(q)] \subseteq T
    /\ \A i \in 1..Len(q) : \A x \in through[i - 1] :
         Right(x, q[i]) /\ After(x, q[i]) \in through[i]

\* No packets lead anywhere but where one is.
LEMMA LeadsNowhere ==
  ASSUME NEW S, NEW T, S \subseteq T, NEW q, Len(q) = 0 PROVE Leads(S, q, T)
<1> DEFINE through == [i \in {0} |-> S]
<1>1. through[0] = S
  OBVIOUS
<1> HIDE DEF through
<1> QED
  BY <1>1 DEF Leads

\* One packet leads where it is read to lead.
LEMMA LeadsOn ==
  ASSUME NEW S, NEW T, NEW q, Len(q) = 1,
         \A x \in S : Right(x, q[1]) /\ After(x, q[1]) \in T
  PROVE  Leads(S, q, T)
<1> DEFINE through == [i \in {0, 1} |-> IF i = 0 THEN S ELSE T]
<1>1. through[0] = S /\ through[1] = T
  OBVIOUS
<1> HIDE DEF through
<1>2. \A i \in 1..Len(q) : i = 1 /\ i - 1 = 0
  OBVIOUS
<1>3. \A i \in 1..Len(q) : \A x \in through[i - 1] :
        Right(x, q[i]) /\ After(x, q[i]) \in through[i]
  BY <1>1, <1>2
<1> QED
  BY <1>1, <1>3 DEF Leads

\* Sequences that lead one to the next.
LEMMA LeadsAcross ==
  ASSUME NEW P, NEW q \in Seq(P), NEW s \in Seq(P), NEW S, NEW T, NEW U,
         Leads(S, q, T), Leads(T, s, U)
  PROVE  Leads(S, q \o s, U)
<1>1. PICK f : /\ S \subseteq f[0] /\ f[Len(q)] \subseteq T
               /\ \A i \in 1..Len(q) : \A x \in f[i - 1] :
                    Right(x, q[i]) /\ After(x, q[i]) \in f[i]
  BY DEF Leads
<1>2. PICK g : /\ T \subseteq g[0] /\ g[Len(s)] \subseteq U
               /\ \A i \in 1..Len(s) : \A x \in g[i - 1] :
                    Right(x, s[i]) /\ After(x, s[i]) \in g[i]
  BY DEF Leads
<1> DEFINE both == q \o s
           through == [i \in 0..(Len(q) + Len(s)) |->
                         IF i < Len(q) THEN f[i] ELSE g[i - Len(q)]]
<1>3. /\ Len(q) \in Nat /\ Len(s) \in Nat /\ Len(both) = Len(q) + Len(s)
      /\ \A i \in 1..Len(q) : both[i] = q[i]
      /\ \A i \in 1..Len(s) : both[Len(q) + i] = s[i]
  OBVIOUS
<1>4. /\ \A i \in 0..(Len(q) - 1) : through[i] = f[i]
      /\ \A i \in 0..Len(s) : through[Len(q) + i] = g[i]
  BY <1>3
<1> HIDE DEF both, through
<1>5. ASSUME NEW i \in 1..Len(both), NEW x \in through[i - 1]
      PROVE  Right(x, both[i]) /\ After(x, both[i]) \in through[i]
  <2>1. CASE i <= Len(q)
    <3>1. i \in 1..Len(q) /\ i - 1 \in 0..(Len(q) - 1)
      BY <1>3, <2>1
    <3>2. both[i] = q[i] /\ through[i - 1] = f[i - 1]
      BY <1>3, <1>4, <3>1
    <3>3. Right(x, q[i]) /\ After(x, q[i]) \in f[i]
      BY <1>1, <3>1, <3>2
    <3>4. f[i] \subseteq through[i]
      <4>1. CASE i < Len(q)
        <5>1. i \in 0..(Len(q) - 1)
          BY <3>1, <4>1
        <5> QED
          BY <1>4, <5>1
      <4>2. CASE i = Len(q)
        <5>1. 0 \in 0..Len(s) /\ i = Len(q) + 0
          BY <1>3, <4>2
        <5>2. through[i] = g[0]
          BY <1>4, <5>1
        <5> QED
          BY <1>1, <1>2, <4>2, <5>2
      <4> QED
        BY <4>1, <4>2, <3>1, <1>3
    <3> QED
      BY <3>2, <3>3, <3>4
  <2>2. CASE ~ i <= Len(q)
    <3> DEFINE j == i - Len(q)
    <3>1. j \in 1..Len(s) /\ i = Len(q) + j /\ i - 1 = Len(q) + (j - 1)
          /\ j - 1 \in 0..Len(s) /\ j \in 0..Len(s)
      BY <1>3, <2>2
    <3> HIDE DEF j
    <3>2. through[i] = g[j]
      BY <1>4, <3>1
    <3>3. through[i - 1] = g[j - 1]
      BY <1>4, <3>1
    <3>4. both[i] = s[j]
      BY <1>3, <3>1
    <3> QED
      BY <1>2, <3>1, <3>2, <3>3, <3>4
  <2> QED
    BY <2>1, <2>2
<1>6. S \subseteq through[0]
  <2>1. CASE Len(q) = 0
    <3>1. 0 \in 0..Len(s) /\ Len(q) + 0 = 0
      BY <1>3, <2>1
    <3>2. through[0] = g[0]
      BY <1>4, <3>1
    <3> QED
      BY <1>1, <1>2, <2>1, <3>2
  <2>2. CASE Len(q) # 0
    <3>1. 0 \in 0..(Len(q) - 1)
      BY <1>3, <2>2
    <3> QED
      BY <1>1, <1>4, <3>1
  <2> QED
    BY <2>1, <2>2
<1>7. through[Len(both)] \subseteq U
  <2>1. Len(s) \in 0..Len(s)
    BY <1>3
  <2>2. through[Len(both)] = g[Len(s)]
    BY <1>3, <1>4, <2>1
  <2> QED
    BY <1>2, <2>2
<1>8. Leads(S, both, U)
  BY <1>5, <1>6, <1>7 DEF Leads
<1> QED
  BY <1>8 DEF both

\* When the first packet was read the rest leads on from the state after it.
LEMMA LeadsPast ==
  ASSUME NEW P, NEW q \in Seq(P), q # <<>>, NEW S, NEW T, Leads(S, q, T), NEW x \in S
  PROVE  Right(x, Head(q)) /\ Leads({After(x, Head(q))}, Tail(q), T)
<1>1. PICK f : /\ S \subseteq f[0] /\ f[Len(q)] \subseteq T
               /\ \A i \in 1..Len(q) : \A y \in f[i - 1] :
                    Right(y, q[i]) /\ After(y, q[i]) \in f[i]
  BY DEF Leads
<1> DEFINE rest == Tail(q)
           through == [i \in 0..(Len(q) - 1) |-> f[i + 1]]
<1>2. /\ Len(q) \in Nat /\ Len(q) > 0 /\ Len(rest) = Len(q) - 1 /\ Head(q) = q[1]
      /\ \A i \in 1..Len(rest) : rest[i] = q[i + 1]
  OBVIOUS
<1>3. \A i \in 0..(Len(q) - 1) : through[i] = f[i + 1]
  OBVIOUS
<1> HIDE DEF rest, through
<1>4. Right(x, q[1]) /\ After(x, q[1]) \in f[1]
  <2>1. 1 \in 1..Len(q) /\ 1 - 1 = 0
    BY <1>2
  <2> QED
    BY <1>1, <2>1
<1>5. ASSUME NEW i \in 1..Len(rest), NEW y \in through[i - 1]
      PROVE  Right(y, rest[i]) /\ After(y, rest[i]) \in through[i]
  <2>1. i + 1 \in 1..Len(q) /\ (i + 1) - 1 = i /\ i \in 0..(Len(q) - 1)
        /\ i - 1 \in 0..(Len(q) - 1) /\ (i - 1) + 1 = i
    BY <1>2
  <2>2. through[i] = f[i + 1]
    BY <1>3, <2>1
  <2>3. through[i - 1] = f[i]
    BY <1>3, <2>1
  <2>4. rest[i] = q[i + 1]
    BY <1>2
  <2> DEFINE n == i + 1
  <2>5. n \in 1..Len(q) /\ n - 1 = i
    BY <2>1
  <2>6. through[i] = f[n] /\ rest[i] = q[n]
    BY <2>2, <2>4
  <2> HIDE DEF n
  <2> QED
    BY <1>1, <2>3, <2>5, <2>6
<1>6. {After(x, q[1])} \subseteq through[0] /\ through[Len(rest)] \subseteq T
  <2>1. 0 \in 0..(Len(q) - 1) /\ Len(rest) \in 0..(Len(q) - 1) /\ 0 + 1 = 1
        /\ Len(rest) + 1 = Len(q)
    BY <1>2
  <2>2. through[0] = f[1] /\ through[Len(rest)] = f[Len(q)]
    BY <1>3, <2>1
  <2> QED
    BY <1>1, <1>4, <2>2
<1>7. Leads({After(x, q[1])}, rest, T)
  BY <1>5, <1>6 DEF Leads
<1> QED
  BY <1>2, <1>4, <1>7 DEF rest

\* Packets that do not lead out of a set can come any number of times.
LEMMA LeadsAround ==
  ASSUME NEW q, Len(q) \in Nat, NEW S,
         \A i \in 1..Len(q) : \A x \in S : Right(x, q[i]) /\ After(x, q[i]) \in S
  PROVE  Leads(S, q, S)
<1> DEFINE through == [i \in 0..Len(q) |-> S]
<1>1. \A i \in 0..Len(q) : through[i] = S
  OBVIOUS
<1>2. 0 \in 0..Len(q) /\ Len(q) \in 0..Len(q)
      /\ \A i \in 1..Len(q) : i \in 0..Len(q) /\ i - 1 \in 0..Len(q)
  OBVIOUS
<1> HIDE DEF through
<1>3. through[0] = S /\ through[Len(q)] = S
  BY <1>1, <1>2
<1>4. ASSUME NEW i \in 1..Len(q), NEW x \in through[i - 1]
      PROVE  Right(x, q[i]) /\ After(x, q[i]) \in through[i]
  BY <1>1, <1>2
<1> QED
  BY <1>3, <1>4 DEF Leads

\* From fewer states, into more.
LEMMA LeadsInto ==
  ASSUME NEW S, NEW S1, NEW T, NEW T1, NEW q, Leads(S, q, T), S1 \subseteq S, T \subseteq T1
  PROVE  Leads(S1, q, T1)
BY DEF Leads

\* Packets that are read alike, in place of one another.
LEMMA LeadsAlike ==
  ASSUME NEW q, NEW s, Len(q) = Len(s), NEW S, NEW T, Leads(S, q, T),
         \A i \in 1..Len(q) : \A x : /\ After(x, s[i]) = After(x, q[i])
                                     /\ Right(x, q[i]) => Right(x, s[i])
  PROVE  Leads(S, s, T)
<1>1. PICK f : /\ S \subseteq f[0] /\ f[Len(q)] \subseteq T
               /\ \A i \in 1..Len(q) : \A x \in f[i - 1] :
                    Right(x, q[i]) /\ After(x, q[i]) \in f[i]
  BY DEF Leads
<1>2. ASSUME NEW i \in 1..Len(s), NEW x \in f[i - 1]
      PROVE  Right(x, s[i]) /\ After(x, s[i]) \in f[i]
  <2>1. i \in 1..Len(q)
    OBVIOUS
  <2>2. Right(x, q[i]) /\ After(x, q[i]) \in f[i]
    BY <1>1, <2>1
  <2>3. After(x, s[i]) = After(x, q[i]) /\ (Right(x, q[i]) => Right(x, s[i]))
    BY <2>1
  <2> QED
    BY <2>2, <2>3
<1> QED
  BY <1>1, <1>2 DEF Leads

\* What the two ends agreed on stays, and with it how packets are read.
LEMMA ReadAlike ==
  ASSUME deprecate' = deprecate
  PROVE  \A x, p : After(x, p)' = After(x, p) /\ (Right(x, p)' <=> Right(x, p))
<1> SUFFICES ASSUME NEW x, NEW p PROVE After(x, p)' = After(x, p) /\ (Right(x, p)' <=> Right(x, p))
  OBVIOUS
<1>1. DecodeHandshake(x.d, From(p), p)' = DecodeHandshake(x.d, From(p), p)
  BY DEF DecodeHandshake
<1>2. Reads(x.d, p)' = Reads(x.d, p)
  BY <1>1 DEF Reads
<1>3. Derails(p)' = Derails(p)
  BY DEF Derails
<1> QED
  BY <1>2, <1>3 DEF After, Right

\* A step leaves what sequences lead to as it was.
LEMMA LeadsStill ==
  ASSUME deprecate' = deprecate
  PROVE  \A S, q, T : Leads(S, q, T) => Leads(S, q, T)'
<1> SUFFICES ASSUME NEW S, NEW q, NEW T, Leads(S, q, T) PROVE Leads(S, q, T)'
  OBVIOUS
<1>1. PICK f : /\ S \subseteq f[0] /\ f[Len(q)] \subseteq T
               /\ \A i \in 1..Len(q) : \A x \in f[i - 1] :
                    Right(x, q[i]) /\ After(x, q[i]) \in f[i]
  BY DEF Leads
<1>2. \A i \in 1..Len(q) : \A x \in f[i - 1] :
        Right(x, q[i])' /\ After(x, q[i])' \in f[i]
  BY <1>1, ReadAlike
<1> QED
  BY <1>1, <1>2 DEF Leads

-----------------------------------------------------------------------------
(***************************************************************************)
(* What the decoder knows, and what has been agreed with it.               *)
(***************************************************************************)

Commands == {"COM_QUERY", "COM_STMT_PREPARE", "COM_STMT_EXECUTE", "COM_STMT_CLOSE"}

Texts == {NoSQL, "q", "a", "b"}

Decoders ==
  [handshake : BOOLEAN, deprecate : BOOLEAN,
   state : {"none", "first", "prepareParams", "prepareColumns", "definitions", "rows"},
   command : Commands \union {"none"}, columns : Nat, params : Nat, await : BOOLEAN,
   pending : Texts, stmts : [1..MaxCommands -> Texts]]

States == [d : Decoders, off : BOOLEAN, sure : BOOLEAN]

\* It has the statements of `known', unless a packet was decoded out of order.
Knows(x, known) ==
  x.sure => \A n \in DOMAIN known : known[n] # NoSQL => x.d.stmts[n] = known[n]

\* Before the login, while it is answered, and between and in the answers to
\* commands.
Strangers(known) == {x \in States : x.d.handshake /\ ~ x.off /\ Knows(x, known)}

Joining(known) == {x \in Strangers(known) : x.d.deprecate = deprecate}

Idle(known) ==
  {x \in States : /\ ~ x.d.handshake /\ x.d.deprecate = deprecate /\ Knows(x, known)
                  /\ x.off => x.d.state = "none"}

\* The states in which the answer to command c, which is about sql, starts.
Asked(c, sql, known) ==
  {x \in Idle(known) : /\ x.d.state = "first" /\ x.d.command = c
                       /\ c = "COM_STMT_PREPARE" /\ x.sure => x.d.pending = sql}

\* In a result set: before the header, the column's definition, the EOF that
\* follows it, and the rows; then another result may follow.
Fresh(known) ==
  {x \in Idle(known) : x.d.state = "first" /\ x.d.command # "COM_STMT_PREPARE"}

Column(known) ==
  {x \in Idle(known) : x.d.state = "definitions" /\ x.d.columns = 1
                         /\ x.d.await = ~ deprecate /\ x.d.command # "COM_STMT_PREPARE"}

Closing(known) ==
  {x \in Idle(known) : x.d.state = "definitions" /\ x.d.command # "COM_STMT_PREPARE"}

Rows(known) ==
  {x \in Idle(known) : x.d.state = "rows" /\ x.d.command # "COM_STMT_PREPARE"}

Again(known) == {x \in Idle(known) : x.off \/ x \in Fresh(known)}

\* In the answer to a preparation: before a parameter's definition, the EOF that
\* follows it, a column's definition, and the EOF that follows that; n columns
\* come after the parameters.
Params(n, known) ==
  {x \in Idle(known) : x.d.state = "prepareParams" /\ x.d.params = 1 /\ x.d.columns = n}

ParamsEnd(n, known) ==
  {x \in Idle(known) : x.d.state = "prepareParams" /\ x.d.columns = n}

Columns(known) ==
  {x \in Idle(known) : x.d.state = "prepareColumns" /\ x.d.columns = 1}

ColumnsEnd(known) == {x \in Idle(known) : x.d.state = "prepareColumns"}

AfterParams(n, known) == IF n = 0 THEN Idle(known) ELSE Columns(known)

\* A packet of the server that leaves the statements and the flags alone stays
\* within what is agreed on between commands.
LEMMA IdleStays ==
  ASSUME deprecate \in BOOLEAN, NEW known, NEW x \in Idle(known),
         NEW p, "start" \notin DOMAIN p, "sql" \notin DOMAIN p,
         NEW d \in Decoders, NEW k, DecodeResponse(x.d, p) = Plain(d, k),
         d.handshake = x.d.handshake, d.deprecate = x.d.deprecate, d.stmts = x.d.stmts,
         k = Shown(x, p), x.off \/ Derails(p) => d.state = "none"
  PROVE  /\ Right(x, p) /\ After(x, p) \in Idle(known) /\ After(x, p).d = d
         /\ x.off \/ Derails(p) => After(x, p).off
<1>1. x \in States /\ ~ x.d.handshake /\ x.d.deprecate = deprecate /\ Knows(x, known)
  BY DEF Idle
<1>2. From(p) = Server /\ From(p) # Client /\ About(p) = NoSQL
  BY DEF From, About, Server, Client
<1>3. Reads(x.d, p) = Plain(d, k) /\ ~ Starts(x.d, p)
  BY <1>1, <1>2 DEF Reads, Starts
<1>4. Plain(d, k).decoder = d /\ Plain(d, k).kind = k /\ Plain(d, k).sql = NoSQL
  BY DEF Plain, Step
<1>5. Right(x, p)
  BY <1>2, <1>3, <1>4 DEF Right
<1> DEFINE y == After(x, p)
<1>8. y.d = d /\ y.sure = x.sure /\ y \in States /\ (x.off \/ Derails(p) <=> y.off)
  <2>1. CASE Derails(p)
    <3>1. y = [d |-> d, off |-> TRUE, sure |-> x.sure]
      BY <1>3, <1>4, <2>1 DEF After
    <3> QED
      BY <1>1, <2>1, <3>1 DEF States
  <2>2. CASE ~ Derails(p)
    <3>1. y = [d |-> d, off |-> x.off, sure |-> x.sure]
      BY <1>3, <1>4, <2>2 DEF After
    <3> QED
      BY <1>1, <2>2, <3>1 DEF States
  <2> QED
    BY <2>1, <2>2
<1>10. Knows(y, known)
  BY <1>1, <1>8 DEF Knows
<1>9. y \in Idle(known)
  BY <1>1, <1>8, <1>10 DEF Idle
<1> QED
  BY <1>5, <1>8, <1>9 DEF y

\* In an answer the decoder has followed to here it is not derailed.
LEMMA FollowedHere ==
  ASSUME NEW known, NEW x \in Idle(known), x.d.state # "none"
  PROVE  ~ x.off /\ \A p : Shown(x, p) = p.is
BY DEF Idle, Shown

\* There a packet is read as what it is.
LEMMA AnswerStays ==
  ASSUME deprecate \in BOOLEAN, NEW known, NEW x \in Idle(known), x.d.state # "none",
         NEW p, "start" \notin DOMAIN p, "sql" \notin DOMAIN p,
         NEW d \in Decoders, NEW k, DecodeResponse(x.d, p) = Plain(d, k),
         d.handshake = x.d.handshake, d.deprecate = x.d.deprecate, d.stmts = x.d.stmts,
         p.is = k, k # "EndOfRows"
  PROVE  Right(x, p) /\ After(x, p) \in Idle(known) /\ After(x, p).d = d
<1>1. k = Shown(x, p) /\ ~ x.off /\ ~ Derails(p)
  BY FollowedHere DEF Derails
<1> QED
  BY <1>1, IdleStays

\* What IdleStays asks of a state.
LEMMA IdleTypes ==
  ASSUME NEW known, NEW x \in Idle(known)
  PROVE  /\ x.d \in Decoders /\ ~ x.d.handshake /\ x.d.deprecate = deprecate
         /\ x \in States /\ Knows(x, known)
BY DEF Idle, States

\* What is still to come of a block stays a number.
LEMMA OneLess == \A n \in Nat : (IF n > 0 THEN n - 1 ELSE 0) \in Nat
  OBVIOUS

\* A definition only counts down, and may lead to the next part of an answer.
LEMMA DefinitionRead ==
  ASSUME NEW d \in Decoders, NEW p, p.first # "eof",
         d.state \in {"prepareParams", "prepareColumns", "definitions"}
  PROVE  \E after \in Decoders :
           /\ DecodeDefinition(d, p) = Plain(after, "ColumnDefinition")
           /\ after.handshake = d.handshake /\ after.stmts = d.stmts
           /\ after.deprecate = d.deprecate
<1> DEFINE left(n) == IF n > 0 THEN n - 1 ELSE 0
           param == [d EXCEPT !.params = left(@)]
           column == [d EXCEPT !.columns = left(@)]
           like(after) == /\ after \in Decoders /\ after.handshake = d.handshake
                          /\ after.stmts = d.stmts /\ after.deprecate = d.deprecate
<1>0. left(d.params) \in Nat /\ left(d.columns) \in Nat
  <2>1. d.params \in Nat /\ d.columns \in Nat
    BY DEF Decoders
  <2>2. \A n \in Nat : left(n) \in Nat
    BY OneLess
  <2> HIDE DEF left
  <2> QED
    BY <2>1, <2>2
<1> HIDE DEF left
<1>1. like(param) /\ param.state = d.state
  BY <1>0 DEF Decoders
<1>2. like(column) /\ column.state = d.state
  BY <1>0 DEF Decoders
<1> USE DEF left
<1>3. CASE d.state = "prepareParams"
  <2> DEFINE next == [param EXCEPT !.state = IF param.columns > 0 THEN "prepareColumns" ELSE "none"]
  <2>1. AfterDefinitions(param) = next
    BY <1>1, <1>3 DEF AfterDefinitions
  <2>2. like(next)
    BY <1>1 DEF Decoders
  <2>3. DecodeDefinition(d, p) = Plain(IF param.params = 0 /\ d.deprecate THEN next ELSE param,
                                       "ColumnDefinition")
    BY <1>3, <2>1 DEF DecodeDefinition
  <2> QED
    BY <1>1, <2>2, <2>3
<1>4. CASE d.state = "prepareColumns"
  <2> DEFINE next == [column EXCEPT !.state = "none"]
  <2>1. like(next)
    BY <1>2 DEF Decoders
  <2>2. DecodeDefinition(d, p) = Plain(IF column.columns = 0 /\ d.deprecate THEN next ELSE column,
                                       "ColumnDefinition")
    BY <1>4 DEF DecodeDefinition
  <2> QED
    BY <1>2, <2>1, <2>2
<1>5. CASE d.state = "definitions"
  <2> DEFINE next == [column EXCEPT !.state = "rows"]
  <2>1. like(next)
    BY <1>2 DEF Decoders
  <2>2. DecodeDefinition(d, p) = Plain(IF column.columns = 0 /\ ~ d.await THEN next ELSE column,
                                       "ColumnDefinition")
    BY <1>5 DEF DecodeDefinition
  <2> QED
    BY <1>2, <2>1, <2>2
<1> QED
  BY <1>3, <1>4, <1>5

\* An error ends any answer.
LEMMA ErrRead ==
  ASSUME deprecate \in BOOLEAN, NEW known, NEW x \in Idle(known)
  PROVE  Right(x, Err) /\ After(x, Err) \in Idle(known)
<1> DEFINE p == Err
           d == ResetResult(x.d)
<1>1. x.d \in Decoders /\ ~ x.d.handshake
  BY IdleTypes
<1>2. "start" \notin DOMAIN p /\ "sql" \notin DOMAIN p /\ p.is = "ERR" /\ p.first = "err"
  BY DEF Err, Packet
<1>3. d \in Decoders /\ d.handshake = x.d.handshake /\ d.deprecate = x.d.deprecate
      /\ d.stmts = x.d.stmts /\ d.state = "none"
  BY <1>1 DEF Decoders, ResetResult
<1>4. DecodeResponse(x.d, p) = Plain(d, "ERR")
  BY <1>2 DEF DecodeResponse
<1> HIDE DEF p, d
<1>6. Shown(x, p) = "ERR"
  BY <1>2 DEF Shown
<1>5. Right(x, p) /\ After(x, p) \in Idle(known)
  BY <1>2, <1>3, <1>4, <1>6, IdleStays
<1> QED
  BY <1>5 DEF p

\* An OK ends an answer, or says that another result follows it.
LEMMA OkRead ==
  ASSUME deprecate \in BOOLEAN, NEW known, NEW x \in Again(known), NEW more \in BOOLEAN
  PROVE  /\ Right(x, Ok(more)) /\ After(x, Ok(more)) \in Idle(known)
         /\ more => After(x, Ok(more)) \in Again(known)
<1> DEFINE p == Ok(more)
<1>1. x \in Idle(known) /\ (x.off \/ x \in Fresh(known))
  BY DEF Again
<1>2. x.d \in Decoders /\ ~ x.d.handshake
  BY <1>1, IdleTypes
<1>3. "start" \notin DOMAIN p /\ "sql" \notin DOMAIN p /\ "id" \notin DOMAIN p
      /\ p.is = "OK" /\ p.first = "ok" /\ p.more = more /\ ~ Derails(p)
  BY DEF Ok, Packet, Derails
<1> HIDE DEF p
<1>4. CASE x \in Fresh(known)
  <2> DEFINE d == IF more THEN [x.d EXCEPT !.state = "first"] ELSE ResetResult(x.d)
  <2>1. x.d.state = "first" /\ x.d.command # "COM_STMT_PREPARE"
    BY <1>4 DEF Fresh
  <2>2. d \in Decoders /\ d.handshake = x.d.handshake /\ d.deprecate = x.d.deprecate
        /\ d.stmts = x.d.stmts /\ d.command = x.d.command /\ (more => d.state = "first")
    BY <1>2 DEF Decoders, ResetResult
  <2>3. DecodeResponse(x.d, p) = Plain(d, "OK")
    BY <1>3, <2>1 DEF DecodeResponse, DecodeFirst, DecodeOK
  <2> HIDE DEF d
  <2>4. Right(x, p) /\ After(x, p) \in Idle(known) /\ After(x, p).d = d
    BY <1>1, <1>3, <2>1, <2>2, <2>3, AnswerStays
  <2>5. more => After(x, p) \in Again(known)
    BY <2>1, <2>2, <2>4 DEF Again, Fresh
  <2> QED
    BY <2>4, <2>5 DEF p
<1>5. CASE x.off
  <2>1. x.d.state = "none"
    BY <1>1, <1>5 DEF Idle
  <2>4. DecodeResponse(x.d, p) = Plain(x.d, "Unsolicited")
    BY <1>3, <2>1 DEF DecodeResponse
  <2>5. Shown(x, p) = "Unsolicited"
    BY <1>3, <1>5 DEF Shown, From
  <2>2. Right(x, p) /\ After(x, p) \in Idle(known) /\ (x.off \/ Derails(p) => After(x, p).off)
    BY <1>1, <1>2, <1>3, <2>1, <2>4, <2>5, IdleStays
  <2>3. After(x, p) \in Again(known)
    BY <1>5, <2>2 DEF Again
  <2> QED
    BY <2>2, <2>3 DEF p
<1> QED
  BY <1>1, <1>4, <1>5

\* The packets of a result set, in their order.
LEMMA HeaderRead ==
  ASSUME deprecate \in BOOLEAN, NEW known, NEW x \in Fresh(known)
  PROVE  LET p == [is |-> "ResultSetHeader", first |-> "other", last |-> FALSE,
                   more |-> FALSE, n |-> 1]
         IN Right(x, p) /\ After(x, p) \in Column(known)
<1> DEFINE p == [is |-> "ResultSetHeader", first |-> "other", last |-> FALSE,
                 more |-> FALSE, n |-> 1]
           d == [x.d EXCEPT !.columns = 1, !.state = "definitions", !.await = ~ x.d.deprecate]
<1>1. x \in Idle(known) /\ x.d.state = "first" /\ x.d.command # "COM_STMT_PREPARE"
  BY DEF Fresh
<1>2. x.d \in Decoders /\ ~ x.d.handshake /\ x.d.deprecate = deprecate
  BY <1>1, IdleTypes
<1>3. "start" \notin DOMAIN p /\ "sql" \notin DOMAIN p /\ "n" \in DOMAIN p
      /\ p.is = "ResultSetHeader" /\ p.first = "other" /\ p.n = 1
  OBVIOUS
<1>4. d \in Decoders /\ d.handshake = x.d.handshake /\ d.deprecate = x.d.deprecate
      /\ d.stmts = x.d.stmts /\ d.command = x.d.command /\ d.state = "definitions"
      /\ d.columns = 1 /\ d.await = ~ deprecate
  BY <1>2 DEF Decoders
<1> HIDE DEF p
<1>5. DecodeResponse(x.d, p) = Plain(d, "ResultSetHeader")
  BY <1>1, <1>3 DEF DecodeResponse, DecodeFirst, DecodeHeader
<1> HIDE DEF d
<1>6. Right(x, p) /\ After(x, p) \in Idle(known) /\ After(x, p).d = d
  BY <1>1, <1>3, <1>4, <1>5, AnswerStays
<1> QED
  BY <1>1, <1>4, <1>6 DEF Column, p

\* Its one definition leads to the rows, or to the EOF before them.
LEMMA ColumnRead ==
  ASSUME deprecate \in BOOLEAN, NEW known, NEW x \in Column(known)
  PROVE  LET p == Packet("ColumnDefinition", "other")
         IN /\ Right(x, p)
            /\ After(x, p) \in IF deprecate THEN Rows(known) ELSE Closing(known)
<1> DEFINE p == Packet("ColumnDefinition", "other")
           c == [x.d EXCEPT !.columns = 0]
           d == IF deprecate THEN [c EXCEPT !.state = "rows"] ELSE c
<1>1. x \in Idle(known) /\ x.d.state = "definitions" /\ x.d.command # "COM_STMT_PREPARE"
      /\ x.d.columns = 1 /\ x.d.await = ~ deprecate
  BY DEF Column
<1>2. x.d \in Decoders /\ ~ x.d.handshake /\ x.d.deprecate = deprecate
  BY <1>1, IdleTypes
<1>3. "start" \notin DOMAIN p /\ "sql" \notin DOMAIN p
      /\ p.is = "ColumnDefinition" /\ p.first = "other"
  BY DEF Packet
<1>4. d \in Decoders /\ d.handshake = x.d.handshake /\ d.deprecate = x.d.deprecate
      /\ d.stmts = x.d.stmts /\ d.command = x.d.command
      /\ d.state = IF deprecate THEN "rows" ELSE "definitions"
  BY <1>1, <1>2 DEF Decoders
<1> HIDE DEF p
<1>5. DecodeResponse(x.d, p) = Plain(d, "ColumnDefinition")
  <2>1. DecodeResponse(x.d, p) = DecodeDefinition(x.d, p)
    BY <1>1, <1>3 DEF DecodeResponse
  <2>2. (IF x.d.columns > 0 THEN x.d.columns - 1 ELSE 0) = 0
    BY <1>1
  <2>3. c.columns = 0 /\ c.deprecate = deprecate
    BY <1>2 DEF Decoders
  <2> QED
    BY <1>1, <1>3, <2>1, <2>2, <2>3 DEF DecodeDefinition
<1> HIDE DEF d, c
<1>6. Right(x, p) /\ After(x, p) \in Idle(known) /\ After(x, p).d = d
  BY <1>1, <1>3, <1>4, <1>5, AnswerStays
<1> QED
  BY <1>1, <1>4, <1>6 DEF Rows, Closing, p

\* The EOF after the definitions opens the rows.
LEMMA EofRead ==
  ASSUME deprecate \in BOOLEAN, NEW known, NEW x \in Closing(known)
  PROVE  Right(x, Eof) /\ After(x, Eof) \in Rows(known)
<1> DEFINE p == Eof
           d == [x.d EXCEPT !.await = FALSE, !.state = "rows"]
<1>1. x \in Idle(known) /\ x.d.state = "definitions" /\ x.d.command # "COM_STMT_PREPARE"
  BY DEF Closing
<1>2. x.d \in Decoders /\ ~ x.d.handshake /\ x.d.deprecate = deprecate
  BY <1>1, IdleTypes
<1>3. "start" \notin DOMAIN p /\ "sql" \notin DOMAIN p /\ p.is = "EOF" /\ p.first = "eof"
  BY DEF Packet, Eof
<1>4. d \in Decoders /\ d.handshake = x.d.handshake /\ d.deprecate = x.d.deprecate
      /\ d.stmts = x.d.stmts /\ d.command = x.d.command /\ d.state = "rows"
  BY <1>1, <1>2 DEF Decoders
<1> HIDE DEF p
<1>5. DecodeResponse(x.d, p) = Plain(d, "EOF")
  BY <1>1, <1>3 DEF DecodeResponse, DecodeDefinition, AfterDefinitions
<1> HIDE DEF d
<1>6. Right(x, p) /\ After(x, p) \in Idle(known) /\ After(x, p).d = d
  BY <1>1, <1>3, <1>4, <1>5, AnswerStays
<1> QED
  BY <1>1, <1>4, <1>6 DEF Rows, p

\* Any number of rows.
LEMMA RowRead ==
  ASSUME deprecate \in BOOLEAN, NEW known, NEW x \in Rows(known), NEW first \in {"ok", "other", "null"}
  PROVE  Right(x, Packet("Row", first)) /\ After(x, Packet("Row", first)) \in Rows(known)
<1> DEFINE p == Packet("Row", first)
<1>1. x \in Idle(known) /\ x.d.state = "rows" /\ x.d.command # "COM_STMT_PREPARE"
  BY DEF Rows
<1>2. x.d \in Decoders
  BY <1>1, IdleTypes
<1>3. "start" \notin DOMAIN p /\ "sql" \notin DOMAIN p /\ p.is = "Row"
      /\ p.first \notin {"err", "eof"}
  BY DEF Packet
<1> HIDE DEF p
<1>4. DecodeResponse(x.d, p) = Plain(x.d, "Row")
  BY <1>1, <1>3 DEF DecodeResponse, DecodeRow
<1>5. Right(x, p) /\ After(x, p) \in Idle(known) /\ After(x, p).d = x.d
  BY <1>1, <1>2, <1>3, <1>4, AnswerStays
<1> QED
  BY <1>1, <1>5 DEF Rows, p

\* After the last row the answer is over, or another result follows; but one
\* that follows a classic EOF derails the decoder.
LEMMA EndRead ==
  ASSUME deprecate \in BOOLEAN, NEW known, NEW x \in Rows(known), NEW more \in BOOLEAN
  PROVE  LET p == [Packet("EndOfRows", "eof") EXCEPT !.more = more]
         IN /\ Right(x, p) /\ After(x, p) \in Idle(known)
            /\ more => After(x, p) \in Again(known)
<1> DEFINE p == [Packet("EndOfRows", "eof") EXCEPT !.more = more]
           d == IF deprecate
                THEN IF more THEN [x.d EXCEPT !.state = "first"] ELSE ResetResult(x.d)
                ELSE [x.d EXCEPT !.state = "none"]
<1>1. x \in Idle(known) /\ x.d.state = "rows" /\ x.d.command # "COM_STMT_PREPARE"
  BY DEF Rows
<1>2. x.d \in Decoders /\ x.d.deprecate = deprecate
  BY <1>1, IdleTypes
<1>3. "start" \notin DOMAIN p /\ "sql" \notin DOMAIN p /\ p.is = "EndOfRows"
      /\ p.first = "eof" /\ p.more = more
  BY DEF Packet
<1>4. d \in Decoders /\ d.handshake = x.d.handshake /\ d.deprecate = x.d.deprecate
      /\ d.stmts = x.d.stmts /\ d.command = x.d.command
      /\ (deprecate /\ more => d.state = "first") /\ (~ deprecate => d.state = "none")
  BY <1>1, <1>2 DEF Decoders, ResetResult
<1> HIDE DEF p
<1>5. DecodeResponse(x.d, p) = Plain(d, "EndOfRows")
  BY <1>1, <1>2, <1>3 DEF DecodeResponse, DecodeRow, DecodeOK
<1> HIDE DEF d
<1>6. Right(x, p) /\ After(x, p) \in Idle(known) /\ After(x, p).d = d
      /\ (Derails(p) => After(x, p).off)
  <2>1. d.handshake = x.d.handshake /\ d.deprecate = x.d.deprecate /\ d.stmts = x.d.stmts
        /\ d \in Decoders
    BY <1>4
  <2>2. x \in Idle(known) /\ "EndOfRows" = Shown(x, p)
        /\ (x.off \/ Derails(p) => d.state = "none")
    BY <1>1, <1>3, <1>4, FollowedHere DEF Derails
  <2>3. "start" \notin DOMAIN p /\ "sql" \notin DOMAIN p
    BY <1>3
  <2>4. Right(x, p) /\ After(x, p) \in Idle(known) /\ After(x, p).d = d
    BY <1>5, <2>1, <2>2, <2>3, IdleStays
  <2>5. x.off \/ Derails(p) => After(x, p).off
    BY <1>5, <2>1, <2>2, <2>3, IdleStays
  <2> QED
    BY <2>4, <2>5
<1>7. more => After(x, p) \in Again(known)
  <2>1. CASE deprecate
    BY <1>1, <1>4, <1>6, <2>1 DEF Again, Fresh
  <2>2. CASE ~ deprecate
    BY <1>3, <1>6, <2>2 DEF Again, Derails
  <2> QED
    BY <2>1, <2>2
<1> QED
  BY <1>6, <1>7 DEF p

-----------------------------------------------------------------------------
(***************************************************************************)
(* The packets of answers, and what whole answers lead to.                 *)
(***************************************************************************)

Simple ==
  [is : {"OK", "ERR", "EOF", "ColumnDefinition", "Row", "EndOfRows"},
   first : {"ok", "err", "eof", "null", "other"}, last : BOOLEAN, more : BOOLEAN]

Headers ==
  [is : {"ResultSetHeader"}, first : {"other"}, last : BOOLEAN, more : BOOLEAN, n : Nat]

Outcomes == Simple \union Headers

PrepareOKs ==
  [is : {"PrepareOK"}, first : {"ok"}, last : BOOLEAN, more : BOOLEAN, sql : Texts,
   id : Nat, params : Nat, columns : Nat]

Demands == [is : {"AuthMoreData"}, first : {"more"}, last : BOOLEAN, more : BOOLEAN]

Responses == Outcomes \union PrepareOKs

Replies == Responses \union Demands

\* None of them passes the turn before the answer is put together.
Parts(S) == {p \in S : ~ p.last}

\* The types of the packets the server builds its answers of.
LEMMA SimpleParts ==
  /\ Err \in Parts(Simple) /\ Eof \in Parts(Simple)
  /\ Packet("ColumnDefinition", "other") \in Parts(Simple)
  /\ \A more \in BOOLEAN :
       /\ Ok(more) \in Parts(Simple)
       /\ [Packet("EndOfRows", "eof") EXCEPT !.more = more] \in Parts(Simple)
  /\ \A first \in {"ok", "other", "null"} : Packet("Row", first) \in Parts(Simple)
<1>1. Err \in Parts(Simple) /\ Eof \in Parts(Simple)
      /\ Packet("ColumnDefinition", "other") \in Parts(Simple)
  BY DEF Err, Eof, Packet, Parts, Simple
<1>2. ASSUME NEW more \in BOOLEAN
      PROVE  /\ Ok(more) \in Parts(Simple)
             /\ [Packet("EndOfRows", "eof") EXCEPT !.more = more] \in Parts(Simple)
  BY DEF Ok, Packet, Parts, Simple
<1>3. ASSUME NEW first \in {"ok", "other", "null"} PROVE Packet("Row", first) \in Parts(Simple)
  BY DEF Packet, Parts, Simple
<1> QED
  BY <1>1, <1>2, <1>3

\* Sequences of simple packets are sequences of outcomes.
LEMMA PartsGrow ==
  /\ Seq(Parts(Simple)) \subseteq Seq(Parts(Outcomes))
  /\ \A p \in Parts(Simple) : <<p>> \in Seq(Parts(Simple)) /\ <<p>> \in Seq(Parts(Outcomes))
<1>1. Parts(Simple) \subseteq Parts(Outcomes)
  BY DEF Parts, Outcomes
<1> QED
  BY <1>1

\* A block of one definition, and one of none.
LEMMA BlockTypes ==
  ASSUME deprecate \in BOOLEAN, NEW n \in 0..1
  PROVE  Block(n) \in Seq(Parts(Outcomes)) /\ (n = 0 => Len(Block(n)) = 0)
<1> DEFINE defs == Definitions(n)
           end == IF n = 0 \/ deprecate THEN <<>> ELSE <<Eof>>
<1>1. defs \in Seq(Parts(Simple)) /\ Len(defs) = n
  <2>1. Packet("ColumnDefinition", "other") \in Parts(Simple)
    BY SimpleParts
  <2> QED
    BY <2>1 DEF Definitions
<1>2. end \in Seq(Parts(Simple)) /\ (n = 0 => Len(end) = 0)
  <2>1. Eof \in Parts(Simple)
    BY SimpleParts
  <2> QED
    BY <2>1
<1>3. Block(n) = defs \o end
  BY DEF Block
<1> HIDE DEF defs, end
<1>4. defs \o end \in Seq(Parts(Simple)) /\ Len(defs \o end) = Len(defs) + Len(end)
  BY <1>1, <1>2
<1> QED
  BY <1>1, <1>2, <1>3, <1>4, PartsGrow

\* A block of one definition, with the EOF it ends in where one was agreed on.
LEMMA BlockRead ==
  ASSUME deprecate \in BOOLEAN, NEW S, NEW M, NEW T,
         \A x \in S : /\ Right(x, Packet("ColumnDefinition", "other"))
                      /\ After(x, Packet("ColumnDefinition", "other")) \in
                           IF deprecate THEN T ELSE M,
         ~ deprecate => \A x \in M : Right(x, Eof) /\ After(x, Eof) \in T
  PROVE  Leads(S, Block(1), T)
<1> DEFINE defs == Definitions(1)
           mid == IF deprecate THEN T ELSE M
           end == IF deprecate THEN <<>> ELSE <<Eof>>
<1>1. Block(1) = defs \o end
  BY DEF Block
<1>2. defs \in Seq(Parts(Simple)) /\ Len(defs) = 1
      /\ defs[1] = Packet("ColumnDefinition", "other")
  <2>1. Packet("ColumnDefinition", "other") \in Parts(Simple)
    BY SimpleParts
  <2> QED
    BY <2>1 DEF Definitions
<1>3. end \in Seq(Parts(Simple))
  <2>1. Eof \in Parts(Simple)
    BY SimpleParts
  <2> QED
    BY <2>1
<1>4. Leads(S, defs, mid)
  BY <1>2, LeadsOn
<1>5. Leads(mid, end, T)
  <2>1. CASE deprecate
    <3>1. Len(end) = 0 /\ mid \subseteq T
      BY <2>1
    <3> QED
      BY <3>1, LeadsNowhere
  <2>2. CASE ~ deprecate
    <3>1. Len(end) = 1 /\ end[1] = Eof /\ mid = M
      BY <2>2
    <3> HIDE DEF end, mid
    <3> QED
      BY <2>2, <3>1, LeadsOn
  <2> QED
    BY <2>1, <2>2
<1> HIDE DEF defs, end, mid
<1> QED
  BY <1>1, <1>2, <1>3, <1>4, <1>5, LeadsAcross

\* A result set, up to its last packet.
Body(rows, first) ==
  <<[is |-> "ResultSetHeader", first |-> "other", last |-> FALSE, more |-> FALSE, n |-> 1]>>
    \o Block(1)
    \o [i \in 1..rows |-> Packet("Row", first)]

\* A result set up to its last packet leads to the rows.
LEMMA BodyRead ==
  ASSUME deprecate \in BOOLEAN, NEW rows \in Nat, NEW first \in {"ok", "other", "null"}, NEW known
  PROVE  /\ Body(rows, first) \in Seq(Parts(Outcomes))
         /\ Leads(Fresh(known), Body(rows, first), Rows(known))
<1> DEFINE h == [is |-> "ResultSetHeader", first |-> "other", last |-> FALSE,
                 more |-> FALSE, n |-> 1]
           head == <<h>>
           row == Packet("Row", first)
           rest == [i \in 1..rows |-> row]
           start == head \o Block(1)
<1>1. h \in Parts(Outcomes)
  BY DEF Parts, Outcomes, Headers
<1>2. \A x \in Fresh(known) : Right(x, h) /\ After(x, h) \in Column(known)
  BY HeaderRead
<1>3. /\ row \in Parts(Outcomes)
      /\ \A x \in Rows(known) : Right(x, row) /\ After(x, row) \in Rows(known)
  BY SimpleParts, RowRead DEF Parts, Outcomes
<1> HIDE DEF h, row
<1>4. head \in Seq(Parts(Outcomes)) /\ Len(head) = 1 /\ head[1] = h
  BY <1>1
<1>5. Leads(Fresh(known), head, Column(known))
  BY <1>2, <1>4, LeadsOn
<1>6. Leads(Column(known), Block(1), Rows(known))
  BY ColumnRead, EofRead, BlockRead
<1>7. Block(1) \in Seq(Parts(Outcomes))
  BY BlockTypes
<1> HIDE DEF head
<1>8. start \in Seq(Parts(Outcomes)) /\ Leads(Fresh(known), start, Rows(known))
  BY <1>4, <1>5, <1>6, <1>7, LeadsAcross
<1> HIDE DEF start
<1>9. rest \in Seq(Parts(Outcomes)) /\ Len(rest) = rows /\ \A i \in 1..rows : rest[i] = row
  BY <1>3
<1> HIDE DEF rest
<1>10. Leads(Rows(known), rest, Rows(known))
  BY <1>3, <1>9, LeadsAround
<1>11. Body(rows, first) = start \o rest
  BY DEF Body, start, rest, head, h, row
<1> QED
  BY <1>8, <1>9, <1>10, <1>11, LeadsAcross

\* A sequence one packet longer than another is the other and that packet.
LEMMA LastReplaced ==
  ASSUME NEW P, NEW q \in Seq(P), NEW y \in P, NEW b \in Seq(P), Len(b) = Len(q) + 1,
         \A i \in 1..Len(q) : b[i] = q[i], b[Len(q) + 1] = y
  PROVE  b = q \o <<y>>
<1> DEFINE c == q \o <<y>>
<1>1. c \in Seq(P) /\ Len(c) = Len(q) + 1 /\ Len(q) \in Nat
      /\ (\A i \in 1..Len(q) : c[i] = q[i]) /\ c[Len(q) + 1] = y
  OBVIOUS
<1> HIDE DEF c
<1>2. ASSUME NEW i \in 1..Len(b) PROVE b[i] = c[i]
  <2>1. CASE i = Len(q) + 1
    BY <1>1, <2>1
  <2>2. CASE i # Len(q) + 1
    <3>1. i \in 1..Len(q)
      BY <1>1, <2>2
    <3> QED
      BY <1>1, <3>1
  <2> QED
    BY <2>1, <2>2
<1>3. b = c
  BY <1>1, <1>2
<1> QED
  BY <1>3 DEF c

\* One more packet, at the end.
LEMMA LeadsThen ==
  ASSUME NEW P, NEW q \in Seq(P), NEW p \in P, NEW S, NEW T, NEW U, Leads(S, q, T),
         \A x \in T : Right(x, p) /\ After(x, p) \in U
  PROVE  q \o <<p>> \in Seq(P) /\ Leads(S, q \o <<p>>, U)
<1> DEFINE s == <<p>>
<1>1. s \in Seq(P) /\ Len(s) = 1 /\ s[1] = p
  OBVIOUS
<1> HIDE DEF s
<1>2. Leads(T, s, U)
  BY <1>1, LeadsOn
<1>3. q \o s \in Seq(P) /\ Leads(S, q \o s, U)
  BY <1>1, <1>2, LeadsAcross
<1> QED
  BY <1>3 DEF s

\* A single packet.
LEMMA LeadsWith ==
  ASSUME NEW P, NEW p \in P, NEW S, NEW U, \A x \in S : Right(x, p) /\ After(x, p) \in U
  PROVE  <<p>> \in Seq(P) /\ Leads(S, <<p>>, U)
<1> DEFINE s == <<p>>
<1>1. s \in Seq(P) /\ Len(s) = 1 /\ s[1] = p
  OBVIOUS
<1> HIDE DEF s
<1>2. Leads(S, s, U)
  BY <1>1, LeadsOn
<1> QED
  BY <1>1, <1>2 DEF s

\* The answers to queries and executions: errors anywhere, one result or two.
LEMMA ResultsRead ==
  ASSUME WireAssumption, deprecate \in BOOLEAN, NEW first \in {"ok", "other", "null"}, NEW known,
         NEW a \in Results(first)
  PROVE  a \in Seq(Parts(Outcomes)) /\ Leads(Fresh(known), a, Idle(known))
<1> DEFINE end(more) == [Packet("EndOfRows", "eof") EXCEPT !.more = more]
<1>1. Fresh(known) \subseteq Again(known) /\ Again(known) \subseteq Idle(known)
      /\ Fresh(known) \subseteq Idle(known) /\ Rows(known) \subseteq Idle(known)
  BY DEF Fresh, Again, Rows
<1>2. /\ Err \in Parts(Outcomes)
      /\ \A more \in BOOLEAN : Ok(more) \in Parts(Outcomes) /\ end(more) \in Parts(Outcomes)
  BY SimpleParts DEF Parts, Outcomes
<1>3. \A x \in Idle(known) : Right(x, Err) /\ After(x, Err) \in Idle(known)
  BY ErrRead
<1>4. \A x \in Again(known) : /\ Right(x, Ok(FALSE)) /\ After(x, Ok(FALSE)) \in Idle(known)
                              /\ Right(x, Ok(TRUE)) /\ After(x, Ok(TRUE)) \in Again(known)
  BY OkRead
<1>5. \A x \in Rows(known) : /\ Right(x, end(FALSE)) /\ After(x, end(FALSE)) \in Idle(known)
                             /\ Right(x, end(TRUE)) /\ After(x, end(TRUE)) \in Again(known)
  BY EndRead
<1>6. ASSUME NEW r \in 0..MaxRows
      PROVE  /\ Body(r, first) \in Seq(Parts(Outcomes))
             /\ Leads(Fresh(known), Body(r, first), Rows(known))
             /\ \A more \in BOOLEAN : ResultSet(r, first, more) = Body(r, first) \o <<end(more)>>
  <2>1. r \in Nat
    BY DEF WireAssumption
  <2>2. \A more \in BOOLEAN : ResultSet(r, first, more) = Body(r, first) \o <<end(more)>>
    BY DEF ResultSet, Body
  <2> QED
    BY <2>1, <2>2, BodyRead
<1> HIDE DEF end
<1>7. ASSUME NEW r \in 0..MaxRows
      PROVE  LET s == ResultSet(r, first, FALSE)
             IN /\ s \in Seq(Parts(Outcomes)) /\ Leads(Fresh(known), s, Idle(known))
                /\ [s EXCEPT ![Len(s)] = Err] \in Seq(Parts(Outcomes))
                /\ Leads(Fresh(known), [s EXCEPT ![Len(s)] = Err], Idle(known))
  <2> DEFINE body == Body(r, first)
             s == ResultSet(r, first, FALSE)
  <2>1. body \in Seq(Parts(Outcomes)) /\ Leads(Fresh(known), body, Rows(known))
        /\ s = body \o <<end(FALSE)>>
    BY <1>6
  <2> HIDE DEF body, s
  <2>2. s \in Seq(Parts(Outcomes)) /\ Leads(Fresh(known), s, Idle(known))
    <3>1. end(FALSE) \in Parts(Outcomes)
      BY <1>2
    <3>2. \A x \in Rows(known) : Right(x, end(FALSE)) /\ After(x, end(FALSE)) \in Idle(known)
      BY <1>5
    <3> QED
      BY <2>1, <3>1, <3>2, LeadsThen
  <2>3. [s EXCEPT ![Len(s)] = Err] = body \o <<Err>>
    <3> DEFINE l == end(FALSE)
               b == [s EXCEPT ![Len(s)] = Err]
    <3>1. l \in Parts(Outcomes) /\ Err \in Parts(Outcomes) /\ s = body \o <<l>>
      BY <1>2, <2>1
    <3> HIDE DEF l
    <3>2. /\ s \in Seq(Parts(Outcomes)) /\ Len(s) = Len(body) + 1 /\ Len(body) \in Nat
          /\ \A i \in 1..Len(body) : s[i] = body[i]
      <4>1. body \in Seq(Parts(Outcomes))
        BY <2>1
      <4> QED
        BY <3>1, <4>1
    <3>3. /\ b \in Seq(Parts(Outcomes)) /\ Len(b) = Len(body) + 1
          /\ b[Len(body) + 1] = Err /\ \A i \in 1..Len(body) : b[i] = body[i]
      <4>1. b \in Seq(Parts(Outcomes)) /\ Len(b) = Len(s)
        BY <3>1, <3>2
      <4>2. \A i \in 1..Len(s) : b[i] = IF i = Len(s) THEN Err ELSE s[i]
        <5>1. DOMAIN s = 1..Len(s)
          BY <3>2
        <5> QED
          BY <5>1
      <4> HIDE DEF b
      <4> QED
        BY <3>2, <4>1, <4>2
    <3> HIDE DEF b
    <3>4. b = body \o <<Err>>
      BY <2>1, <3>1, <3>3, LastReplaced
    <3> QED
      BY <3>4 DEF b
  <2>4. /\ body \o <<Err>> \in Seq(Parts(Outcomes))
        /\ Leads(Fresh(known), body \o <<Err>>, Idle(known))
    <3>1. \A x \in Rows(known) : Right(x, Err) /\ After(x, Err) \in Idle(known)
      BY <1>1, <1>3
    <3> QED
      BY <1>2, <2>1, <3>1, LeadsThen
  <2> QED
    BY <2>2, <2>3, <2>4 DEF s
<1>8. ASSUME NEW s \in Seq(Parts(Outcomes)), Leads(Fresh(known), s, Again(known))
      PROVE  /\ s \o <<Ok(FALSE)>> \in Seq(Parts(Outcomes))
             /\ Leads(Fresh(known), s \o <<Ok(FALSE)>>, Idle(known))
  <2>1. Ok(FALSE) \in Parts(Outcomes)
    BY <1>2
  <2>2. \A x \in Again(known) : Right(x, Ok(FALSE)) /\ After(x, Ok(FALSE)) \in Idle(known)
    BY <1>4
  <2> QED
    BY <1>8, <2>1, <2>2, LeadsThen
<1>9. ASSUME NEW r \in 0..MaxRows
      PROVE  /\ ResultSet(r, first, TRUE) \in Seq(Parts(Outcomes))
             /\ Leads(Fresh(known), ResultSet(r, first, TRUE), Again(known))
  <2> DEFINE body == Body(r, first)
             s == ResultSet(r, first, TRUE)
  <2>1. body \in Seq(Parts(Outcomes)) /\ Leads(Fresh(known), body, Rows(known))
        /\ s = body \o <<end(TRUE)>>
    BY <1>6
  <2> HIDE DEF body, s
  <2>2. end(TRUE) \in Parts(Outcomes)
    BY <1>2
  <2>3. \A x \in Rows(known) : Right(x, end(TRUE)) /\ After(x, end(TRUE)) \in Again(known)
    BY <1>5
  <2>4. s \in Seq(Parts(Outcomes)) /\ Leads(Fresh(known), s, Again(known))
    BY <2>1, <2>2, <2>3, LeadsThen
  <2> QED
    BY <2>4 DEF s
<1>10. CASE a = <<Err>>
  <2>1. \A x \in Fresh(known) : Right(x, Err) /\ After(x, Err) \in Idle(known)
    BY <1>1, <1>3
  <2> QED
    BY <1>2, <1>10, <2>1, LeadsWith
<1>11. CASE a = <<Ok(FALSE)>>
  <2>1. \A x \in Fresh(known) : Right(x, Ok(FALSE)) /\ After(x, Ok(FALSE)) \in Idle(known)
    BY <1>1, <1>4
  <2>2. Ok(FALSE) \in Parts(Outcomes)
    BY <1>2
  <2> QED
    BY <1>11, <2>1, <2>2, LeadsWith
<1>12. CASE a = <<Ok(TRUE)>> \o <<Ok(FALSE)>>
  <2>1. \A x \in Fresh(known) : Right(x, Ok(TRUE)) /\ After(x, Ok(TRUE)) \in Again(known)
    BY <1>1, <1>4
  <2>2. Ok(TRUE) \in Parts(Outcomes)
    BY <1>2
  <2>3. <<Ok(TRUE)>> \in Seq(Parts(Outcomes)) /\ Leads(Fresh(known), <<Ok(TRUE)>>, Again(known))
    BY <2>1, <2>2, LeadsWith
  <2> QED
    BY <1>8, <1>12, <2>3
<1>13. CASE \E r \in 0..MaxRows :
              LET s == ResultSet(r, first, FALSE)
              IN a = s \/ a = [s EXCEPT ![Len(s)] = Err]
  BY <1>7, <1>13
<1>14. CASE \E r \in 0..MaxRows : a = ResultSet(r, first, TRUE) \o <<Ok(FALSE)>>
  BY <1>8, <1>9, <1>14
<1> QED
  BY <1>10, <1>11, <1>12, <1>13, <1>14 DEF Results

\* The first packet of the answer to a preparation.
LEMMA PreparedRead ==
  ASSUME WireAssumption, deprecate \in BOOLEAN, NEW known \in Seq(Texts), Len(known) < MaxCommands,
         NEW sql \in Texts, NEW p \in Parts(PrepareOKs), p.id = Len(known) + 1, p.sql = sql,
         NEW x \in Asked("COM_STMT_PREPARE", sql, known)
  PROVE  /\ Right(x, p)
         /\ After(x, p) \in Idle(Append(known, sql))
         /\ p.params = 1 => After(x, p) \in Params(p.columns, Append(known, sql))
         /\ p.params = 0 /\ p.columns = 1 => After(x, p) \in Columns(Append(known, sql))
<1> DEFINE state == IF p.params > 0 THEN "prepareParams"
                    ELSE IF p.columns > 0 THEN "prepareColumns" ELSE "none"
           d == [x.d EXCEPT !.stmts[p.id] = x.d.pending, !.pending = NoSQL,
                            !.params = p.params, !.columns = p.columns, !.state = state]
           y == After(x, p)
           grown == Append(known, sql)
<1>1. x \in Idle(known) /\ x.d.state = "first" /\ x.d.command = "COM_STMT_PREPARE"
      /\ (x.sure => x.d.pending = sql)
  BY DEF Asked
<1>2. x.d \in Decoders /\ ~ x.d.handshake /\ x.d.deprecate = deprecate /\ x \in States
      /\ Knows(x, known)
  BY <1>1, IdleTypes
<1>3. "start" \notin DOMAIN p /\ "sql" \in DOMAIN p /\ "id" \in DOMAIN p /\ p.is = "PrepareOK"
      /\ p.first = "ok" /\ p.params \in Nat /\ p.columns \in Nat
  BY DEF Parts, PrepareOKs
<1>4. From(p) = Server /\ From(p) # Client /\ About(p) = sql /\ ~ Derails(p)
  BY <1>3 DEF From, About, Derails, Server, Client
<1>5. p.id \in 1..MaxCommands /\ Len(known) \in Nat
  BY DEF WireAssumption
<1>6. state \in {"none", "prepareParams", "prepareColumns"}
      /\ (p.params = 1 => state = "prepareParams")
      /\ (p.params = 0 /\ p.columns = 1 => state = "prepareColumns")
  BY <1>3
<1> HIDE DEF state
<1>7. x.d.pending \in Texts /\ NoSQL \in Texts /\ x.d.stmts \in [1..MaxCommands -> Texts]
  BY <1>2 DEF Decoders, Texts
<1>8. /\ d \in Decoders /\ d.handshake = x.d.handshake /\ d.deprecate = x.d.deprecate
      /\ d.state = state /\ d.params = p.params /\ d.columns = p.columns
      /\ d.stmts = [x.d.stmts EXCEPT ![p.id] = x.d.pending]
  BY <1>2, <1>3, <1>5, <1>6, <1>7 DEF Decoders
<1>9. Reads(x.d, p) = Step(d, "PrepareOK", x.d.pending)
  BY <1>1, <1>2, <1>3, <1>4 DEF Reads, DecodeResponse, DecodeFirst, DecodePrepareOK, state
<1> HIDE DEF d
<1>17. ~ x.off /\ Shown(x, p) = "PrepareOK"
  BY <1>1, <1>3, FollowedHere
<1>10. Right(x, p)
  BY <1>1, <1>3, <1>4, <1>9, <1>17 DEF Right, Step
<1>11. y = [d |-> d, off |-> x.off, sure |-> x.sure]
  BY <1>4, <1>9 DEF After, Starts, Step
<1> HIDE DEF y
<1>12. y \in States /\ y.d = d /\ y.sure = x.sure /\ ~ y.off
  BY <1>2, <1>8, <1>11, <1>17 DEF States
<1>13. Knows(y, grown)
  <2> SUFFICES ASSUME x.sure, NEW n \in DOMAIN grown, grown[n] # NoSQL
               PROVE  d.stmts[n] = grown[n]
    BY <1>12 DEF Knows
  <2>1. DOMAIN known = 1..Len(known) /\ DOMAIN grown = 1..(Len(known) + 1)
        /\ grown[Len(known) + 1] = sql /\ \A i \in 1..Len(known) : grown[i] = known[i]
    OBVIOUS
  <2> HIDE DEF grown
  <2>2. CASE n = Len(known) + 1
    BY <1>1, <1>5, <1>7, <1>8, <2>1, <2>2
  <2>3. CASE n # Len(known) + 1
    <3>1. n \in DOMAIN known /\ n # p.id /\ grown[n] = known[n]
      BY <1>5, <2>1, <2>3
    <3>2. x.d.stmts[n] = known[n]
      BY <1>2, <3>1 DEF Knows
    <3> QED
      BY <1>7, <1>8, <3>1, <3>2
  <2> QED
    BY <2>2, <2>3
<1> HIDE DEF grown
<1>14. y \in Idle(grown)
  BY <1>2, <1>8, <1>12, <1>13 DEF Idle
<1>15. p.params = 1 => y \in Params(p.columns, grown)
  BY <1>6, <1>8, <1>12, <1>14 DEF Params
<1>16. p.params = 0 /\ p.columns = 1 => y \in Columns(grown)
  BY <1>6, <1>8, <1>12, <1>14 DEF Columns
<1> QED
  BY <1>10, <1>14, <1>15, <1>16 DEF y, grown

\* A parameter's definition, and the EOF that follows the parameters.
LEMMA ParamRead ==
  ASSUME deprecate \in BOOLEAN, NEW n \in 0..1, NEW known, NEW x \in Params(n, known)
  PROVE  LET p == Packet("ColumnDefinition", "other")
         IN /\ Right(x, p)
            /\ After(x, p) \in IF deprecate THEN AfterParams(n, known) ELSE ParamsEnd(n, known)
<1> DEFINE p == Packet("ColumnDefinition", "other")
           c == [x.d EXCEPT !.params = 0]
           next == [c EXCEPT !.state = IF n > 0 THEN "prepareColumns" ELSE "none"]
           d == IF deprecate THEN next ELSE c
<1>1. x \in Idle(known) /\ x.d.state = "prepareParams" /\ x.d.params = 1 /\ x.d.columns = n
  BY DEF Params
<1>2. x.d \in Decoders /\ ~ x.d.handshake /\ x.d.deprecate = deprecate
  BY <1>1, IdleTypes
<1>3. "start" \notin DOMAIN p /\ "sql" \notin DOMAIN p
      /\ p.is = "ColumnDefinition" /\ p.first = "other"
  BY DEF Packet
<1>4. c \in Decoders /\ c.handshake = x.d.handshake /\ c.deprecate = x.d.deprecate
      /\ c.stmts = x.d.stmts /\ c.state = "prepareParams" /\ c.columns = n /\ c.params = 0
  BY <1>1, <1>2 DEF Decoders
<1> HIDE DEF p
<1>5. DecodeResponse(x.d, p) = Plain(d, "ColumnDefinition")
  <2>1. DecodeResponse(x.d, p) = DecodeDefinition(x.d, p)
    BY <1>1, <1>3 DEF DecodeResponse
  <2>2. (IF x.d.params > 0 THEN x.d.params - 1 ELSE 0) = 0
    BY <1>1
  <2>3. AfterDefinitions(c) = next
    BY <1>4 DEF AfterDefinitions
  <2> QED
    BY <1>1, <1>2, <1>3, <1>4, <2>1, <2>2, <2>3 DEF DecodeDefinition
<1> HIDE DEF c
<1>6. next \in Decoders /\ next.handshake = x.d.handshake /\ next.deprecate = x.d.deprecate
      /\ next.stmts = x.d.stmts /\ next.columns = n
      /\ next.state = (IF n > 0 THEN "prepareColumns" ELSE "none")
  BY <1>4 DEF Decoders
<1> HIDE DEF next
<1>7. d \in Decoders /\ d.handshake = x.d.handshake /\ d.deprecate = x.d.deprecate
      /\ d.stmts = x.d.stmts
  BY <1>4, <1>6
<1>8. Right(x, p) /\ After(x, p) \in Idle(known) /\ After(x, p).d = d
  <2> HIDE DEF d
  <2> QED
    BY <1>1, <1>3, <1>5, <1>7, AnswerStays
<1> DEFINE y == After(x, p)
<1>9. y \in Idle(known) /\ y.d = d
  BY <1>8
<1> HIDE DEF y
<1>10. CASE deprecate
  <2>1. y.d = next
    BY <1>9, <1>10
  <2>2. y \in AfterParams(n, known)
    <3>1. CASE n = 0
      BY <1>9, <3>1 DEF AfterParams
    <3>2. CASE n = 1
      BY <1>6, <1>9, <2>1, <3>2 DEF AfterParams, Columns
    <3> QED
      BY <3>1, <3>2
  <2> QED
    BY <1>8, <1>10, <2>2 DEF p, y
<1>11. CASE ~ deprecate
  <2>1. y.d = c
    BY <1>9, <1>11
  <2>2. y \in ParamsEnd(n, known)
    BY <1>4, <1>9, <2>1 DEF ParamsEnd
  <2> QED
    BY <1>8, <1>11, <2>2 DEF p, y
<1> QED
  BY <1>10, <1>11

\* The EOF after the parameters leads to the columns, if there are any.
LEMMA ParamsEofRead ==
  ASSUME deprecate \in BOOLEAN, NEW n \in 0..1, NEW known, NEW x \in ParamsEnd(n, known)
  PROVE  Right(x, Eof) /\ After(x, Eof) \in AfterParams(n, known)
<1> DEFINE p == Eof
           d == [x.d EXCEPT !.state = IF n > 0 THEN "prepareColumns" ELSE "none"]
<1>1. x \in Idle(known) /\ x.d.state = "prepareParams" /\ x.d.columns = n
  BY DEF ParamsEnd
<1>2. x.d \in Decoders /\ ~ x.d.handshake
  BY <1>1, IdleTypes
<1>3. "start" \notin DOMAIN p /\ "sql" \notin DOMAIN p /\ p.is = "EOF" /\ p.first = "eof"
  BY DEF Packet, Eof
<1>4. d \in Decoders /\ d.handshake = x.d.handshake /\ d.deprecate = x.d.deprecate
      /\ d.stmts = x.d.stmts /\ d.columns = n
      /\ d.state = (IF n > 0 THEN "prepareColumns" ELSE "none")
  BY <1>1, <1>2 DEF Decoders
<1> HIDE DEF p
<1>5. DecodeResponse(x.d, p) = Plain(d, "EOF")
  BY <1>1, <1>3 DEF DecodeResponse, DecodeDefinition, AfterDefinitions
<1> HIDE DEF d
<1>6. Right(x, p) /\ After(x, p) \in Idle(known) /\ After(x, p).d = d
  BY <1>1, <1>3, <1>4, <1>5, AnswerStays
<1>7. CASE n = 0
  BY <1>6, <1>7 DEF AfterParams, p
<1>8. CASE n = 1
  <2>1. d.state = "prepareColumns" /\ d.columns = 1
    BY <1>4, <1>8
  <2> QED
    BY <1>6, <1>8, <2>1 DEF AfterParams, Columns, p
<1> QED
  BY <1>7, <1>8

\* A column's definition, and the EOF that follows the columns.
LEMMA PColumnRead ==
  ASSUME deprecate \in BOOLEAN, NEW known, NEW x \in Columns(known)
  PROVE  LET p == Packet("ColumnDefinition", "other")
         IN /\ Right(x, p)
            /\ After(x, p) \in IF deprecate THEN Idle(known) ELSE ColumnsEnd(known)
<1> DEFINE p == Packet("ColumnDefinition", "other")
           c == [x.d EXCEPT !.columns = 0]
           d == IF deprecate THEN [c EXCEPT !.state = "none"] ELSE c
<1>1. x \in Idle(known) /\ x.d.state = "prepareColumns" /\ x.d.columns = 1
  BY DEF Columns
<1>2. x.d \in Decoders /\ ~ x.d.handshake /\ x.d.deprecate = deprecate
  BY <1>1, IdleTypes
<1>3. "start" \notin DOMAIN p /\ "sql" \notin DOMAIN p
      /\ p.is = "ColumnDefinition" /\ p.first = "other"
  BY DEF Packet
<1>4. d \in Decoders /\ d.handshake = x.d.handshake /\ d.deprecate = x.d.deprecate
      /\ d.stmts = x.d.stmts /\ (~ deprecate => d.state = "prepareColumns")
  BY <1>1, <1>2 DEF Decoders
<1> HIDE DEF p
<1>5. DecodeResponse(x.d, p) = Plain(d, "ColumnDefinition")
  <2>1. DecodeResponse(x.d, p) = DecodeDefinition(x.d, p)
    BY <1>1, <1>3 DEF DecodeResponse
  <2>2. (IF x.d.columns > 0 THEN x.d.columns - 1 ELSE 0) = 0
    BY <1>1
  <2>3. c.columns = 0 /\ c.deprecate = deprecate
    BY <1>2 DEF Decoders
  <2> QED
    BY <1>1, <1>3, <2>1, <2>2, <2>3 DEF DecodeDefinition
<1> HIDE DEF d, c
<1>6. Right(x, p) /\ After(x, p) \in Idle(known) /\ After(x, p).d = d
  <2>1. d \in Decoders /\ d.handshake = x.d.handshake /\ d.deprecate = x.d.deprecate
        /\ d.stmts = x.d.stmts
    BY <1>4
  <2> QED
    BY <1>1, <1>3, <1>5, <2>1, AnswerStays
<1>7. CASE deprecate
  BY <1>6, <1>7 DEF p
<1>8. CASE ~ deprecate
  BY <1>4, <1>6, <1>8 DEF ColumnsEnd, p
<1> QED
  BY <1>7, <1>8

\* The EOF after the columns ends the answer.
LEMMA PColumnsEofRead ==
  ASSUME deprecate \in BOOLEAN, NEW known, NEW x \in ColumnsEnd(known)
  PROVE  Right(x, Eof) /\ After(x, Eof) \in Idle(known)
<1> DEFINE p == Eof
           d == [x.d EXCEPT !.state = "none"]
<1>1. x \in Idle(known) /\ x.d.state = "prepareColumns"
  BY DEF ColumnsEnd
<1>2. x.d \in Decoders /\ ~ x.d.handshake
  BY <1>1, IdleTypes
<1>3. "start" \notin DOMAIN p /\ "sql" \notin DOMAIN p /\ p.is = "EOF" /\ p.first = "eof"
  BY DEF Packet, Eof
<1>4. d \in Decoders /\ d.handshake = x.d.handshake /\ d.deprecate = x.d.deprecate
      /\ d.stmts = x.d.stmts
  BY <1>1, <1>2 DEF Decoders
<1> HIDE DEF p
<1>5. DecodeResponse(x.d, p) = Plain(d, "EOF")
  BY <1>1, <1>3 DEF DecodeResponse, DecodeDefinition, AfterDefinitions
<1> HIDE DEF d
<1>6. Right(x, p) /\ After(x, p) \in Idle(known)
  BY <1>1, <1>3, <1>4, <1>5, AnswerStays
<1> QED
  BY <1>6 DEF p

\* The whole answer to a preparation: refused, or with an id the decoder keeps
\* the statement under.
LEMMA PreparationsRead ==
  ASSUME WireAssumption, deprecate \in BOOLEAN, prepared \in Seq(Texts),
         Len(prepared) < MaxCommands, NEW sql \in Texts, NEW a \in Preparations(sql)
  PROVE  /\ a \in Seq(Parts(Responses))
         /\ "id" \notin DOMAIN Head(a) =>
              Leads(Asked("COM_STMT_PREPARE", sql, prepared), a, Idle(prepared))
         /\ "id" \in DOMAIN Head(a) =>
              Leads(Asked("COM_STMT_PREPARE", sql, prepared), a, Idle(Append(prepared, sql)))
<1> DEFINE S == Asked("COM_STMT_PREPARE", sql, prepared)
           known == Append(prepared, sql)
<1>1. S \subseteq Idle(prepared)
  BY DEF Asked
<1>2. CASE a = <<Err>>
  <2>1. Err \in Parts(Responses) /\ "id" \notin DOMAIN Err
    BY SimpleParts DEF Parts, Responses, Outcomes, Err, Packet
  <2>2. \A x \in S : Right(x, Err) /\ After(x, Err) \in Idle(prepared)
    BY <1>1, ErrRead
  <2> HIDE DEF S
  <2>3. a \in Seq(Parts(Responses)) /\ Leads(S, a, Idle(prepared))
    BY <1>2, <2>1, <2>2, LeadsWith
  <2>4. Head(a) = Err
    BY <1>2
  <2> QED
    BY <2>1, <2>3, <2>4 DEF S
<1>3. ASSUME NEW m \in 0..1, NEW n \in 0..1,
             a = <<[is |-> "PrepareOK", first |-> "ok", last |-> FALSE, more |-> FALSE,
                    sql |-> sql, id |-> Len(prepared) + 1, params |-> m, columns |-> n]>>
                   \o Block(m) \o Block(n)
      PROVE  a \in Seq(Parts(Responses)) /\ "id" \in DOMAIN Head(a) /\ Leads(S, a, Idle(known))
  <2> DEFINE p == [is |-> "PrepareOK", first |-> "ok", last |-> FALSE, more |-> FALSE,
                   sql |-> sql, id |-> Len(prepared) + 1, params |-> m, columns |-> n]
             T == IF m = 1 THEN Params(n, known) ELSE AfterParams(n, known)
  <2>1. p \in Parts(PrepareOKs) /\ p \in Parts(Responses) /\ p.id = Len(prepared) + 1
        /\ p.sql = sql /\ "id" \in DOMAIN p /\ p.params = m /\ p.columns = n
    BY DEF Parts, Responses, PrepareOKs
  <2>2. a = <<p>> \o Block(m) \o Block(n)
    BY <1>3
  <2> HIDE DEF p
  <2>3. ASSUME NEW x \in S PROVE Right(x, p) /\ After(x, p) \in T
    <3>1. /\ Right(x, p) /\ After(x, p) \in Idle(known)
          /\ m = 1 => After(x, p) \in Params(n, known)
          /\ m = 0 /\ n = 1 => After(x, p) \in Columns(known)
      BY <2>1, PreparedRead
    <3>2. CASE m = 1
      BY <3>1, <3>2
    <3>3. CASE m = 0 /\ n = 1
      BY <3>1, <3>3 DEF AfterParams
    <3>4. CASE m = 0 /\ n = 0
      BY <3>1, <3>4 DEF AfterParams
    <3> QED
      BY <3>2, <3>3, <3>4
  <2> HIDE DEF S, known
  <2>4. Leads(T, Block(m), AfterParams(n, known))
    <3>1. CASE m = 1
      <4>1. \A x \in Params(n, known) :
              /\ Right(x, Packet("ColumnDefinition", "other"))
              /\ After(x, Packet("ColumnDefinition", "other")) \in
                   IF deprecate THEN AfterParams(n, known) ELSE ParamsEnd(n, known)
        BY ParamRead
      <4>2. \A x \in ParamsEnd(n, known) : Right(x, Eof) /\ After(x, Eof) \in AfterParams(n, known)
        BY ParamsEofRead
      <4>3. Leads(Params(n, known), Block(1), AfterParams(n, known))
        BY <4>1, <4>2, BlockRead
      <4> QED
        BY <3>1, <4>3
    <3>2. CASE m = 0
      <4>1. Len(Block(m)) = 0 /\ T = AfterParams(n, known)
        BY <3>2, BlockTypes
      <4> QED
        BY <4>1, LeadsNowhere
    <3> QED
      BY <3>1, <3>2
  <2>5. Leads(AfterParams(n, known), Block(n), Idle(known))
    <3>1. CASE n = 1
      <4>1. \A x \in Columns(known) :
              /\ Right(x, Packet("ColumnDefinition", "other"))
              /\ After(x, Packet("ColumnDefinition", "other")) \in
                   IF deprecate THEN Idle(known) ELSE ColumnsEnd(known)
        BY PColumnRead
      <4>2. \A x \in ColumnsEnd(known) : Right(x, Eof) /\ After(x, Eof) \in Idle(known)
        BY PColumnsEofRead
      <4>3. Leads(Columns(known), Block(1), Idle(known))
        BY <4>1, <4>2, BlockRead
      <4> QED
        BY <3>1, <4>3 DEF AfterParams
    <3>2. CASE n = 0
      <4>1. Len(Block(n)) = 0 /\ AfterParams(n, known) = Idle(known)
        BY <3>2, BlockTypes DEF AfterParams
      <4> QED
        BY <4>1, LeadsNowhere
    <3> QED
      BY <3>1, <3>2
  <2>6. Block(m) \in Seq(Parts(Responses)) /\ Block(n) \in Seq(Parts(Responses))
    <3>1. Parts(Outcomes) \subseteq Parts(Responses)
      BY DEF Parts, Responses
    <3> QED
      BY <3>1, BlockTypes
  <2> HIDE DEF T
  <2> DEFINE h == <<p>>
             hm == h \o Block(m)
  <2>7. h \in Seq(Parts(Responses)) /\ Leads(S, h, T) /\ Head(h) = p /\ h # <<>>
    BY <2>1, <2>3, LeadsWith
  <2> HIDE DEF h
  <2>8. hm \in Seq(Parts(Responses)) /\ Head(hm) = p /\ hm # <<>>
    BY <2>6, <2>7
  <2>9. Leads(S, hm, AfterParams(n, known))
    BY <2>4, <2>6, <2>7, LeadsAcross
  <2>10. a = hm \o Block(n)
    BY <2>2 DEF h
  <2> HIDE DEF hm
  <2>11. a \in Seq(Parts(Responses)) /\ Head(a) = p
    BY <2>6, <2>8, <2>10
  <2>12. Leads(S, a, Idle(known))
    BY <2>5, <2>6, <2>8, <2>9, <2>10, LeadsAcross
  <2> QED
    BY <2>1, <2>11, <2>12
<1>4. a = <<Err>> \/ \E m \in 0..1, n \in 0..1 : a = Preparation(sql, m, n)
  BY DEF Preparations
<1>5. ASSUME NEW m \in 0..1, NEW n \in 0..1, a = Preparation(sql, m, n)
      PROVE  a \in Seq(Parts(Responses)) /\ "id" \in DOMAIN Head(a) /\ Leads(S, a, Idle(known))
  BY <1>3, <1>5 DEF Preparation
<1> QED
  BY <1>2, <1>4, <1>5

\* Joining: what IdleStays says, for the login.
LEMMA JoiningStays ==
  ASSUME deprecate \in BOOLEAN, NEW known, NEW x \in Strangers(known),
         NEW p, "start" \notin DOMAIN p, "sql" \notin DOMAIN p, ~ Derails(p),
         NEW d \in Decoders, NEW k, DecodeHandshake(x.d, Server, p) = Plain(d, k), p.is = k,
         d.deprecate = x.d.deprecate, d.stmts = x.d.stmts
  PROVE  /\ Right(x, p)
         /\ d.handshake => After(x, p) \in Strangers(known)
         /\ d.handshake /\ x \in Joining(known) => After(x, p) \in Joining(known)
         /\ ~ d.handshake /\ x \in Joining(known) => After(x, p) \in Idle(known)
<1>1. x \in States /\ x.d.handshake /\ ~ x.off /\ Knows(x, known)
  BY DEF Strangers
<1>2. From(p) = Server /\ From(p) # Client /\ About(p) = NoSQL
  BY DEF From, About, Server, Client
<1>3. Reads(x.d, p) = Plain(d, k) /\ ~ Starts(x.d, p)
  BY <1>1, <1>2 DEF Reads, Starts
<1>4. Plain(d, k).decoder = d /\ Plain(d, k).kind = k /\ Plain(d, k).sql = NoSQL
  BY DEF Plain, Step
<1>5. Right(x, p)
  BY <1>1, <1>2, <1>3, <1>4 DEF Right, Shown
<1> DEFINE y == After(x, p)
<1>6. y = [d |-> d, off |-> x.off, sure |-> x.sure]
  BY <1>3, <1>4 DEF After
<1> HIDE DEF y
<1>7. y.d = d /\ y.sure = x.sure /\ y \in States /\ ~ y.off
  BY <1>1, <1>6 DEF States
<1>8. Knows(y, known)
  BY <1>1, <1>7 DEF Knows
<1>9. d.handshake => y \in Strangers(known)
  BY <1>7, <1>8 DEF Strangers
<1>10. d.handshake /\ x \in Joining(known) => y \in Joining(known)
  BY <1>7, <1>9 DEF Joining
<1>11. ~ d.handshake /\ x \in Joining(known) => y \in Idle(known)
  BY <1>7, <1>8 DEF Joining, Idle
<1> QED
  BY <1>5, <1>9, <1>10, <1>11 DEF y

\* What the server says to a login.
LEMMA AdmissionRead ==
  ASSUME deprecate \in BOOLEAN, NEW known, NEW x \in Joining(known)
  PROVE  /\ Right(x, Ok(FALSE)) /\ After(x, Ok(FALSE)) \in Idle(known)
         /\ Right(x, Err) /\ After(x, Err) \in Idle(known)
         /\ Right(x, Packet("AuthMoreData", "more"))
         /\ After(x, Packet("AuthMoreData", "more")) \in Joining(known)
<1>1. x \in Strangers(known) /\ x.d \in Decoders
  BY DEF Joining, Strangers, States
<1>2. Right(x, Ok(FALSE)) /\ After(x, Ok(FALSE)) \in Idle(known)
  <2> DEFINE p == Ok(FALSE)
             d == [ResetResult(x.d) EXCEPT !.handshake = FALSE]
  <2>1. "start" \notin DOMAIN p /\ "sql" \notin DOMAIN p /\ p.is = "OK" /\ p.first = "ok"
        /\ ~ Derails(p)
    BY DEF Ok, Packet, Derails
  <2>2. d \in Decoders /\ ~ d.handshake /\ d.deprecate = x.d.deprecate /\ d.stmts = x.d.stmts
    BY <1>1 DEF Decoders, ResetResult
  <2>3. DecodeHandshake(x.d, Server, p) = Plain(d, "OK")
    BY <2>1 DEF DecodeHandshake, Server, Client
  <2> HIDE DEF p, d
  <2>4. Right(x, p) /\ After(x, p) \in Idle(known)
    BY <1>1, <2>1, <2>2, <2>3, JoiningStays
  <2> QED
    BY <2>4 DEF p
<1>3. Right(x, Err) /\ After(x, Err) \in Idle(known)
  <2> DEFINE p == Err
             d == [x.d EXCEPT !.handshake = FALSE]
  <2>1. "start" \notin DOMAIN p /\ "sql" \notin DOMAIN p /\ p.is = "ERR" /\ p.first = "err"
        /\ ~ Derails(p)
    BY DEF Err, Packet, Derails
  <2>2. d \in Decoders /\ ~ d.handshake /\ d.deprecate = x.d.deprecate /\ d.stmts = x.d.stmts
    BY <1>1 DEF Decoders
  <2>3. DecodeHandshake(x.d, Server, p) = Plain(d, "ERR")
    BY <2>1 DEF DecodeHandshake, Server, Client
  <2> HIDE DEF p, d
  <2>4. Right(x, p) /\ After(x, p) \in Idle(known)
    BY <1>1, <2>1, <2>2, <2>3, JoiningStays
  <2> QED
    BY <2>4 DEF p
<1>4. LET p == Packet("AuthMoreData", "more")
      IN Right(x, p) /\ After(x, p) \in Joining(known)
  <2> DEFINE p == Packet("AuthMoreData", "more")
  <2>1. "start" \notin DOMAIN p /\ "sql" \notin DOMAIN p /\ p.is = "AuthMoreData"
        /\ p.first = "more" /\ ~ Derails(p)
    BY DEF Packet, Derails
  <2>2. DecodeHandshake(x.d, Server, p) = Plain(x.d, "AuthMoreData")
    BY <2>1 DEF DecodeHandshake, Server, Client
  <2> HIDE DEF p
  <2>3. x.d.handshake
    BY <1>1 DEF Strangers
  <2>4. Right(x, p) /\ After(x, p) \in Joining(known)
    BY <1>1, <2>1, <2>2, <2>3, JoiningStays
  <2> QED
    BY <2>4 DEF p
<1> QED
  BY <1>2, <1>3, <1>4

\* The login is answered, or more is asked for.
LEMMA AdmissionsRead ==
  ASSUME deprecate \in BOOLEAN, NEW more \in BOOLEAN, NEW known, NEW a \in Admissions(more)
  PROVE  /\ a \in Seq(Parts(Replies)) /\ "id" \notin DOMAIN Head(a)
         /\ a[Len(a)].is = "AuthMoreData" => Leads(Joining(known), a, Joining(known))
         /\ a[Len(a)].is # "AuthMoreData" => Leads(Joining(known), a, Idle(known))
<1> DEFINE m == Packet("AuthMoreData", "more")
           ok == Ok(FALSE)
<1>1. m \in Parts(Replies) /\ m.is = "AuthMoreData" /\ "id" \notin DOMAIN m
  BY DEF Packet, Parts, Replies, Demands
<1>2. ok \in Parts(Replies) /\ ok.is # "AuthMoreData" /\ "id" \notin DOMAIN ok
  BY SimpleParts DEF Parts, Replies, Responses, Outcomes, Ok, Packet
<1>3. Err \in Parts(Replies) /\ Err.is # "AuthMoreData" /\ "id" \notin DOMAIN Err
  BY SimpleParts DEF Parts, Replies, Responses, Outcomes, Err, Packet
<1>4. /\ \A x \in Joining(known) : Right(x, ok) /\ After(x, ok) \in Idle(known)
      /\ \A x \in Joining(known) : Right(x, Err) /\ After(x, Err) \in Idle(known)
      /\ \A x \in Joining(known) : Right(x, m) /\ After(x, m) \in Joining(known)
  BY AdmissionRead
<1>5. a \in {<<ok>>, <<Err>>, <<m>>, <<m, ok>>}
  BY DEF Admissions
<1> HIDE DEF m, ok
<1>6. CASE a = <<ok>>
  <2>1. a \in Seq(Parts(Replies)) /\ Leads(Joining(known), a, Idle(known))
    BY <1>2, <1>4, <1>6, LeadsWith
  <2> QED
    BY <1>2, <1>6, <2>1
<1>7. CASE a = <<Err>>
  <2>1. a \in Seq(Parts(Replies)) /\ Leads(Joining(known), a, Idle(known))
    BY <1>3, <1>4, <1>7, LeadsWith
  <2> QED
    BY <1>3, <1>7, <2>1
<1>8. <<m>> \in Seq(Parts(Replies)) /\ Leads(Joining(known), <<m>>, Joining(known))
  BY <1>1, <1>4, LeadsWith
<1>9. CASE a = <<m>>
  BY <1>1, <1>8, <1>9
<1>10. CASE a = <<m, ok>>
  <2>1. a = <<m>> \o <<ok>>
    <3> DEFINE q == <<m>>
    <3>1. q \in Seq(Parts(Replies)) /\ Len(q) = 1 /\ q[1] = m
      BY <1>1
    <3>2. a \in Seq(Parts(Replies)) /\ Len(a) = 2 /\ a[1] = m /\ a[2] = ok
      BY <1>1, <1>2, <1>10
    <3> HIDE DEF q
    <3>3. a = q \o <<ok>>
      <4>1. \A i \in 1..Len(q) : i = 1
        BY <3>1
      <4>2. \A i \in 1..Len(q) : a[i] = q[i]
        BY <3>1, <3>2, <4>1
      <4>3. Len(a) = Len(q) + 1 /\ a[Len(q) + 1] = ok
        BY <3>1, <3>2
      <4> QED
        BY <1>2, <3>1, <3>2, <4>2, <4>3, LastReplaced
    <3> QED
      BY <3>3 DEF q
  <2>2. a \in Seq(Parts(Replies)) /\ Leads(Joining(known), a, Idle(known))
    BY <1>2, <1>4, <1>8, <2>1, LeadsThen
  <2>3. Len(a) = 2 /\ a[2] = ok /\ Head(a) = m
    BY <1>10
  <2> QED
    BY <1>1, <1>2, <2>2, <2>3
<1> QED
  BY <1>5, <1>6, <1>7, <1>9, <1>10

-----------------------------------------------------------------------------
(***************************************************************************)
(* An answer, put together.                                                *)
(***************************************************************************)

\* Whether a packet is the last of an answer is not read.
LEMMA LastIsNotRead ==
  ASSUME NEW p \in Replies, NEW x
  PROVE  LET q == [p EXCEPT !.last = TRUE]
         IN /\ q \in Replies /\ q.last /\ q.is = p.is /\ DOMAIN q = DOMAIN p
            /\ After(x, q) = After(x, p) /\ (Right(x, p) => Right(x, q))
<1> DEFINE q == [p EXCEPT !.last = TRUE]
<1>1. /\ q \in Replies /\ q.last /\ q.is = p.is /\ q.first = p.first /\ q.more = p.more
      /\ DOMAIN q = DOMAIN p /\ "start" \notin DOMAIN p
      /\ "n" \in DOMAIN p => q.n = p.n
      /\ "sql" \in DOMAIN p => q.sql = p.sql
      /\ "id" \in DOMAIN p => q.id = p.id /\ q.params = p.params /\ q.columns = p.columns
  <2>1. CASE p \in Simple
    BY <2>1 DEF Replies, Responses, Outcomes, Simple
  <2>2. CASE p \in Headers
    BY <2>2 DEF Replies, Responses, Outcomes, Headers
  <2>3. CASE p \in PrepareOKs
    BY <2>3 DEF Replies, Responses, PrepareOKs
  <2>4. CASE p \in Demands
    BY <2>4 DEF Replies, Demands
  <2> QED
    BY <2>1, <2>2, <2>3, <2>4 DEF Replies, Responses, Outcomes
<1> HIDE DEF q
<1>2. From(p) = Server /\ From(q) = Server /\ Server # Client
  BY <1>1 DEF From, Server, Client
<1>3. About(q) = About(p) /\ Derails(q) = Derails(p) /\ Starts(x.d, q) = Starts(x.d, p)
  BY <1>1, <1>2 DEF About, Derails, Starts
<1>4. DecodeHandshake(x.d, Server, q) = DecodeHandshake(x.d, Server, p)
  BY <1>1, <1>2 DEF DecodeHandshake
<1>5. DecodeResponse(x.d, q) = DecodeResponse(x.d, p)
  <2>1. DecodeOK(x.d, q, "OK") = DecodeOK(x.d, p, "OK")
        /\ DecodeOK(x.d, q, "EndOfRows") = DecodeOK(x.d, p, "EndOfRows")
    BY <1>1 DEF DecodeOK
  <2>2. DecodeHeader(x.d, q) = DecodeHeader(x.d, p)
    BY <1>1 DEF DecodeHeader
  <2>3. "id" \in DOMAIN p => DecodePrepareOK(x.d, q) = DecodePrepareOK(x.d, p)
    BY <1>1 DEF DecodePrepareOK
  <2>4. DecodeFirst(x.d, q) = DecodeFirst(x.d, p)
    BY <1>1, <2>1, <2>2, <2>3 DEF DecodeFirst
  <2>5. DecodeDefinition(x.d, q) = DecodeDefinition(x.d, p)
    BY <1>1 DEF DecodeDefinition
  <2>6. DecodeRow(x.d, q) = DecodeRow(x.d, p)
    BY <1>1, <2>1 DEF DecodeRow
  <2> QED
    BY <1>1, <2>4, <2>5, <2>6 DEF DecodeResponse
<1>6. Reads(x.d, q) = Reads(x.d, p)
  BY <1>2, <1>4, <1>5 DEF Reads
<1>7. After(x, q) = After(x, p)
  BY <1>3, <1>6 DEF After
<1>8. Right(x, p) => Right(x, q)
  BY <1>1, <1>2, <1>3, <1>6 DEF Right, Shown
<1> QED
  BY <1>1, <1>7, <1>8 DEF q

\* The answer as it is sent is read as it was put together.
LEMMA EndedRead ==
  ASSUME NEW a \in Seq(Parts(Replies)), a # <<>>
  PROVE  /\ Ended(a) \in Seq(Replies) /\ Len(Ended(a)) = Len(a)
         /\ \A i \in 1..Len(a) : Ended(a)[i].is = a[i].is /\ (Ended(a)[i].last <=> i = Len(a))
         /\ \A S, T : Leads(S, a, T) => Leads(S, Ended(a), T)
<1> DEFINE b == Ended(a)
           e == [a[Len(a)] EXCEPT !.last = TRUE]
<1>1. Len(a) \in Nat /\ Len(a) > 0 /\ DOMAIN a = 1..Len(a)
      /\ \A i \in 1..Len(a) : a[i] \in Replies /\ ~ a[i].last
  BY DEF Parts
<1>2. Len(a) \in 1..Len(a)
  BY <1>1
<1>3. /\ e \in Replies /\ e.last /\ e.is = a[Len(a)].is
      /\ \A x : After(x, e) = After(x, a[Len(a)]) /\ (Right(x, a[Len(a)]) => Right(x, e))
  BY <1>1, <1>2, LastIsNotRead
<1>4. b = [a EXCEPT ![Len(a)] = e]
  BY DEF Ended
<1> HIDE DEF e
<1>5. /\ b \in Seq(Replies) /\ Len(b) = Len(a)
      /\ \A i \in 1..Len(a) : b[i] = IF i = Len(a) THEN e ELSE a[i]
  <2>1. a \in Seq(Replies)
    BY DEF Parts
  <2> QED
    BY <1>1, <1>3, <1>4, <2>1
<1> HIDE DEF b
<1>6. \A i \in 1..Len(a) : b[i].is = a[i].is /\ (b[i].last <=> i = Len(a))
  BY <1>1, <1>3, <1>5
<1>7. \A i \in 1..Len(a) : \A x :
        After(x, b[i]) = After(x, a[i]) /\ (Right(x, a[i]) => Right(x, b[i]))
  BY <1>3, <1>5
<1>8. \A S, T : Leads(S, a, T) => Leads(S, b, T)
  BY <1>5, <1>7, LeadsAlike
<1> QED
  BY <1>5, <1>6, <1>8 DEF b

-----------------------------------------------------------------------------
(***************************************************************************)
(* What the client sends.                                                  *)
(***************************************************************************)

Authentications ==
  {p \in [is : {"HandshakeResponse", "AuthData"}, login : BOOLEAN, start : {FALSE}] :
     p.login <=> p.is = "HandshakeResponse"}

Orders == [is : Commands, login : {FALSE}, start : {TRUE}, sql : Texts, id : Nat]

\* What the client sends before it may send commands.
LEMMA AuthenticationRead ==
  ASSUME deprecate \in BOOLEAN, NEW known, NEW p \in Authentications, NEW x \in Strangers(known),
         ~ p.login => x \in Joining(known)
  PROVE  Right(x, p) /\ After(x, p) \in Joining(known)
<1> DEFINE d == IF p.login THEN [x.d EXCEPT !.deprecate = deprecate] ELSE x.d
           y == After(x, p)
<1>1. x \in States /\ x.d.handshake /\ ~ x.off /\ Knows(x, known) /\ x.d \in Decoders
  BY DEF Strangers, States
<1>2. /\ "start" \in DOMAIN p /\ "sql" \notin DOMAIN p /\ ~ p.start /\ ~ Derails(p)
      /\ p.is = IF p.login THEN "HandshakeResponse" ELSE "AuthData"
  BY DEF Authentications, Derails
<1>3. From(p) = Client /\ About(p) = NoSQL /\ ~ Starts(x.d, p)
  BY <1>2 DEF From, About, Starts
<1>4. d \in Decoders /\ d.handshake = x.d.handshake /\ d.stmts = x.d.stmts
      /\ d.deprecate = deprecate
  <2>1. CASE p.login
    BY <1>1, <2>1 DEF Decoders
  <2>2. CASE ~ p.login
    BY <1>1, <2>2 DEF Joining
  <2> QED
    BY <2>1, <2>2
<1>5. Reads(x.d, p) = Plain(d, p.is)
  <2>1. Reads(x.d, p) = DecodeHandshake(x.d, Client, p)
    BY <1>1, <1>3 DEF Reads
  <2>2. CASE p.login
    <3>1. DecodeHandshake(x.d, Client, p)
            = Plain([x.d EXCEPT !.deprecate = deprecate], "HandshakeResponse")
      BY <2>2 DEF DecodeHandshake, Server, Client
    <3> QED
      BY <1>2, <2>1, <2>2, <3>1
  <2>3. CASE ~ p.login
    <3>1. DecodeHandshake(x.d, Client, p) = Plain(x.d, "AuthData")
      BY <2>3 DEF DecodeHandshake, Server, Client
    <3> QED
      BY <1>2, <2>1, <2>3, <3>1
  <2> QED
    BY <2>2, <2>3
<1> HIDE DEF d
<1>6. Right(x, p)
  BY <1>1, <1>3, <1>5 DEF Right, Shown, Plain, Step
<1>7. y = [d |-> d, off |-> x.off, sure |-> x.sure]
  BY <1>2, <1>3, <1>5 DEF After, Plain, Step
<1> HIDE DEF y
<1>8. y.d = d /\ y.sure = x.sure /\ y \in States /\ ~ y.off
  BY <1>1, <1>4, <1>7 DEF States
<1>9. Knows(y, known)
  BY <1>1, <1>4, <1>8 DEF Knows
<1>10. y \in Joining(known)
  BY <1>1, <1>4, <1>8, <1>9 DEF Joining, Strangers
<1> QED
  BY <1>6, <1>10 DEF y

\* A command is labelled right wherever the decoder stands, and what it knows
\* of the rest stays.
LEMMA OrderRead ==
  ASSUME deprecate \in BOOLEAN, NEW p \in Orders, NEW x \in States, ~ x.d.handshake
  PROVE  LET y == After(x, p)
         IN /\ y \in States /\ ~ y.d.handshake /\ y.d.deprecate = x.d.deprecate
            /\ y.sure = x.sure /\ ~ y.off /\ Reads(x.d, p).kind = p.is /\ Shown(x, p) = p.is
            /\ p.is # "COM_STMT_CLOSE" =>
                 /\ y.d.stmts = x.d.stmts /\ y.d.state = "first" /\ y.d.command = p.is
                 /\ p.is = "COM_STMT_PREPARE" => y.d.pending = p.sql
            /\ p.is = "COM_STMT_CLOSE" => y.d.stmts = [x.d.stmts EXCEPT ![p.id] = NoSQL]
            /\ (p.is = "COM_STMT_EXECUTE" => x.d.stmts[p.id] = p.sql) =>
                 Reads(x.d, p).sql = About(p)
<1> DEFINE y == After(x, p)
           asks == [x.d EXCEPT !.state = "first", !.command = p.is]
<1>1. x.d \in Decoders
  BY DEF States
<1>2. /\ "start" \in DOMAIN p /\ "sql" \in DOMAIN p /\ p.start /\ p.is \in Commands
      /\ p.sql \in Texts /\ ~ Derails(p)
  BY DEF Orders, Derails, Commands
<1>3. From(p) = Client /\ Starts(x.d, p) /\ Shown(x, p) = p.is
  BY <1>2 DEF From, Starts, Shown, Client, Server
<1>4. Reads(x.d, p) = DecodeCommand(x.d, p)
  BY <1>3 DEF Reads
<1>5. asks \in Decoders /\ ~ asks.handshake /\ asks.deprecate = x.d.deprecate
      /\ asks.stmts = x.d.stmts /\ asks.state = "first" /\ asks.command = p.is
  BY <1>1, <1>2 DEF Decoders
<1>6. \A d \in Decoders : \A k, t :
        Reads(x.d, p) = Step(d, k, t) =>
          /\ Reads(x.d, p).kind = k /\ Reads(x.d, p).sql = t
          /\ y = [d |-> d, off |-> FALSE, sure |-> x.sure] /\ y \in States
          /\ y.d = d /\ y.sure = x.sure /\ ~ y.off
  <2> SUFFICES ASSUME NEW d \in Decoders, NEW k, NEW t, Reads(x.d, p) = Step(d, k, t)
               PROVE  /\ Reads(x.d, p).kind = k /\ Reads(x.d, p).sql = t
                      /\ y = [d |-> d, off |-> FALSE, sure |-> x.sure] /\ y \in States
                      /\ y.d = d /\ y.sure = x.sure /\ ~ y.off
    OBVIOUS
  <2>1. y = [d |-> d, off |-> FALSE, sure |-> x.sure]
    BY <1>2, <1>3 DEF After, Step
  <2> HIDE DEF y
  <2>2. y \in States /\ y.d = d /\ y.sure = x.sure /\ ~ y.off
    BY <2>1 DEF States
  <2> QED
    BY <2>1, <2>2 DEF Step
<1> HIDE DEF asks, y
<1>7. CASE p.is = "COM_QUERY"
  <2>1. Reads(x.d, p) = Step(asks, p.is, p.sql) /\ About(p) = p.sql
    BY <1>2, <1>4, <1>7 DEF DecodeCommand, About, asks
  <2> QED
    BY <1>3, <1>5, <1>6, <1>7, <2>1 DEF y
<1>8. CASE p.is = "COM_STMT_EXECUTE"
  <2>1. Reads(x.d, p) = Step(asks, p.is, x.d.stmts[p.id]) /\ About(p) = p.sql
    BY <1>2, <1>4, <1>8 DEF DecodeCommand, About, asks
  <2> QED
    BY <1>3, <1>5, <1>6, <1>8, <2>1 DEF y
<1>9. CASE p.is = "COM_STMT_PREPARE"
  <2> DEFINE d == [asks EXCEPT !.pending = p.sql]
  <2>1. Reads(x.d, p) = Step(d, p.is, p.sql) /\ About(p) = p.sql
    BY <1>2, <1>4, <1>9 DEF DecodeCommand, About, asks
  <2>2. d \in Decoders /\ ~ d.handshake /\ d.deprecate = x.d.deprecate
        /\ d.stmts = x.d.stmts /\ d.state = "first" /\ d.command = p.is /\ d.pending = p.sql
    BY <1>2, <1>5 DEF Decoders
  <2> HIDE DEF d
  <2> QED
    BY <1>3, <1>6, <1>9, <2>1, <2>2 DEF y
<1>10. CASE p.is = "COM_STMT_CLOSE"
  <2> DEFINE d == [x.d EXCEPT !.state = "none", !.command = p.is, !.stmts[p.id] = NoSQL]
  <2>1. Reads(x.d, p) = Step(d, p.is, NoSQL) /\ About(p) = NoSQL
    BY <1>2, <1>4, <1>10 DEF DecodeCommand, About, Plain
  <2>2. d \in Decoders /\ ~ d.handshake /\ d.deprecate = x.d.deprecate
        /\ d.stmts = [x.d.stmts EXCEPT ![p.id] = NoSQL]
    <3>1. x.d.stmts \in [1..MaxCommands -> Texts] /\ NoSQL \in Texts
      BY <1>1 DEF Decoders, Texts
    <3>2. [x.d.stmts EXCEPT ![p.id] = NoSQL] \in [1..MaxCommands -> Texts]
      BY <3>1
    <3> QED
      BY <1>1, <1>2, <3>2 DEF Decoders
  <2> HIDE DEF d
  <2> QED
    BY <1>3, <1>6, <1>10, <2>1, <2>2 DEF y
<1> QED
  BY <1>2, <1>3, <1>7, <1>8, <1>9, <1>10 DEF Commands

\* In step: commands of a client whose packets are all decoded in order.
LEMMA RequestRead ==
  ASSUME deprecate \in BOOLEAN, NEW known, NEW p \in Orders, NEW x \in Idle(known),
         p.is # "COM_STMT_CLOSE",
         p.is = "COM_STMT_EXECUTE" => p.id \in DOMAIN known /\ known[p.id] = p.sql /\ p.sql # NoSQL
  PROVE  Right(x, p) /\ After(x, p) \in Asked(p.is, p.sql, known)
<1> DEFINE y == After(x, p)
<1>1. x \in States /\ ~ x.d.handshake /\ x.d.deprecate = deprecate /\ Knows(x, known)
  BY DEF Idle
<1>2. /\ y \in States /\ ~ y.d.handshake /\ y.d.deprecate = x.d.deprecate
      /\ y.sure = x.sure /\ ~ y.off /\ Reads(x.d, p).kind = p.is /\ Shown(x, p) = p.is
      /\ y.d.stmts = x.d.stmts /\ y.d.state = "first" /\ y.d.command = p.is
      /\ p.is = "COM_STMT_PREPARE" => y.d.pending = p.sql
      /\ (p.is = "COM_STMT_EXECUTE" => x.d.stmts[p.id] = p.sql) =>
            Reads(x.d, p).sql = About(p)
  BY <1>1, OrderRead
<1> HIDE DEF y
<1>3. x.sure => (p.is = "COM_STMT_EXECUTE" => x.d.stmts[p.id] = p.sql)
  BY <1>1 DEF Knows
<1>4. Right(x, p)
  BY <1>2, <1>3 DEF Right
<1>5. Knows(y, known)
  BY <1>1, <1>2 DEF Knows
<1>6. y \in Asked(p.is, p.sql, known)
  BY <1>1, <1>2, <1>5 DEF Asked, Idle
<1> QED
  BY <1>4, <1>6 DEF y

\* A statement that is closed is forgotten at both ends.
LEMMA CloseRead ==
  ASSUME deprecate \in BOOLEAN, NEW known \in Seq(Texts), NEW p \in Orders,
         NEW x \in Idle(known), p.is = "COM_STMT_CLOSE", p.id \in DOMAIN known,
         Len(known) <= MaxCommands
  PROVE  Right(x, p) /\ After(x, p) \in Idle([known EXCEPT ![p.id] = NoSQL])
<1> DEFINE y == After(x, p)
           closed == [known EXCEPT ![p.id] = NoSQL]
<1>1. x \in States /\ ~ x.d.handshake /\ x.d.deprecate = deprecate /\ Knows(x, known)
  BY DEF Idle
<1>2. /\ y \in States /\ ~ y.d.handshake /\ y.d.deprecate = x.d.deprecate
      /\ y.sure = x.sure /\ ~ y.off /\ Reads(x.d, p).kind = p.is /\ Shown(x, p) = p.is
      /\ y.d.stmts = [x.d.stmts EXCEPT ![p.id] = NoSQL]
      /\ Reads(x.d, p).sql = About(p)
  BY <1>1, OrderRead
<1> HIDE DEF y
<1>3. Right(x, p)
  BY <1>2 DEF Right
<1>4. Knows(y, closed)
  <2> SUFFICES ASSUME x.sure, NEW n \in DOMAIN closed, closed[n] # NoSQL
               PROVE  y.d.stmts[n] = closed[n]
    BY <1>2 DEF Knows
  <2>1. n \in DOMAIN known /\ n # p.id /\ closed[n] = known[n]
    OBVIOUS
  <2>2. x.d.stmts[n] = known[n]
    BY <1>1, <2>1 DEF Knows
  <2>3. x.d.stmts \in [1..MaxCommands -> Texts]
    BY <1>1 DEF States, Decoders
  <2> QED
    BY <1>2, <2>1, <2>2, <2>3
<1> HIDE DEF closed
<1>5. y \in Idle(closed)
  BY <1>1, <1>2, <1>4 DEF Idle
<1> QED
  BY <1>3, <1>5 DEF y, closed

\* Once a packet was decoded out of order only the labels are followed.
Unsure == {x \in States : ~ x.d.handshake /\ x.d.deprecate = deprecate /\ ~ x.sure}

\* Nothing is claimed of the statements of a state that is not sure.
LEMMA UnsureFits ==
  ASSUME NEW x \in Unsure, ~ x.off, NEW known PROVE x \in Idle(known)
BY DEF Unsure, Idle, Knows

\* A command is followed from a state that is not sure, too.
LEMMA UnsureRead ==
  ASSUME deprecate \in BOOLEAN, NEW p \in Orders, NEW x \in Unsure, NEW known
  PROVE  /\ Right(x, p) /\ After(x, p) \in Unsure /\ After(x, p) \in Idle(known)
         /\ p.is # "COM_STMT_CLOSE" => After(x, p) \in Asked(p.is, p.sql, known)
<1> DEFINE y == After(x, p)
<1>1. x \in States /\ ~ x.d.handshake /\ x.d.deprecate = deprecate /\ ~ x.sure
  BY DEF Unsure
<1>2. /\ y \in States /\ ~ y.d.handshake /\ y.d.deprecate = x.d.deprecate
      /\ y.sure = x.sure /\ ~ y.off /\ Reads(x.d, p).kind = p.is /\ Shown(x, p) = p.is
      /\ p.is # "COM_STMT_CLOSE" => y.d.state = "first" /\ y.d.command = p.is
  BY <1>1, OrderRead
<1> HIDE DEF y
<1>3. Right(x, p)
  BY <1>1, <1>2 DEF Right
<1>4. y \in Unsure
  BY <1>1, <1>2 DEF Unsure
<1>6. y \in Idle(known)
  BY <1>2, <1>4, UnsureFits
<1>5. p.is # "COM_STMT_CLOSE" => y \in Asked(p.is, p.sql, known)
  BY <1>1, <1>2, <1>6 DEF Asked
<1> QED
  BY <1>3, <1>4, <1>5, <1>6 DEF y

\* The states before an answer, and after it.
Before(p, known) == IF p.start THEN Asked(p.is, p.sql, known) ELSE Joining(known)

\* Whatever the server answers leads from the state that awaits the answer to
\* the one the next packet of the client counts on.
LEMMA AnswerRead ==
  ASSUME WireAssumption, deprecate \in BOOLEAN, prepared \in Seq(Texts),
         NEW p \in Orders \union Authentications, NEW a \in Answers(p), a # <<>>,
         p.is = "COM_STMT_PREPARE" => Len(prepared) < MaxCommands
  PROVE  LET known == IF "id" \in DOMAIN Head(a) THEN Append(prepared, p.sql) ELSE prepared
         IN /\ a \in Seq(Parts(Replies)) /\ p.is # "COM_STMT_CLOSE"
            /\ "id" \in DOMAIN Head(a) => p.is = "COM_STMT_PREPARE"
            /\ a[Len(a)].is = "AuthMoreData" => Leads(Before(p, prepared), a, Joining(known))
            /\ a[Len(a)].is # "AuthMoreData" => Leads(Before(p, prepared), a, Idle(known))
            /\ p.start => a[Len(a)].is # "AuthMoreData"
<1>1. p.is \in Commands \union {"HandshakeResponse", "AuthData"}
      /\ (p.start <=> p.is \in Commands) /\ (p.start => p.sql \in Texts)
  BY DEF Orders, Authentications, Commands
<1>2. CASE p.is \in {"COM_QUERY", "COM_STMT_EXECUTE"}
  <2>1. PICK first \in {"ok", "other", "null"} : a \in Results(first)
    BY <1>2 DEF Answers, WireAssumption
  <2>2. a \in Seq(Parts(Outcomes)) /\ Leads(Fresh(prepared), a, Idle(prepared))
    BY <2>1, ResultsRead
  <2>3. Before(p, prepared) \subseteq Fresh(prepared)
    BY <1>1, <1>2 DEF Before, Asked, Fresh, Commands
  <2>4. Leads(Before(p, prepared), a, Idle(prepared))
    BY <2>2, <2>3, LeadsInto
  <2>5. a[Len(a)] \in Outcomes /\ Head(a) \in Outcomes
    <3>1. Len(a) \in 1..Len(a) /\ Head(a) = a[1] /\ 1 \in 1..Len(a)
      BY <2>2
    <3>2. \A i \in 1..Len(a) : a[i] \in Parts(Outcomes)
      BY <2>2
    <3> QED
      BY <3>1, <3>2 DEF Parts
  <2>6. a[Len(a)].is # "AuthMoreData" /\ "id" \notin DOMAIN Head(a)
    BY <2>5 DEF Outcomes, Simple, Headers
  <2>7. a \in Seq(Parts(Replies))
    <3>1. Parts(Outcomes) \subseteq Parts(Replies)
      BY DEF Parts, Replies, Responses
    <3> QED
      BY <2>2, <3>1
  <2> QED
    BY <1>2, <2>4, <2>6, <2>7
<1>3. CASE p.is = "COM_STMT_PREPARE"
  <2>1. a \in Preparations(p.sql)
    BY <1>3 DEF Answers
  <2>2. /\ a \in Seq(Parts(Responses))
        /\ "id" \notin DOMAIN Head(a) =>
             Leads(Asked("COM_STMT_PREPARE", p.sql, prepared), a, Idle(prepared))
        /\ "id" \in DOMAIN Head(a) =>
             Leads(Asked("COM_STMT_PREPARE", p.sql, prepared), a, Idle(Append(prepared, p.sql)))
    BY <1>1, <1>3, <2>1, PreparationsRead DEF Commands
  <2>3. Before(p, prepared) = Asked("COM_STMT_PREPARE", p.sql, prepared)
    BY <1>1, <1>3 DEF Before, Commands
  <2>4. a[Len(a)] \in Responses
    <3>1. Len(a) \in 1..Len(a)
      BY <2>2
    <3>2. \A i \in 1..Len(a) : a[i] \in Parts(Responses)
      BY <2>2
    <3> QED
      BY <3>1, <3>2 DEF Parts
  <2>5. a[Len(a)].is # "AuthMoreData"
    BY <2>4 DEF Responses, PrepareOKs, Outcomes, Simple, Headers
  <2>6. a \in Seq(Parts(Replies))
    <3>1. Parts(Responses) \subseteq Parts(Replies)
      BY DEF Parts, Replies
    <3> QED
      BY <2>2, <3>1
  <2> QED
    BY <1>3, <2>2, <2>3, <2>5, <2>6
<1>4. CASE p.is \in {"HandshakeResponse", "AuthData"}
  <2>1. PICK more \in BOOLEAN : a \in Admissions(more)
    BY <1>4 DEF Answers
  <2>2. Before(p, prepared) = Joining(prepared)
    BY <1>1, <1>4 DEF Before, Commands
  <2>3. ~ p.start
    BY <1>1, <1>4 DEF Commands
  <2> QED
    BY <1>4, <2>1, <2>2, <2>3, AdmissionsRead
<1>5. CASE p.is = "COM_STMT_CLOSE"
  BY <1>5 DEF Answers
<1> QED
  BY <1>1, <1>2, <1>3, <1>4, <1>5 DEF Commands

-----------------------------------------------------------------------------
(***************************************************************************)
(* The inductive invariant.  Everything that is under way -- in a pump's   *)
(* hand, or sent and not read -- is read right from what the decoder knows *)
(* now, and leads to what the end that speaks next counts on.              *)
(***************************************************************************)

Greetings == [is : {"ServerGreeting"}, first : {"greeting"}, last : {TRUE}]

ClientPackets == Orders \union Authentications

ServerPackets == Replies \union Greetings

Typed ==
  /\ deprecate \in BOOLEAN /\ turn \in {"nobody", "login", "auth", Client}
  /\ commands \in Nat /\ prepared \in Seq(Texts)
  /\ DOMAIN sent = Ends /\ DOMAIN held = Ends
  /\ sent[Client] \in Seq(ClientPackets) /\ sent[Server] \in Seq(ServerPackets)
  /\ held[Client] \in ClientPackets \union {Nothing}
  /\ held[Server] \in ServerPackets \union {Nothing}
  /\ decoder \in Decoders /\ (decoder.deprecate => deprecate)
  /\ derailed \in BOOLEAN /\ muddled \in BOOLEAN /\ disordered \in BOOLEAN
  /\ loginLost \in BOOLEAN

\* A pump decodes what it has in hand.
Holding ==
  /\ DOMAIN pump = Ends /\ DOMAIN event = Ends
  /\ \A e \in Ends : held[e] # Nothing <=> pump[e] = "decode"

\* Who will speak once the answer that is under way has arrived.
TurnAfter(p) ==
  CASE ~ p.last -> turn
    [] p.last /\ p.is = "ServerGreeting" -> "login"
    [] p.last /\ p.is = "AuthMoreData" -> "auth"
    [] p.last /\ p.is = "ERR" /\ commands = 0 -> turn
    [] OTHER -> Client

Coming ==
  IF sent[Server] # <<>> THEN TurnAfter(sent[Server][Len(sent[Server])]) ELSE turn

\* The packet the server is going to answer.
Asking == sent[Client][Len(sent[Client])]

Dialog ==
  /\ turn # "nobody" \/ sent[Client] # <<>> => sent[Server] = <<>>
  /\ turn \in {"login", "auth"} => sent[Client] = <<>>
  /\ \A i \in 1..Len(sent[Client]) :
       sent[Client][i].is = "COM_STMT_CLOSE" <=> (turn = Client \/ i < Len(sent[Client]))
  /\ \A i \in 1..Len(sent[Server]) : sent[Server][i].last <=> i = Len(sent[Server])

\* First the login, then commands.
Phases ==
  /\ commands = 0 => /\ held[Client] # Nothing => ~ held[Client].start
                     /\ \A i \in 1..Len(sent[Client]) : ~ sent[Client][i].start
  /\ commands > 0 => /\ Coming \in {Client, "nobody"}
                     /\ \A i \in 1..Len(sent[Client]) : sent[Client][i].start

\* Every statement that will have been prepared has an id the decoder has a
\* place for.
IdsFit ==
  /\ commands <= MaxCommands /\ Len(prepared) <= commands
  /\ sent[Client] # <<>> /\ Asking.is = "COM_STMT_PREPARE" => Len(prepared) < commands

OrderFits ==
  /\ \A e \in Ends : held[e] # Nothing /\ held[Other(e)] = Nothing => ahead \in {e, "overtaken"}
  /\ held[Client] # Nothing /\ held[Server] # Nothing => ahead \in {Client, Server, "overtaken"}
  /\ ahead = "overtaken" => muddled
  /\ muddled \/ loginLost => disordered

\* Once the login was decoded the decoder knows what the two ends agreed on.
LoginKnown ==
  /\ ~ loginLost /\ Coming # "login"
  /\ held[Client] # Nothing => held[Client].is # "HandshakeResponse"
  /\ \A i \in 1..Len(sent[Client]) : sent[Client][i].is # "HandshakeResponse"
  => decoder.deprecate = deprecate

\* The states whoever speaks next counts on.
Final ==
  CASE Coming = "login" -> Strangers(prepared)
    [] Coming = "auth" -> Joining(prepared)
    [] Coming = Client -> Idle(prepared)
    [] Coming = "nobody" /\ sent[Client] # <<>> -> Before(Asking, prepared)
    [] OTHER -> States

\* What is under way, in the order it was or will be forwarded in.
Hand(e) == IF held[e] = Nothing THEN <<>> ELSE <<held[e]>>

InHand == IF ahead = Client THEN Hand(Client) \o Hand(Server) ELSE Hand(Server) \o Hand(Client)

Waiting == sent[Client] \o sent[Server]

Pending == InHand \o Waiting

Now == [d |-> decoder, off |-> derailed, sure |-> ~ disordered]

InStep == ~ muddled /\ ~ loginLost => Leads({Now}, Pending, Final)

\* From a command that will be decoded by itself the decoder follows again.
Recovers ==
  /\ held[Client] # Nothing /\ held[Client].start
  /\ ahead # "overtaken" /\ (held[Server] = Nothing \/ ahead = Server)
  /\ sent[Client] = <<>>
  => Leads(Unsure, <<held[Client]>> \o sent[Server], Final)

Core ==
  Typed /\ Dialog /\ Phases /\ IdsFit /\ OrderFits /\ LoginKnown /\ InStep /\ Recovers

WireInv == Core /\ Holding /\ LabelledRight /\ RightStatement

-----------------------------------------------------------------------------
(***************************************************************************)
(* Lemmas about its parts.                                                 *)
(***************************************************************************)

\* The two ends, and the words that stand for no end.
LEMMA EndsFact ==
  /\ Client \in Ends /\ Server \in Ends /\ Client # Server
  /\ Other(Client) = Server /\ Other(Server) = Client
  /\ \A e \in Ends : e = Client \/ e = Server
  /\ Client \notin {"nobody", "overtaken", "login", "auth"}
  /\ Server \notin {"nobody", "overtaken", "login", "auth"}
BY DEF Ends, Client, Server, Other

\* Packets of the two ends are told apart by their fields.
LEMMA PacketsFact ==
  /\ Nothing \notin ClientPackets /\ Nothing \notin ServerPackets
  /\ \A p \in ClientPackets : From(p) = Client
  /\ \A p \in ServerPackets : From(p) = Server
  /\ \A p \in ClientPackets :
       /\ p.is \in Commands \union {"HandshakeResponse", "AuthData"}
       /\ p.start \in BOOLEAN /\ (p.start <=> p \in Orders) /\ (p.start <=> p.is \in Commands)
       /\ ~ p.start => p \in Authentications
<1>1. /\ \A p \in Orders : "start" \in DOMAIN p /\ p.start = TRUE /\ p.is \in Commands
      /\ \A p \in Authentications : /\ "start" \in DOMAIN p /\ p.start = FALSE
                                    /\ p.is \in {"HandshakeResponse", "AuthData"}
  BY DEF Orders, Authentications
<1>2. /\ \A p \in Replies : "start" \notin DOMAIN p /\ "first" \in DOMAIN p
      /\ \A p \in Greetings : "start" \notin DOMAIN p /\ "first" \in DOMAIN p
  BY DEF Replies, Responses, Outcomes, Simple, Headers, PrepareOKs, Demands, Greetings
<1>3. "start" \notin DOMAIN Nothing /\ "first" \notin DOMAIN Nothing
  BY DEF Nothing
<1>4. "HandshakeResponse" \notin Commands /\ "AuthData" \notin Commands
  BY DEF Commands
<1>5. Nothing \notin ClientPackets /\ Nothing \notin ServerPackets
  BY <1>1, <1>2, <1>3 DEF ClientPackets, ServerPackets
<1>6. /\ \A p \in ClientPackets : From(p) = Client
      /\ \A p \in ServerPackets : From(p) = Server
  BY <1>1, <1>2 DEF ClientPackets, ServerPackets, From
<1>7. ASSUME NEW p \in ClientPackets
      PROVE  /\ p.is \in Commands \union {"HandshakeResponse", "AuthData"}
             /\ p.start \in BOOLEAN /\ (p.start <=> p \in Orders) /\ (p.start <=> p.is \in Commands)
             /\ ~ p.start => p \in Authentications
  <2>1. CASE p \in Orders
    BY <1>1, <2>1
  <2>2. CASE p \in Authentications
    <3>1. p.start = FALSE /\ p.is \in {"HandshakeResponse", "AuthData"}
      BY <1>1, <2>2
    <3>2. p \notin Orders
      BY <1>1, <3>1
    <3> QED
      BY <1>4, <2>2, <3>1, <3>2
  <2> QED
    BY <2>1, <2>2 DEF ClientPackets
<1> QED
  BY <1>5, <1>6, <1>7

\* The sets of states, one within the other.
LEMMA SetsAreStates ==
  ASSUME NEW known
  PROVE  /\ Idle(known) \subseteq States /\ Strangers(known) \subseteq States
         /\ Joining(known) \subseteq Strangers(known) /\ Joining(known) \subseteq States
         /\ \A p : Before(p, known) \subseteq States
         /\ \A p : p.start => Before(p, known) \subseteq Idle(known)
         /\ \A p : ~ p.start => Before(p, known) = Joining(known)
BY DEF Idle, Strangers, Joining, Before, Asked

\* They depend on what was agreed on only.
LEMMA SetsStill ==
  ASSUME deprecate' = deprecate
  PROVE  /\ \A known : /\ Idle(known)' = Idle(known) /\ Joining(known)' = Joining(known)
                       /\ \A p : Before(p, known)' = Before(p, known)
         /\ Unsure' = Unsure
<1>1. \A known : Idle(known)' = Idle(known) /\ Joining(known)' = Joining(known)
  BY DEF Idle, Joining
<1>2. \A known : \A p : Before(p, known)' = Before(p, known)
  BY <1>1 DEF Before, Asked
<1>3. Unsure' = Unsure
  BY DEF Unsure
<1> QED
  BY <1>1, <1>2, <1>3

\* What is counted on depends on who speaks next.
LEMMA FinalStill ==
  ASSUME deprecate' = deprecate, prepared' = prepared, Coming' = Coming,
         Coming = "nobody" => /\ (sent'[Client] # <<>> <=> sent[Client] # <<>>)
                              /\ sent[Client] # <<>> => Asking' = Asking
  PROVE  Final' = Final
<1>1. Coming = "nobody" => (sent'[Client] # <<>> <=> sent[Client] # <<>>)
  OBVIOUS
<1>2. CASE Coming # "nobody"
  BY <1>2, SetsStill DEF Final
<1>3. CASE Coming = "nobody"
  <2>1. CASE sent[Client] = <<>>
    BY <1>1, <1>3, <2>1, SetsStill DEF Final, Client
  <2>2. CASE sent[Client] # <<>>
    BY <1>1, <1>3, <2>2, SetsStill DEF Final, Client
  <2> QED
    BY <2>1, <2>2
<1> QED
  BY <1>2, <1>3

\* It is a set of states.
LEMMA FinalStates == Final \subseteq States
<1> DEFINE p == Asking
<1>1. Strangers(prepared) \subseteq States /\ Joining(prepared) \subseteq States
      /\ Idle(prepared) \subseteq States /\ Before(p, prepared) \subseteq States
  BY SetsAreStates
<1> HIDE DEF p
<1> QED
  BY <1>1 DEF Final, p

\* A queue of commands is followed without what was known of statements.
LEMMA QueueRead ==
  ASSUME Core, commands > 0, sent[Client] # <<>>
  PROVE  Leads(Unsure, sent[Client], Final)
<1> DEFINE n == Len(sent[Client])
           q == [i \in 1..n |-> sent[Client][i]]
<1>1. /\ deprecate \in BOOLEAN /\ sent[Client] \in Seq(ClientPackets) /\ sent[Server] = <<>>
      /\ n \in Nat /\ n > 0 /\ turn \in {"nobody", "login", "auth", Client}
  BY DEF Core, Typed, Dialog
<1>2. \A i \in 1..n : sent[Client][i] \in Orders
  BY <1>1, PacketsFact DEF Core, Phases
<1>3. /\ turn # Client => sent[Client][n].is # "COM_STMT_CLOSE"
      /\ Coming = turn /\ turn \in {Client, "nobody"}
  BY <1>1 DEF Core, Dialog, Phases, Coming
<1>4. ASSUME NEW i \in 1..n, NEW x \in Unsure
      PROVE  Right(x, sent[Client][i]) /\ After(x, sent[Client][i]) \in Unsure
  BY <1>1, <1>2, UnsureRead
<1> DEFINE p == sent[Client][n]
           start == SubSeq(sent[Client], 1, n - 1)
<1>5. /\ start \in Seq(ClientPackets) /\ Len(start) = n - 1 /\ p \in ClientPackets
      /\ \A i \in 1..(n - 1) : start[i] = sent[Client][i]
  BY <1>1
<1>6. sent[Client] = start \o <<p>>
  <2>1. Len(sent[Client]) = Len(start) + 1 /\ sent[Client][Len(start) + 1] = p
    BY <1>1, <1>5
  <2>2. \A i \in 1..Len(start) : sent[Client][i] = start[i]
    BY <1>1, <1>5
  <2> HIDE DEF p, start
  <2> QED
    BY <1>1, <1>5, <2>1, <2>2, LastReplaced
<1> HIDE DEF start
<1>7. Leads(Unsure, start, Unsure)
  <2>1. \A i \in 1..Len(start) : i \in 1..n /\ start[i] = sent[Client][i]
    BY <1>1, <1>5
  <2>2. Len(start) \in Nat
    BY <1>5
  <2> QED
    BY <1>4, <2>1, <2>2, LeadsAround
<1>8. p \in Orders /\ p.start
  <2>1. n \in 1..n
    BY <1>1
  <2>2. p \in Orders
    BY <1>2, <2>1
  <2> QED
    BY <2>2 DEF Orders
<1>9. CASE turn = Client
  <2>1. Final = Idle(prepared)
    BY <1>3, <1>9, EndsFact DEF Final
  <2> HIDE DEF p
  <2>2. \A x \in Unsure : Right(x, p) /\ After(x, p) \in Idle(prepared)
    BY <1>1, <1>8, UnsureRead
  <2>3. Leads(Unsure, start \o <<p>>, Idle(prepared))
    BY <1>5, <1>7, <2>2, LeadsThen
  <2> QED
    BY <1>6, <2>1, <2>3
<1>10. CASE turn = "nobody"
  <2>1. p.is # "COM_STMT_CLOSE"
    BY <1>3, <1>10, EndsFact
  <2>2. Final = Before(p, prepared)
    BY <1>3, <1>10, EndsFact DEF Final, Asking
  <2> HIDE DEF p
  <2>3. \A x \in Unsure : Right(x, p) /\ After(x, p) \in Before(p, prepared)
    BY <1>1, <1>8, <2>1, UnsureRead DEF Before
  <2>4. Leads(Unsure, start \o <<p>>, Before(p, prepared))
    BY <1>5, <1>7, <2>3, LeadsThen
  <2> QED
    BY <1>6, <2>2, <2>4
<1> QED
  BY <1>3, <1>9, <1>10

\* The decoder of any packet of the server, in whatever state it is.
LEMMA ResponseTyped ==
  ASSUME NEW d \in Decoders, NEW p \in ServerPackets
  PROVE  \E e \in Decoders : \E k, t :
           DecodeResponse(d, p) = Step(e, k, t) /\ e.deprecate = d.deprecate
<1> DEFINE some(s) == \E e \in Decoders : \E k, t : s = Step(e, k, t) /\ e.deprecate = d.deprecate
<1>1. NoSQL \in Texts /\ d.pending \in Texts /\ d.stmts \in [1..MaxCommands -> Texts]
  BY DEF Texts, Decoders
<1>2. /\ "n" \in DOMAIN p => p.n \in Nat
      /\ "id" \in DOMAIN p => p.params \in Nat /\ p.columns \in Nat
  BY DEF ServerPackets, Replies, Responses, Outcomes, Simple, Headers, PrepareOKs, Demands,
     Greetings
<1>3. \A e \in Decoders : \A k : e.deprecate = d.deprecate => some(Plain(e, k))
  BY DEF Plain
<1>4. ResetResult(d) \in Decoders /\ ResetResult(d).deprecate = d.deprecate
  BY DEF ResetResult, Decoders
<1>5. \A k : some(DecodeOK(d, p, k))
  <2> DEFINE e == [d EXCEPT !.state = "first"]
  <2>1. e \in Decoders /\ e.deprecate = d.deprecate
    BY DEF Decoders
  <2>2. \A k : DecodeOK(d, p, k) \in {Plain(e, k), Plain(ResetResult(d), k)}
    BY DEF DecodeOK
  <2> HIDE DEF e, some
  <2> QED
    BY <1>3, <1>4, <2>1, <2>2
<1>6. some(DecodeHeader(d, p))
  <2> DEFINE n == IF "n" \in DOMAIN p THEN p.n ELSE 3
             e == [d EXCEPT !.columns = n, !.state = "definitions", !.await = ~ d.deprecate]
             f == [d EXCEPT !.columns = n, !.state = "none"]
  <2>1. n \in Nat
    BY <1>2
  <2>2. DecodeHeader(d, p) = Plain(IF n = 0 THEN f ELSE e, "ResultSetHeader")
    BY DEF DecodeHeader
  <2> HIDE DEF n
  <2>3. e \in Decoders /\ e.deprecate = d.deprecate /\ f \in Decoders /\ f.deprecate = d.deprecate
    BY <2>1 DEF Decoders
  <2> HIDE DEF e, f, some
  <2> QED
    BY <1>3, <2>2, <2>3
<1>7. "id" \in DOMAIN p => some(DecodePrepareOK(d, p))
  <2> SUFFICES ASSUME "id" \in DOMAIN p PROVE some(DecodePrepareOK(d, p))
    OBVIOUS
  <2> DEFINE state == IF p.params > 0 THEN "prepareParams"
                      ELSE IF p.columns > 0 THEN "prepareColumns" ELSE "none"
             e == [d EXCEPT !.stmts[p.id] = d.pending, !.pending = NoSQL,
                            !.params = p.params, !.columns = p.columns, !.state = state]
  <2>1. state \in {"none", "prepareParams", "prepareColumns"}
    OBVIOUS
  <2>2. [d.stmts EXCEPT ![p.id] = d.pending] \in [1..MaxCommands -> Texts]
    BY <1>1
  <2>3. DecodePrepareOK(d, p) = Step(e, "PrepareOK", d.pending)
    BY DEF DecodePrepareOK
  <2> HIDE DEF state
  <2>4. e \in Decoders /\ e.deprecate = d.deprecate
    BY <1>1, <1>2, <2>1, <2>2 DEF Decoders
  <2> HIDE DEF e
  <2> QED
    BY <2>3, <2>4
<1>8. some(DecodeFirst(d, p))
  <2> DEFINE e == [d EXCEPT !.state = "none"]
             kept == [n \in DOMAIN d.stmts |-> IF n = OkReads THEN d.pending ELSE d.stmts[n]]
             f == [d EXCEPT !.stmts = kept, !.pending = NoSQL, !.params = 0, !.columns = 0,
                            !.state = "none"]
  <2>1. e \in Decoders /\ e.deprecate = d.deprecate
    BY DEF Decoders
  <2>2. some(Plain(e, "LocalInfileRequest"))
    BY <1>3, <2>1
  <2>3. kept \in [1..MaxCommands -> Texts]
    BY <1>1
  <2>4. DecodeShortOK(d) = Step(f, "PrepareOK", d.pending)
    BY DEF DecodeShortOK, Decoders
  <2> HIDE DEF kept
  <2>5. f \in Decoders /\ f.deprecate = d.deprecate
    BY <1>1, <2>3 DEF Decoders
  <2> HIDE DEF f
  <2>6. some(DecodeShortOK(d))
    BY <2>4, <2>5
  <2>7. \/ DecodeFirst(d, p) \in {Plain(e, "LocalInfileRequest"), DecodeShortOK(d),
                                  DecodeOK(d, p, "OK"), DecodeHeader(d, p)}
        \/ "id" \in DOMAIN p /\ DecodeFirst(d, p) = DecodePrepareOK(d, p)
    BY DEF DecodeFirst
  <2> HIDE DEF e, some
  <2> QED
    BY <1>5, <1>6, <1>7, <2>2, <2>6, <2>7
<1>9. d.state \in {"prepareParams", "prepareColumns", "definitions"} => some(DecodeDefinition(d, p))
  <2> SUFFICES ASSUME d.state \in {"prepareParams", "prepareColumns", "definitions"}
               PROVE  some(DecodeDefinition(d, p))
    OBVIOUS
  <2>1. CASE p.first # "eof"
    <3>1. PICK e \in Decoders : DecodeDefinition(d, p) = Plain(e, "ColumnDefinition")
                                /\ e.deprecate = d.deprecate
      BY <2>1, DefinitionRead
    <3> QED
      BY <1>3, <3>1
  <2>2. CASE p.first = "eof"
    <3>1. AfterDefinitions(d) \in Decoders /\ AfterDefinitions(d).deprecate = d.deprecate
      BY DEF AfterDefinitions, Decoders
    <3>2. DecodeDefinition(d, p) = Plain(AfterDefinitions(d), "EOF")
      BY <2>2 DEF DecodeDefinition
    <3> QED
      BY <1>3, <3>1, <3>2
  <2> QED
    BY <2>1, <2>2
<1>10. some(DecodeRow(d, p))
  <2> DEFINE e == [d EXCEPT !.state = "none"]
  <2>1. e \in Decoders /\ e.deprecate = d.deprecate
    BY DEF Decoders
  <2>2. some(Plain(e, "EndOfRows")) /\ some(Plain(d, "Row"))
    BY <1>3, <2>1
  <2>3. DecodeRow(d, p) \in {DecodeOK(d, p, "EndOfRows"), Plain(e, "EndOfRows"), Plain(d, "Row")}
    BY DEF DecodeRow
  <2> HIDE DEF e, some
  <2> QED
    BY <1>5, <2>2, <2>3
<1>11. some(Plain(ResetResult(d), "ERR")) /\ some(Plain(d, "Unsolicited"))
  BY <1>3, <1>4
<1>12. \/ DecodeResponse(d, p) \in {Plain(ResetResult(d), "ERR"), DecodeFirst(d, p),
                                    DecodeRow(d, p), Plain(d, "Unsolicited")}
       \/ /\ d.state \in {"prepareParams", "prepareColumns", "definitions"}
          /\ DecodeResponse(d, p) = DecodeDefinition(d, p)
  BY DEF DecodeResponse
<1> HIDE DEF some
<1>13. some(DecodeResponse(d, p))
  BY <1>8, <1>9, <1>10, <1>11, <1>12
<1> QED
  BY <1>13 DEF some

\* What a packet makes of the decoder, in whatever state it finds it.
LEMMA DecodedTyped ==
  ASSUME deprecate \in BOOLEAN, NEW d \in Decoders, NEW p \in ClientPackets \union ServerPackets
  PROVE  /\ Reads(d, p).decoder \in Decoders
         /\ Reads(d, p).decoder.deprecate \in {d.deprecate, deprecate}
         /\ p.is = "HandshakeResponse" /\ Reads(d, p).kind = p.is =>
              Reads(d, p).decoder.deprecate = deprecate
<1> DEFINE good(s) == s.decoder \in Decoders /\ s.decoder.deprecate = d.deprecate
<1>1. CASE p \in Orders /\ ~ d.handshake
  <2> DEFINE x == [d |-> d, off |-> FALSE, sure |-> FALSE]
  <2>1. x \in States /\ ~ x.d.handshake /\ x.d = d
    BY <1>1 DEF States
  <2>2. After(x, p).d = Reads(d, p).decoder
    BY DEF After
  <2> HIDE DEF x
  <2>3. After(x, p) \in States /\ After(x, p).d.deprecate = x.d.deprecate
    BY <1>1, <2>1, OrderRead
  <2>4. After(x, p).d \in Decoders
    BY <2>3 DEF States
  <2>5. p.is # "HandshakeResponse"
    BY <1>1 DEF Orders, Commands
  <2> QED
    BY <2>1, <2>2, <2>3, <2>4, <2>5
<1>2. CASE d.handshake
  <2>1. Reads(d, p) = DecodeHandshake(d, From(p), p)
    BY <1>2 DEF Reads
  <2>2. From(p) \in {Client, Server} /\ Client # Server
    BY DEF From, Client, Server
  <2>3. ResetResult(d) \in Decoders /\ ResetResult(d).deprecate = d.deprecate
    BY DEF ResetResult, Decoders
  <2>4. /\ [d EXCEPT !.handshake = FALSE] \in Decoders
        /\ [d EXCEPT !.handshake = FALSE].deprecate = d.deprecate
        /\ [ResetResult(d) EXCEPT !.handshake = FALSE] \in Decoders
        /\ [ResetResult(d) EXCEPT !.handshake = FALSE].deprecate = d.deprecate
        /\ [d EXCEPT !.deprecate = deprecate] \in Decoders
        /\ [d EXCEPT !.deprecate = deprecate].deprecate = deprecate
    BY <2>3 DEF Decoders
  <2>5. CASE From(p) = Client
    <3>1. p \in ClientPackets
      BY <2>2, <2>5, PacketsFact
    <3>2. CASE p.login
      <4> DEFINE e == [d EXCEPT !.deprecate = deprecate]
      <4>1. Reads(d, p) = Plain(e, "HandshakeResponse")
        BY <2>1, <2>2, <2>5, <3>2 DEF DecodeHandshake
      <4>2. e \in Decoders /\ e.deprecate = deprecate
        BY <2>4
      <4> HIDE DEF e
      <4>3. Reads(d, p).decoder = e
        BY <4>1 DEF Plain, Step
      <4> QED
        BY <4>2, <4>3
    <3>3. CASE ~ p.login
      <4>1. Reads(d, p) = Plain(d, "AuthData")
        BY <2>1, <2>2, <2>5, <3>3 DEF DecodeHandshake
      <4>2. Reads(d, p).decoder = d /\ Reads(d, p).kind = "AuthData"
        BY <4>1 DEF Plain, Step
      <4> QED
        BY <4>2
    <3> QED
      BY <3>2, <3>3
  <2>6. CASE From(p) = Server
    <3>1. p.is # "HandshakeResponse"
      BY <2>2, <2>6, PacketsFact DEF ServerPackets, Replies, Responses, Outcomes, Simple,
         Headers, PrepareOKs, Demands, Greetings
    <3>2. DecodeHandshake(d, Server, p) \in
            {Plain([d EXCEPT !.handshake = FALSE], "ERR"),
             Plain([ResetResult(d) EXCEPT !.handshake = FALSE], "OK"),
             Plain(d, "AuthMoreData"), Plain(d, "ServerGreeting"), Plain(d, "HandshakeData")}
      BY <2>2 DEF DecodeHandshake
    <3>3. \E e \in Decoders : \E k : Reads(d, p) = Plain(e, k) /\ e.deprecate = d.deprecate
      BY <2>1, <2>4, <2>6, <3>2
    <3> QED
      BY <3>1, <3>3 DEF Plain, Step
  <2> QED
    BY <2>2, <2>5, <2>6
<1>3. CASE p \in Authentications /\ ~ d.handshake
  <2>1. From(p) = Client /\ ~ p.start
    BY <1>3, PacketsFact DEF ClientPackets, Authentications
  <2>2. Reads(d, p) = Plain(d, "Continuation")
    BY <1>3, <2>1 DEF Reads, DecodeCommand
  <2>3. p.is # "Continuation"
    BY <1>3 DEF Authentications
  <2> QED
    BY <2>2, <2>3 DEF Plain, Step
<1>4. CASE p \in ServerPackets /\ ~ d.handshake
  <2>1. From(p) = Server /\ Server # Client
    BY <1>4, PacketsFact, EndsFact
  <2>2. Reads(d, p) = DecodeResponse(d, p)
    BY <1>4, <2>1 DEF Reads
  <2>3. p.is # "HandshakeResponse"
    BY <1>4 DEF ServerPackets, Replies, Responses, Outcomes, Simple,
       Headers, PrepareOKs, Demands, Greetings
  <2>4. \E e \in Decoders : \E k, t :
           DecodeResponse(d, p) = Step(e, k, t) /\ e.deprecate = d.deprecate
    BY <1>4, ResponseTyped
  <2> QED
    BY <2>2, <2>3, <2>4 DEF Step
<1> QED
  BY <1>1, <1>2, <1>3, <1>4 DEF ClientPackets

-----------------------------------------------------------------------------
(***************************************************************************)
(* What a step makes of its parts.                                         *)
(***************************************************************************)

Packets == ClientPackets \union ServerPackets

\* What is in hand and what waits are packets.
LEMMA PartsTyped ==
  ASSUME Typed
  PROVE  /\ sent[Client] \in Seq(Packets) /\ sent[Server] \in Seq(Packets)
         /\ Hand(Client) \in Seq(Packets) /\ Hand(Server) \in Seq(Packets)
         /\ InHand \in Seq(Packets) /\ Waiting \in Seq(Packets) /\ Pending \in Seq(Packets)
<1>1. /\ sent[Client] \in Seq(Packets) /\ sent[Server] \in Seq(Packets)
      /\ \A e \in Ends : held[e] = Nothing \/ held[e] \in Packets
  BY EndsFact DEF Typed, Packets
<1>2. Hand(Client) \in Seq(Packets) /\ Hand(Server) \in Seq(Packets)
  BY <1>1, EndsFact DEF Hand
<1>3. InHand \in Seq(Packets)
  BY <1>2 DEF InHand
<1>4. Waiting \in Seq(Packets)
  BY <1>1 DEF Waiting
<1> QED
  BY <1>1, <1>2, <1>3, <1>4 DEF Pending

\* To show that the decoder is in step after a step.
LEMMA InStepNext ==
  ASSUME deprecate' = deprecate, NEW S, NEW q, NEW T, NEW U,
         {Now'} \subseteq S, Pending' = q, T \subseteq U, Final' = U, Leads(S, q, T)
  PROVE  InStep'
<1>1. PICK n : n = Now'
  OBVIOUS
<1>2. Leads({n}, q, U)
  BY <1>1, LeadsInto
<1>3. Leads({n}, q, U)'
  BY <1>2, LeadsStill
<1>4. Leads({Now}, Pending, Final)'
  BY <1>1, <1>3
<1> QED
  BY <1>4 DEF InStep

\* To show that it recovers after a step.
LEMMA RecoversNext ==
  ASSUME deprecate' = deprecate, NEW p, NEW q, NEW T, NEW U,
         held'[Client] = p, sent'[Server] = q, T \subseteq U, Final' = U,
         Leads(Unsure, <<p>> \o q, T)
  PROVE  Recovers'
<1>1. PICK S : S = Unsure
  OBVIOUS
<1>2. Leads(S, <<p>> \o q, U)
  BY <1>1, LeadsInto
<1>3. Leads(S, <<p>> \o q, U)'
  BY <1>2, LeadsStill
<1>4. Unsure' = S
  BY <1>1, SetsStill
<1>5. Leads(Unsure, <<held[Client]>> \o sent[Server], Final)'
  BY <1>3, <1>4, EndsFact
<1> QED
  BY <1>5 DEF Recovers

\* What is counted on after a step, and now.
LEMMA FinalNext ==
  ASSUME deprecate' = deprecate, NEW known, prepared' = known
  PROVE  /\ Coming' = "auth" => Final' = Joining(known)
         /\ Coming' = Client => Final' = Idle(known)
         /\ Coming' = "nobody" /\ sent'[Client] # <<>> =>
              \A p : Asking' = p => Final' = Before(p, known)
         /\ Coming' = "nobody" /\ sent'[Client] = <<>> => Final' = States
<1>1. /\ Joining(prepared)' = Joining(known) /\ Idle(prepared)' = Idle(known)
      /\ \A p : Before(p, prepared)' = Before(p, known)
  BY SetsStill
<1>2. Coming' = "auth" => Final' = Joining(known)
  BY <1>1, EndsFact DEF Final
<1>3. Coming' = Client => Final' = Idle(known)
  BY <1>1, EndsFact DEF Final
<1>4. ASSUME Coming' = "nobody", sent'[Client] # <<>>, NEW p, Asking' = p
      PROVE  Final' = Before(p, known)
  BY <1>1, <1>4, EndsFact DEF Final
<1>5. Coming' = "nobody" /\ sent'[Client] = <<>> => Final' = States
  BY EndsFact DEF Final
<1> QED
  BY <1>2, <1>3, <1>4, <1>5

\* What is counted on by whoever speaks next.
LEMMA FinalNow ==
  /\ Coming = "login" => Final = Strangers(prepared)
  /\ Coming = "auth" => Final = Joining(prepared)
  /\ Coming = Client => Final = Idle(prepared)
  /\ Coming = "nobody" /\ sent[Client] # <<>> => Final = Before(Asking, prepared)
BY EndsFact DEF Final

\* What the pumps have been through and the ends that have left do not matter.
coreVars == <<deprecate, turn, commands, prepared, sent, held, ahead, decoderVars>>

\* Steps that change none of them keep the invariant.
LEMMA CoreStill ==
  ASSUME Core, UNCHANGED coreVars
  PROVE  Core'
<1>1. /\ deprecate' = deprecate /\ turn' = turn /\ commands' = commands
      /\ prepared' = prepared /\ sent' = sent /\ held' = held /\ ahead' = ahead
      /\ decoder' = decoder /\ muddled' = muddled /\ disordered' = disordered
      /\ loginLost' = loginLost /\ derailed' = derailed
  BY DEF coreVars, decoderVars
<1>2. Coming' = Coming /\ Asking' = Asking
  BY <1>1 DEF Coming, Asking, TurnAfter
<1>3. Final' = Final
  BY <1>1, <1>2, FinalStill
<1>4. Pending' = Pending /\ Now' = Now
  BY <1>1 DEF Pending, InHand, Waiting, Hand, Now
<1>5. InStep'
  <2>1. CASE muddled \/ loginLost
    BY <1>1, <2>1 DEF InStep
  <2>2. CASE ~ muddled /\ ~ loginLost
    <3>1. Leads({Now}, Pending, Final)
      BY <2>2 DEF Core, InStep
    <3> QED
      BY <1>1, <1>3, <1>4, <3>1, InStepNext
  <2> QED
    BY <2>1, <2>2
<1>6. Recovers'
  <2>1. CASE Leads(Unsure, <<held[Client]>> \o sent[Server], Final)
    BY <1>1, <1>3, <2>1, RecoversNext
  <2>2. CASE ~ Leads(Unsure, <<held[Client]>> \o sent[Server], Final)
    BY <1>1, <2>2 DEF Core, Recovers
  <2> QED
    BY <2>1, <2>2
<1>7. Typed' /\ Dialog' /\ IdsFit' /\ OrderFits'
  BY <1>1, <1>2 DEF Core, Typed, Dialog, IdsFit, OrderFits
<1>8. Phases' /\ LoginKnown'
  BY <1>1, <1>2 DEF Core, Phases, LoginKnown
<1> QED
  BY <1>5, <1>6, <1>7, <1>8 DEF Core

-----------------------------------------------------------------------------
(***************************************************************************)
(* The client speaks.                                                      *)
(***************************************************************************)

\* A packet that is sent comes after everything that is under way.
LEMMA AppendedLater ==
  ASSUME NEW P, NEW h \in Seq(P), NEW q \in Seq(P), NEW p \in P
  PROVE  h \o (Append(q, p) \o <<>>) = (h \o (q \o <<>>)) \o <<p>>
OBVIOUS

\* Whoever speaks counts on the states everything under way leads to.
LEMMA TurnsAreComing ==
  ASSUME Core, turn # "nobody"
  PROVE  /\ sent[Server] = <<>> /\ Coming = turn /\ turn \in {"login", "auth", Client}
         /\ turn \in {"login", "auth"} => sent[Client] = <<>> /\ commands = 0
         /\ turn = Client => \A i \in 1..Len(sent[Client]) : sent[Client][i].is = "COM_STMT_CLOSE"
<1>1. sent[Server] = <<>> /\ turn \in {"login", "auth", Client}
  BY DEF Core, Dialog, Typed
<1>2. Coming = turn
  BY <1>1 DEF Coming
<1>3. turn \in {"login", "auth"} => sent[Client] = <<>>
  BY DEF Core, Dialog
<1>4. turn \in {"login", "auth"} => commands = 0
  <2>1. commands \in Nat /\ (commands > 0 => Coming \in {Client, "nobody"})
    BY DEF Core, Typed, Phases
  <2> QED
    BY <1>2, <2>1, EndsFact
<1>5. turn = Client => \A i \in 1..Len(sent[Client]) : sent[Client][i].is = "COM_STMT_CLOSE"
  BY DEF Core, Dialog
<1> QED
  BY <1>1, <1>2, <1>3, <1>4, <1>5

\* A packet that may be sent is read right after all that is under way.
LEMMA SpeakKeeps ==
  ASSUME Core, turn # "nobody", deprecate' = deprecate, UNCHANGED <<held, ahead, decoderVars>>,
         NEW p \in ClientPackets, sent' = [sent EXCEPT ![Client] = Append(@, p)],
         NEW U, Final' = U, \A x \in Final : Right(x, p) /\ After(x, p) \in U
  PROVE  InStep' /\ Recovers'
<1>1. sent[Server] = <<>> /\ sent'[Server] = <<>> /\ sent'[Client] = Append(sent[Client], p)
      /\ sent[Client] \in Seq(ClientPackets)
  BY TurnsAreComing, EndsFact DEF Core, Typed
<1>2. sent'[Client] # <<>>
  BY <1>1
<1>3. Recovers'
  BY <1>2, EndsFact DEF Recovers
<1>4. Now' = Now /\ InHand' = InHand
  BY DEF Now, InHand, Hand, decoderVars
<1>5. Pending' = Pending \o <<p>>
  <2>1. InHand \in Seq(Packets) /\ sent[Client] \in Seq(Packets) /\ p \in Packets
    BY PartsTyped DEF Core, Packets
  <2>2. InHand \o (Append(sent[Client], p) \o <<>>) = (InHand \o (sent[Client] \o <<>>)) \o <<p>>
    BY <2>1, AppendedLater
  <2>3. Pending' = InHand \o (Append(sent[Client], p) \o <<>>)
    BY <1>1, <1>4, EndsFact DEF Pending, Waiting
  <2>4. Pending = InHand \o (sent[Client] \o <<>>)
    BY <1>1 DEF Pending, Waiting
  <2> QED
    BY <2>2, <2>3, <2>4
<1>6. InStep'
  <2>1. CASE muddled \/ loginLost
    BY <2>1 DEF InStep, decoderVars
  <2>2. CASE ~ muddled /\ ~ loginLost
    <3>1. Leads({Now}, Pending, Final)
      BY <2>2 DEF Core, InStep
    <3>2. Pending \in Seq(Packets) /\ p \in Packets
      BY PartsTyped DEF Core, Packets
    <3>3. Leads({Now}, Pending \o <<p>>, U)
      BY <3>1, <3>2, LeadsThen
    <3> QED
      BY <1>4, <1>5, <3>3, InStepNext
  <2> QED
    BY <2>1, <2>2
<1> QED
  BY <1>3, <1>6

\* At first the greeting is under way.
LEMMA InitCore == WireAssumption /\ Init => Core
<1> SUFFICES ASSUME WireAssumption, Init PROVE Core
  OBVIOUS
<1> DEFINE p == [is |-> "ServerGreeting", first |-> "greeting", last |-> TRUE]
<1>1. /\ deprecate \in BOOLEAN /\ turn = "nobody" /\ commands = 0 /\ prepared = <<>>
      /\ sent[Client] = <<>> /\ sent[Server] = <<p>> /\ DOMAIN sent = Ends
      /\ held[Client] = Nothing /\ held[Server] = Nothing /\ DOMAIN held = Ends
      /\ decoder = NewDecoder /\ ~ muddled /\ ~ disordered /\ ~ loginLost /\ ~ derailed
      /\ ahead = "nobody" /\ muddled = FALSE /\ disordered = FALSE /\ loginLost = FALSE
      /\ derailed = FALSE
  BY EndsFact DEF Init
<1>2. p \in Greetings /\ p \in ServerPackets /\ p.last /\ p.is = "ServerGreeting"
      /\ p.first = "greeting" /\ "start" \notin DOMAIN p /\ "sql" \notin DOMAIN p /\ ~ Derails(p)
  BY DEF Greetings, ServerPackets, Derails
<1> HIDE DEF p
<1>3. NewDecoder \in Decoders /\ NewDecoder.handshake /\ ~ NewDecoder.deprecate
  BY DEF NewDecoder, Decoders, Texts
<1>4. Typed
  <2>1. /\ <<>> \in Seq(ClientPackets) /\ <<p>> \in Seq(ServerPackets)
        /\ <<>> \in Seq(Texts) /\ 0 \in Nat
    BY <1>2
  <2> QED
    BY <1>1, <1>3, <2>1, EndsFact DEF Typed
<1>5. Coming = "login"
  BY <1>1, <1>2 DEF Coming, TurnAfter
<1>6. Dialog /\ IdsFit
  BY <1>1, <1>2 DEF Dialog, IdsFit, WireAssumption
<1>7. Phases /\ OrderFits /\ LoginKnown /\ Recovers
  BY <1>1, <1>5, EndsFact DEF Phases, OrderFits, LoginKnown, Recovers
<1>8. Now \in Strangers(prepared)
  <2> DEFINE x == Now
  <2>1. x.d = NewDecoder /\ x \in States /\ ~ x.off
    BY <1>1, <1>3 DEF Now, States
  <2>2. Knows(x, prepared)
    BY <1>1 DEF Knows
  <2> HIDE DEF x
  <2>3. x \in Strangers(prepared)
    BY <1>1, <1>3, <2>1, <2>2 DEF Strangers
  <2> QED
    BY <2>3 DEF x
<1>9. ASSUME NEW x \in {Now} PROVE Right(x, p) /\ After(x, p) \in Strangers(prepared)
  <2>1. x.d \in Decoders /\ x \in Strangers(prepared) /\ x.d.handshake
    BY <1>8, <1>9 DEF Strangers, States
  <2>2. DecodeHandshake(x.d, Server, p) = Plain(x.d, "ServerGreeting")
    BY <1>2, EndsFact DEF DecodeHandshake
  <2> QED
    BY <1>1, <1>2, <2>1, <2>2, JoiningStays
<1>10. Pending = <<p>>
  BY <1>1 DEF Pending, InHand, Hand, Waiting
<1>11. InStep
  <2>1. Leads({Now}, <<p>>, Strangers(prepared))
    BY <1>2, <1>9, LeadsWith
  <2>2. Final = Strangers(prepared)
    BY <1>5, FinalNow
  <2> QED
    BY <1>10, <2>1, <2>2 DEF InStep
<1> QED
  BY <1>4, <1>6, <1>7, <1>11 DEF Core

\* The login, and what it is asked for.
LEMMA LoginCore ==
  ASSUME Core, Login PROVE Core'
<1> DEFINE p == [is |-> "HandshakeResponse", login |-> TRUE, start |-> FALSE]
<1>1. /\ turn = "login" /\ turn' = "nobody" /\ sent' = [sent EXCEPT ![Client] = Append(@, p)]
      /\ deprecate' = deprecate /\ commands' = commands /\ prepared' = prepared
      /\ UNCHANGED <<held, ahead, decoderVars>>
  BY DEF Login, Says, pumpVars
<1>2. p \in Authentications /\ p \in ClientPackets /\ p.login /\ ~ p.start
      /\ p.is = "HandshakeResponse"
  BY DEF Authentications, ClientPackets
<1> HIDE DEF p
<1>3. /\ sent[Server] = <<>> /\ Coming = "login" /\ sent[Client] = <<>> /\ commands = 0
  BY <1>1, TurnsAreComing
<1>4. sent'[Client] = <<p>> /\ sent'[Server] = <<>> /\ DOMAIN sent' = Ends
  BY <1>1, <1>3, EndsFact DEF Core, Typed
<1>5. Coming' = "nobody" /\ Asking' = p /\ sent'[Client] # <<>>
  BY <1>1, <1>4, EndsFact DEF Coming, Asking
<1>6. Final' = Joining(prepared)
  <2>1. Final' = Before(p, prepared)
    BY <1>1, <1>5, FinalNext
  <2> QED
    BY <1>2, <2>1 DEF Before
<1>7. InStep' /\ Recovers'
  <2>1. Final = Strangers(prepared)
    BY <1>3, FinalNow
  <2>2. \A x \in Final : Right(x, p) /\ After(x, p) \in Joining(prepared)
    BY <1>2, <2>1, AuthenticationRead DEF Core, Typed
  <2> QED
    BY <1>1, <1>2, <1>6, <2>2, SpeakKeeps
<1>8. Typed'
  <2>1. sent'[Client] \in Seq(ClientPackets) /\ sent'[Server] \in Seq(ServerPackets)
    BY <1>2, <1>4
  <2> QED
    BY <1>1, <1>4, <2>1, EndsFact DEF Core, Typed, decoderVars
<1>9. Dialog' /\ IdsFit'
  BY <1>1, <1>2, <1>3, <1>4, <1>5, EndsFact DEF Core, Dialog, IdsFit
<1>10. Phases'
  BY <1>1, <1>2, <1>3, <1>4, <1>5, EndsFact DEF Core, Phases
<1>11. OrderFits' /\ LoginKnown'
  BY <1>1, <1>2, <1>4, EndsFact DEF Core, OrderFits, LoginKnown, decoderVars
<1> QED
  BY <1>7, <1>8, <1>9, <1>10, <1>11 DEF Core

\* The authentication goes on.
LEMMA GoOnCore ==
  ASSUME Core, GoOn PROVE Core'
<1> DEFINE p == [is |-> "AuthData", login |-> FALSE, start |-> FALSE]
<1>1. /\ turn = "auth" /\ turn' = "nobody" /\ sent' = [sent EXCEPT ![Client] = Append(@, p)]
      /\ deprecate' = deprecate /\ commands' = commands /\ prepared' = prepared
      /\ UNCHANGED <<held, ahead, decoderVars>>
  BY DEF GoOn, Says, pumpVars
<1>2. p \in Authentications /\ p \in ClientPackets /\ ~ p.login /\ ~ p.start /\ p.is = "AuthData"
  BY DEF Authentications, ClientPackets
<1> HIDE DEF p
<1>3. /\ sent[Server] = <<>> /\ Coming = "auth" /\ sent[Client] = <<>> /\ commands = 0
  BY <1>1, TurnsAreComing
<1>4. sent'[Client] = <<p>> /\ sent'[Server] = <<>> /\ DOMAIN sent' = Ends
  BY <1>1, <1>3, EndsFact DEF Core, Typed
<1>5. Coming' = "nobody" /\ Asking' = p /\ sent'[Client] # <<>>
  BY <1>1, <1>4, EndsFact DEF Coming, Asking
<1>6. Final' = Joining(prepared)
  <2>1. Final' = Before(p, prepared)
    BY <1>1, <1>5, FinalNext
  <2> QED
    BY <1>2, <2>1 DEF Before
<1>7. InStep' /\ Recovers'
  <2>1. Final = Joining(prepared) /\ Final \subseteq Strangers(prepared)
    BY <1>3, FinalNow, SetsAreStates
  <2>2. \A x \in Final : Right(x, p) /\ After(x, p) \in Joining(prepared)
    BY <1>2, <2>1, AuthenticationRead DEF Core, Typed
  <2> QED
    BY <1>1, <1>2, <1>6, <2>2, SpeakKeeps
<1>8. Typed'
  <2>1. sent'[Client] \in Seq(ClientPackets) /\ sent'[Server] \in Seq(ServerPackets)
    BY <1>2, <1>4
  <2> QED
    BY <1>1, <1>4, <2>1, EndsFact DEF Core, Typed, decoderVars
<1>9. Dialog' /\ IdsFit'
  BY <1>1, <1>2, <1>3, <1>4, <1>5, EndsFact DEF Core, Dialog, IdsFit
<1>10. Phases'
  BY <1>1, <1>2, <1>3, <1>4, <1>5, EndsFact DEF Core, Phases
<1>11. OrderFits'
  BY <1>1, EndsFact DEF Core, OrderFits, decoderVars
<1>12. LoginKnown'
  BY <1>1, <1>2, <1>3, <1>4, EndsFact DEF Core, LoginKnown, decoderVars
<1> QED
  BY <1>7, <1>8, <1>9, <1>10, <1>11, <1>12 DEF Core

\* What a command of the client is, and what follows from it.
LEMMA OrderSaid ==
  ASSUME WireAssumption, Core, turn = Client, NEW p \in Orders,
         commands' = commands + 1, commands < MaxCommands,
         sent' = [sent EXCEPT ![Client] = Append(@, p)], deprecate' = deprecate,
         UNCHANGED <<held, ahead, decoderVars>>,
         turn' \in {Client, "nobody"}, turn' = Client <=> p.is = "COM_STMT_CLOSE",
         NEW known, prepared' = known, known \in Seq(Texts), Len(known) = Len(prepared)
  PROVE  /\ Typed' /\ Dialog' /\ Phases' /\ IdsFit' /\ OrderFits' /\ LoginKnown'
         /\ Coming' = turn' /\ Asking' = p /\ sent'[Client] # <<>>
<1>1. /\ sent[Server] = <<>> /\ Coming = Client
      /\ \A i \in 1..Len(sent[Client]) : sent[Client][i].is = "COM_STMT_CLOSE"
  BY TurnsAreComing, EndsFact
<1>2. /\ sent[Client] \in Seq(ClientPackets) /\ DOMAIN sent = Ends /\ commands \in Nat
      /\ prepared \in Seq(Texts)
  BY DEF Core, Typed
<1>3. p \in ClientPackets /\ p.start /\ p.is \in Commands /\ p.is # "HandshakeResponse"
  BY DEF ClientPackets, Orders, Commands
<1>4. /\ sent'[Client] = Append(sent[Client], p) /\ sent'[Server] = <<>> /\ DOMAIN sent' = Ends
  BY <1>1, <1>2, EndsFact
<1> DEFINE n == Len(sent[Client])
<1>5. /\ n \in Nat /\ Len(sent'[Client]) = n + 1 /\ sent'[Client][n + 1] = p
      /\ \A i \in 1..n : sent'[Client][i] = sent[Client][i]
      /\ sent'[Client] \in Seq(ClientPackets) /\ sent'[Client] # <<>>
  BY <1>2, <1>3, <1>4
<1>6. Coming' = turn' /\ Asking' = p
  BY <1>4, <1>5 DEF Coming, Asking
<1> HIDE DEF n
<1>7. Typed'
  <2>1. /\ turn' \in {"nobody", "login", "auth", Client} /\ commands' \in Nat
        /\ prepared' \in Seq(Texts)
    BY <1>2
  <2>2. sent'[Server] \in Seq(ServerPackets)
    BY EndsFact DEF Core, Typed
  <2> QED
    BY <1>4, <1>5, <2>1, <2>2 DEF Core, Typed, decoderVars
<1>8. Dialog'
  <2>1. \A i \in 1..Len(sent'[Client]) :
          sent'[Client][i].is = "COM_STMT_CLOSE" <=> (turn' = Client \/ i < Len(sent'[Client]))
    <3> SUFFICES ASSUME NEW i \in 1..Len(sent'[Client])
                 PROVE  sent'[Client][i].is = "COM_STMT_CLOSE"
                          <=> (turn' = Client \/ i < Len(sent'[Client]))
      OBVIOUS
    <3>1. CASE i \in 1..n
      <4>1. sent'[Client][i].is = "COM_STMT_CLOSE" /\ i < Len(sent'[Client])
        BY <1>1, <1>5, <3>1 DEF n
      <4> QED
        BY <4>1
    <3>2. CASE i = n + 1
      <4>1. sent'[Client][i] = p /\ ~ i < Len(sent'[Client])
        BY <1>5, <3>2
      <4> QED
        BY <4>1
    <3> QED
      BY <1>5, <3>1, <3>2
  <2> QED
    BY <1>4, <2>1, EndsFact DEF Dialog
<1>9. \A i \in 1..Len(sent'[Client]) : sent'[Client][i].start
  <2> SUFFICES ASSUME NEW i \in 1..Len(sent'[Client]) PROVE sent'[Client][i].start
    OBVIOUS
  <2>1. CASE i \in 1..n
    <3>1. sent'[Client][i] = sent[Client][i] /\ sent[Client][i].is = "COM_STMT_CLOSE"
          /\ sent[Client][i] \in ClientPackets
      BY <1>1, <1>2, <1>5, <2>1 DEF n
    <3> QED
      BY <3>1, PacketsFact DEF Commands
  <2>2. CASE i = n + 1
    BY <1>3, <1>5, <2>2
  <2> QED
    BY <1>5, <2>1, <2>2
<1>10. Phases'
  <2>1. commands' > 0
    BY <1>2
  <2>2. Coming' \in {Client, "nobody"}
    BY <1>6
  <2> QED
    BY <1>9, <2>1, <2>2 DEF Phases
<1>11. IdsFit'
  <2>1. commands <= MaxCommands /\ Len(prepared) <= commands /\ Len(prepared) \in Nat
    BY <1>2 DEF Core, IdsFit
  <2>2. Len(prepared') = Len(prepared) /\ MaxCommands \in Nat
    BY DEF WireAssumption
  <2>3. commands' <= MaxCommands /\ Len(prepared') <= commands' /\ Len(prepared') < commands'
    BY <1>2, <2>1, <2>2
  <2> QED
    BY <2>3 DEF IdsFit
<1>12. OrderFits'
  BY EndsFact DEF Core, OrderFits, decoderVars
<1>13. LoginKnown'
  <2> SUFFICES ASSUME /\ ~ loginLost' /\ Coming' # "login"
                      /\ held'[Client] # Nothing => held'[Client].is # "HandshakeResponse"
               PROVE  decoder'.deprecate = deprecate'
    BY DEF LoginKnown
  <2>1. \A i \in 1..Len(sent[Client]) : sent[Client][i].is # "HandshakeResponse"
    BY <1>1
  <2> QED
    BY <1>1, <2>1, EndsFact DEF Core, LoginKnown, decoderVars
<1> QED
  BY <1>5, <1>6, <1>7, <1>8, <1>10, <1>11, <1>12, <1>13

\* A command, or the closing of a statement, keeps the invariant.
LEMMA CommandCore ==
  ASSUME WireAssumption, Core, Command PROVE Core'
<1> DEFINE say(is, sql, id) ==
             [is |-> is, login |-> FALSE, start |-> TRUE, sql |-> sql, id |-> id]
<1>1. /\ turn = Client /\ commands' = commands + 1 /\ commands < MaxCommands
      /\ deprecate' = deprecate /\ UNCHANGED <<held, ahead, decoderVars>>
  BY DEF Command, pumpVars
<1>2. /\ deprecate \in BOOLEAN /\ prepared \in Seq(Texts)
      /\ Len(prepared) <= MaxCommands /\ MaxCommands \in Nat
      /\ Final = Idle(prepared) /\ Len(prepared) \in Nat
  <2>1. commands \in Nat /\ prepared \in Seq(Texts) /\ deprecate \in BOOLEAN
        /\ Len(prepared) <= commands
    BY DEF Core, Typed, IdsFit
  <2>2. Final = Idle(prepared)
    BY <1>1, TurnsAreComing, FinalNow, EndsFact
  <2> QED
    BY <1>1, <2>1, <2>2 DEF WireAssumption
\* A command that is answered, or not.
<1>3. ASSUME NEW p \in Orders, Says(p), UNCHANGED prepared, p.is # "COM_STMT_CLOSE",
             p.is = "COM_STMT_EXECUTE" =>
               p.id \in DOMAIN prepared /\ prepared[p.id] = p.sql /\ p.sql # NoSQL
      PROVE  Core'
  <2>1. turn' = "nobody" /\ sent' = [sent EXCEPT ![Client] = Append(@, p)]
        /\ prepared' = prepared
    BY <1>3 DEF Says
  <2>2. turn' \in {Client, "nobody"} /\ (turn' = Client <=> p.is = "COM_STMT_CLOSE")
    BY <1>3, <2>1, EndsFact
  <2>3. /\ Typed' /\ Dialog' /\ Phases' /\ IdsFit' /\ OrderFits' /\ LoginKnown'
        /\ Coming' = "nobody" /\ Asking' = p /\ sent'[Client] # <<>>
    BY <1>1, <1>2, <2>1, <2>2, OrderSaid
  <2>4. Final' = Asked(p.is, p.sql, prepared)
    <3>1. Final' = Before(p, prepared)
      BY <1>1, <2>1, <2>3, FinalNext
    <3>2. p.start
      BY DEF Orders
    <3> QED
      BY <3>1, <3>2 DEF Before
  <2>5. \A x \in Final : Right(x, p) /\ After(x, p) \in Asked(p.is, p.sql, prepared)
    BY <1>2, <1>3, RequestRead
  <2>6. InStep' /\ Recovers'
    <3>1. p \in ClientPackets /\ turn # "nobody"
      BY <1>1, EndsFact DEF ClientPackets
    <3> QED
      BY <1>1, <2>1, <2>4, <2>5, <3>1, SpeakKeeps
  <2> QED
    BY <2>3, <2>6 DEF Core
<1>4. ASSUME Says(say("COM_QUERY", "q", 0)), UNCHANGED prepared
      PROVE  Core'
  <2> DEFINE p == say("COM_QUERY", "q", 0)
  <2>1. p \in Orders /\ p.is = "COM_QUERY"
    BY DEF Orders, Commands, Texts
  <2> HIDE DEF p
  <2>2. Says(p)
    BY <1>4 DEF p
  <2> QED
    BY <1>3, <1>4, <2>1, <2>2
<1>5. ASSUME NEW q \in {"a", "b"}, Says(say("COM_STMT_PREPARE", q, 0)), UNCHANGED prepared
      PROVE  Core'
  <2> DEFINE p == say("COM_STMT_PREPARE", q, 0)
  <2>1. p \in Orders /\ p.is = "COM_STMT_PREPARE"
    BY DEF Orders, Commands, Texts
  <2> HIDE DEF p
  <2>2. Says(p)
    BY <1>5 DEF p
  <2> QED
    BY <1>3, <1>5, <2>1, <2>2
<1>6. ASSUME NEW n \in Open, Says(say("COM_STMT_EXECUTE", prepared[n], n)), UNCHANGED prepared
      PROVE  Core'
  <2> DEFINE p == say("COM_STMT_EXECUTE", prepared[n], n)
  <2>1. n \in DOMAIN prepared /\ n \in Nat /\ prepared[n] \in Texts /\ prepared[n] # NoSQL
    BY <1>2 DEF Open
  <2>2. p \in Orders /\ p.is = "COM_STMT_EXECUTE" /\ p.id = n /\ p.sql = prepared[n]
    BY <2>1 DEF Orders, Commands
  <2> HIDE DEF p
  <2>3. Says(p)
    BY <1>6 DEF p
  <2> QED
    BY <1>3, <1>6, <2>1, <2>2, <2>3
<1>7. ASSUME NEW n \in Open,
             sent' = [sent EXCEPT ![Client] = Append(@, say("COM_STMT_CLOSE", prepared[n], n))],
             turn' = Client, prepared' = [prepared EXCEPT ![n] = NoSQL]
      PROVE  Core'
  <2> DEFINE p == say("COM_STMT_CLOSE", prepared[n], n)
             known == [prepared EXCEPT ![n] = NoSQL]
  <2>1. n \in DOMAIN prepared /\ n \in Nat /\ prepared[n] \in Texts
    BY <1>2 DEF Open
  <2>2. p \in Orders /\ p.is = "COM_STMT_CLOSE" /\ p.id = n
    BY <2>1 DEF Orders, Commands
  <2>3. sent' = [sent EXCEPT ![Client] = Append(@, p)]
    BY <1>7
  <2> HIDE DEF p
  <2>4. known \in Seq(Texts) /\ Len(known) = Len(prepared)
    <3>1. NoSQL \in Texts
      BY DEF Texts
    <3> QED
      BY <1>2, <2>1, <3>1
  <2>5. \A x \in Final : Right(x, p) /\ After(x, p) \in Idle(known)
    BY <1>2, <2>1, <2>2, CloseRead
  <2>6. prepared' = known
    BY <1>7
  <2> HIDE DEF known
  <2>7. turn' \in {Client, "nobody"} /\ (turn' = Client <=> p.is = "COM_STMT_CLOSE")
    BY <1>7, <2>2
  <2>8. /\ Typed' /\ Dialog' /\ Phases' /\ IdsFit' /\ OrderFits' /\ LoginKnown'
        /\ Coming' = Client
    BY <1>1, <1>7, <2>2, <2>3, <2>4, <2>6, <2>7, OrderSaid
  <2>9. Final' = Idle(known)
    BY <1>1, <2>6, <2>8, FinalNext
  <2>10. InStep' /\ Recovers'
    <3>1. p \in ClientPackets /\ turn # "nobody"
      BY <1>1, <2>2, EndsFact DEF ClientPackets
    <3> QED
      BY <1>1, <2>3, <2>5, <2>9, <3>1, SpeakKeeps
  <2> QED
    BY <2>8, <2>10 DEF Core
<1>8. \/ Says(say("COM_QUERY", "q", 0)) /\ UNCHANGED prepared
      \/ \E q \in {"a", "b"} : Says(say("COM_STMT_PREPARE", q, 0)) /\ UNCHANGED prepared
      \/ \E n \in Open : Says(say("COM_STMT_EXECUTE", prepared[n], n)) /\ UNCHANGED prepared
      \/ \E n \in Open :
           /\ sent' = [sent EXCEPT ![Client] = Append(@, say("COM_STMT_CLOSE", prepared[n], n))]
           /\ turn' = Client
           /\ prepared' = [prepared EXCEPT ![n] = NoSQL]
  BY DEF Command
<1> QED
  BY <1>4, <1>5, <1>6, <1>7, <1>8

-----------------------------------------------------------------------------
(***************************************************************************)
(* A pump forwards: the packet goes from what waits to the hand.           *)
(***************************************************************************)

\* Of what is in hand one packet comes after, and what waits is one less.
LEMMA HeadTaken ==
  ASSUME NEW P, NEW h \in Seq(P), NEW s \in Seq(P), s # <<>>
  PROVE  (h \o <<Head(s)>>) \o (<<>> \o Tail(s)) = h \o (<<>> \o s)
OBVIOUS

\* The packet a pump takes in hand was forwarded after the other one's.
LEMMA HandTaken ==
  ASSUME Core, NEW e \in Ends, held[e] = Nothing, NEW p \in Packets,
         held' = [held EXCEPT ![e] = p],
         ahead' = IF held[Other(e)] = Nothing THEN e ELSE ahead,
         UNCHANGED decoderVars
  PROVE  /\ OrderFits'
         /\ ~ muddled => InHand' = InHand \o <<p>>
         /\ ahead' # "overtaken" /\ held[Other(e)] # Nothing => ahead' = Other(e)
<1> DEFINE f == Other(e)
<1>1. f \in Ends /\ f # e /\ Other(f) = e /\ p # Nothing /\ (e = Client \/ e = Server)
  BY EndsFact, PacketsFact DEF Packets
<1>2. /\ DOMAIN held = Ends /\ held'[e] = p /\ held'[f] = held[f]
      /\ held[f] = Nothing \/ held[f] \in Packets
  BY <1>1, EndsFact DEF Core, Typed, Packets
<1>3. /\ held[f] # Nothing => ahead \in {f, "overtaken"}
      /\ ahead = "overtaken" => muddled
      /\ muddled \/ loginLost => disordered
  BY <1>1 DEF Core, OrderFits
<1>4. muddled' = muddled /\ loginLost' = loginLost /\ disordered' = disordered
  BY DEF decoderVars
<1>5. CASE held[f] = Nothing
  <2>1. ahead' = e /\ held'[f] = Nothing
    BY <1>2, <1>5
  <2>2. OrderFits'
    BY <1>1, <1>2, <1>3, <1>4, <2>1, EndsFact DEF OrderFits
  <2>3. InHand' = InHand \o <<p>>
    <3>1. Hand(f) = <<>> /\ Hand(e) = <<>> /\ Hand(f)' = <<>> /\ Hand(e)' = <<p>>
      BY <1>1, <1>2, <1>5, <2>1 DEF Hand
    <3>2. InHand = <<>> \o <<>>
      BY <1>1, <3>1, EndsFact DEF InHand
    <3>3. InHand' = <<p>> \o <<>>
      BY <1>1, <2>1, <3>1, EndsFact DEF InHand
    <3> QED
      BY <3>2, <3>3
  <2> QED
    BY <1>5, <2>2, <2>3
<1>6. CASE held[f] # Nothing
  <2>1. ahead' = ahead /\ ahead \in {f, "overtaken"}
    BY <1>3, <1>6
  <2>2. OrderFits'
    BY <1>1, <1>2, <1>3, <1>4, <1>6, <2>1, EndsFact DEF OrderFits
  <2>3. ASSUME ~ muddled PROVE InHand' = InHand \o <<p>>
    <3>1. ahead = f /\ ahead' = f
      BY <1>3, <2>1, <2>3
    <3>2. Hand(f) = <<held[f]>> /\ Hand(e) = <<>> /\ Hand(f)' = <<held[f]>> /\ Hand(e)' = <<p>>
      BY <1>1, <1>2, <1>6 DEF Hand
    <3>3. InHand = Hand(f) \o Hand(e)
      BY <1>1, <3>1, EndsFact DEF InHand
    <3>4. InHand' = Hand(f)' \o Hand(e)'
      BY <1>1, <3>1, EndsFact DEF InHand
    <3> QED
      BY <1>2, <1>6, <3>2, <3>3, <3>4
  <2> QED
    BY <2>1, <2>2, <2>3
<1> QED
  BY <1>5, <1>6

\* What is left of one packet is nothing.
LEMMA NoneLeft ==
  ASSUME NEW S, NEW rest \in Seq(S), NEW n \in Nat, Len(rest) = n - 1
  PROVE  n = 1 <=> rest = <<>>
<1>1. rest = <<>> <=> Len(rest) = 0
  OBVIOUS
<1> QED
  BY <1>1

\* What the client's pump or the server's has in hand is nothing while it reads.
LEMMA ServerForwardCore ==
  ASSUME Core, Holding, Forward(Server) PROVE Core'
<1> DEFINE q == sent[Server]
           p == Head(q)
           n == Len(q)
<1>1. /\ q # <<>> /\ held' = [held EXCEPT ![Server] = p]
      /\ sent' = [sent EXCEPT ![Server] = Tail(@)]
      /\ turn' = TurnAfter(p) /\ prepared' = prepared
      /\ ahead' = IF held[Other(Server)] = Nothing THEN Server ELSE ahead
      /\ deprecate' = deprecate /\ commands' = commands /\ UNCHANGED decoderVars
  BY EndsFact DEF Forward, TurnAfter
<1>2. held[Server] = Nothing
  BY EndsFact DEF Forward, Holding
<1>3. /\ q \in Seq(ServerPackets) /\ DOMAIN sent = Ends /\ DOMAIN held = Ends
      /\ sent[Client] \in Seq(ClientPackets)
      /\ turn = "nobody" /\ sent[Client] = <<>>
      /\ \A i \in 1..n : q[i].last <=> i = n
  BY <1>1 DEF Core, Typed, Dialog
<1>4. /\ n \in Nat /\ n > 0 /\ p = q[1] /\ p \in ServerPackets /\ p \in Packets
      /\ Tail(q) \in Seq(ServerPackets) /\ Len(Tail(q)) = n - 1
      /\ \A i \in 1..(n - 1) : Tail(q)[i] = q[i + 1]
  BY <1>1, <1>3 DEF Packets
<1>5. /\ sent'[Client] = <<>> /\ sent'[Server] = Tail(q) /\ DOMAIN sent' = Ends
      /\ held'[Client] = held[Client] /\ held'[Server] = p /\ DOMAIN held' = Ends
  BY <1>1, <1>3, EndsFact
<1> HIDE DEF p, q, n
<1>6. p.last <=> n = 1
  <2>1. 1 \in 1..n
    BY <1>4
  <2>2. q[1].last <=> 1 = n
    BY <1>3, <2>1
  <2> QED
    BY <1>4, <2>2
<1>7. turn' \in {"nobody", "login", "auth", Client} /\ (n # 1 => turn' = "nobody")
      /\ (n = 1 <=> Tail(q) = <<>>)
  <2>1. n = 1 <=> Tail(q) = <<>>
    BY <1>4, NoneLeft
  <2>2. turn' = TurnAfter(p)
    BY <1>1
  <2>3. TurnAfter(p) \in {"nobody", "login", "auth", Client} /\ (~ p.last => TurnAfter(p) = "nobody")
    BY <1>3 DEF TurnAfter
  <2> QED
    BY <1>6, <2>1, <2>2, <2>3
<1>8. Coming' = Coming
  <2>1. Coming = TurnAfter(q[n])
    BY <1>1 DEF Coming, q, n
  <2>2. CASE n = 1
    <3>1. Coming' = turn'
      BY <1>5, <1>7, <2>2 DEF Coming
    <3> QED
      BY <1>1, <1>4, <2>1, <2>2, <3>1
  <2>3. CASE n # 1
    <3>1. n - 1 \in 1..(n - 1) /\ (n - 1) + 1 = n
      BY <1>4, <2>3
    <3>2. sent'[Server] # <<>> /\ sent'[Server][Len(sent'[Server])] = q[n]
      BY <1>4, <1>5, <1>7, <2>3, <3>1
    <3>3. turn' = turn /\ commands' = commands
      BY <1>1, <1>3, <1>7, <2>3
    <3> QED
      BY <2>1, <3>2, <3>3 DEF Coming, TurnAfter
  <2> QED
    BY <2>2, <2>3
<1>9. Final' = Final
  BY <1>1, <1>3, <1>5, <1>8, FinalStill
<1>10. OrderFits' /\ (~ muddled => InHand' = InHand \o <<p>>)
       /\ (ahead' # "overtaken" /\ held[Client] # Nothing => ahead' = Client)
  BY <1>1, <1>2, <1>4, HandTaken, EndsFact
<1>11. InStep'
  <2>1. CASE muddled \/ loginLost
    BY <1>1, <2>1 DEF InStep, decoderVars
  <2>2. CASE ~ muddled /\ ~ loginLost
    <3>1. Leads({Now}, Pending, Final)
      BY <2>2 DEF Core, InStep
    <3>2. Now' = Now
      BY <1>1 DEF Now, decoderVars
    <3>3. Pending' = (InHand \o <<p>>) \o (<<>> \o Tail(q))
      BY <1>5, <1>10, <2>2 DEF Pending, Waiting
    <3>4. Pending = InHand \o (<<>> \o q)
      BY <1>3 DEF Pending, Waiting, q
    <3>5. InHand \in Seq(Packets) /\ q \in Seq(Packets)
      BY PartsTyped DEF Core, q
    <3>6. Pending' = Pending
      <4>1. p = Head(q) /\ q # <<>>
        BY <1>1 DEF p
      <4> QED
        BY <3>3, <3>4, <3>5, <4>1, HeadTaken
    <3> QED
      BY <1>1, <1>9, <3>1, <3>2, <3>6, InStepNext
  <2> QED
    BY <2>1, <2>2
<1>12. Recovers'
  <2>1. held'[Server] # Nothing
    BY <1>4, <1>5, PacketsFact
  <2>2. ahead' # "overtaken" /\ held'[Client] # Nothing => ahead' # Server
    BY <1>5, <1>10, EndsFact
  <2> QED
    BY <2>1, <2>2, EndsFact DEF Recovers
<1>13. Typed'
  BY <1>1, <1>4, <1>5, <1>7, EndsFact DEF Core, Typed, decoderVars
<1>14. Dialog'
  <2>1. \A i \in 1..Len(sent'[Server]) : sent'[Server][i].last <=> i = Len(sent'[Server])
    <3> SUFFICES ASSUME NEW i \in 1..(n - 1) PROVE Tail(q)[i].last <=> i = n - 1
      BY <1>4, <1>5
    <3>1. i + 1 \in 1..n /\ Tail(q)[i] = q[i + 1]
      BY <1>4
    <3>2. q[i + 1].last <=> i + 1 = n
      BY <1>3, <3>1
    <3> QED
      BY <1>4, <3>1, <3>2
  <2>2. sent'[Client] = <<>>
    BY <1>5
  <2>3. turn' # "nobody" => sent'[Server] = <<>>
    BY <1>5, <1>7
  <2> QED
    BY <2>1, <2>2, <2>3 DEF Dialog
<1>15. Phases' /\ IdsFit' /\ LoginKnown'
  BY <1>1, <1>3, <1>5, <1>8, EndsFact DEF Core, Phases, IdsFit, LoginKnown, decoderVars
<1> QED
  BY <1>10, <1>11, <1>12, <1>13, <1>14, <1>15 DEF Core

\* Nothing is in the empty sequence.
LEMMA EmptyFact == Len(<<>>) = 0 /\ \A i \in 1..Len(<<>>) : FALSE
OBVIOUS

\* What the server answers leads on to what whoever speaks next counts on.
LEMMA AnswerSent ==
  ASSUME WireAssumption, Core, sent[Client] # <<>>, NEW a \in Answers(Head(sent[Client])),
         deprecate' = deprecate, commands' = commands, turn' = turn,
         sent'[Client] = Tail(sent[Client]), sent'[Server] = sent[Server] \o Ended(a),
         prepared' = IF a # <<>> /\ "id" \in DOMAIN Head(a)
                     THEN Append(prepared, Head(sent[Client]).sql) ELSE prepared
  PROVE  /\ Leads(Final, sent'[Server], Final') /\ sent[Server] = <<>>
         /\ sent'[Server] \in Seq(ServerPackets) /\ prepared' \in Seq(Texts)
         /\ Dialog' /\ IdsFit'
         /\ Coming # "login" /\ Coming' # "login"
         /\ commands > 0 => Coming' \in {Client, "nobody"}
<1> DEFINE q == sent[Client]
           p == Head(q)
           n == Len(q)
<1>1. /\ q \in Seq(ClientPackets) /\ q # <<>> /\ sent[Server] = <<>>
      /\ turn \in {"nobody", Client} /\ prepared \in Seq(Texts)
      /\ deprecate \in BOOLEAN /\ commands \in Nat
      /\ \A i \in 1..n : q[i].is = "COM_STMT_CLOSE" <=> (turn = Client \/ i < n)
  BY DEF Core, Typed, Dialog
<1>2. /\ n \in Nat /\ n > 0 /\ p = q[1] /\ p \in ClientPackets /\ 1 \in 1..n
      /\ Tail(q) \in Seq(ClientPackets) /\ Len(Tail(q)) = n - 1
      /\ \A i \in 1..(n - 1) : Tail(q)[i] = q[i + 1]
      /\ n = 1 => Tail(q) = <<>>
  BY <1>1
<1>3. /\ a \in Answers(p) /\ sent'[Client] = Tail(q) /\ sent'[Server] = <<>> \o Ended(a)
      /\ prepared' = IF a # <<>> /\ "id" \in DOMAIN Head(a)
                     THEN Append(prepared, p.sql) ELSE prepared
  BY <1>1
<1>4. /\ Coming = turn /\ Asking = q[n]
      /\ commands <= MaxCommands /\ Len(prepared) <= commands
      /\ Asking.is = "COM_STMT_PREPARE" => Len(prepared) < commands
  BY <1>1 DEF Coming, Asking, Core, IdsFit
<1>5. commands > 0 => Coming \in {Client, "nobody"}
  BY DEF Core, Phases
<1>6. CASE a = <<>>
  <2>1. sent'[Server] = <<>> /\ prepared' = prepared /\ prepared' \in Seq(Texts)
    BY <1>1, <1>3, <1>6 DEF Ended
  <2>2. Coming' = turn
    BY <1>1, <2>1 DEF Coming
  <2>3. n > 1 => sent'[Client] # <<>> /\ Asking' = Asking
    <3> SUFFICES ASSUME n > 1 PROVE sent'[Client] # <<>> /\ Asking' = Asking
      OBVIOUS
    <3> DEFINE j == n - 1
    <3>1. j \in 1..(n - 1) /\ j + 1 = n /\ j = Len(Tail(q)) /\ j > 0
      BY <1>2
    <3>2. Tail(q)[j] = q[n] /\ Tail(q) # <<>>
      BY <1>2, <3>1
    <3>3. sent'[Client] # <<>> /\ sent'[Client][Len(sent'[Client])] = q[n]
      BY <1>3, <3>1, <3>2
    <3> HIDE DEF q, n
    <3> QED
      BY <1>4, <3>3 DEF Asking
  <2>4. n = 1 => sent'[Client] = <<>>
    BY <1>2, <1>3
  <2>5. Dialog'
    <3>1. \A i \in 1..Len(sent'[Client]) :
            sent'[Client][i].is = "COM_STMT_CLOSE" <=> (turn' = Client \/ i < Len(sent'[Client]))
      <4> SUFFICES ASSUME NEW i \in 1..(n - 1)
                   PROVE  Tail(q)[i].is = "COM_STMT_CLOSE" <=> (turn = Client \/ i < n - 1)
        BY <1>2, <1>3
      <4>1. i + 1 \in 1..n /\ Tail(q)[i] = q[i + 1]
        BY <1>2
      <4>2. q[i + 1].is = "COM_STMT_CLOSE" <=> (turn = Client \/ i + 1 < n)
        BY <1>1, <4>1
      <4>3. i + 1 < n <=> i < n - 1
        BY <1>2
      <4> QED
        BY <4>1, <4>2, <4>3
    <3> HIDE DEF q, p, n
    <3> QED
      BY <1>1, <2>1, <3>1, EndsFact, SMTT(60) DEF Dialog
  <2>6. IdsFit'
    <3>1. Asking'.is = "COM_STMT_PREPARE" /\ sent'[Client] # <<>> => Len(prepared) < commands
      BY <1>2, <1>4, <2>3, <2>4
    <3> HIDE DEF q, p, n
    <3> QED
      BY <1>4, <2>1, <3>1 DEF IdsFit
  <2>7. Final \subseteq Final'
    <3>1. CASE turn = Client
      <4>1. Final = Idle(prepared)
        BY <1>4, <3>1, FinalNow
      <4>2. Final' = Idle(prepared)
        BY <2>1, <2>2, <3>1, FinalNext
      <4> QED
        BY <4>1, <4>2
    <3>2. CASE turn = "nobody" /\ n = 1
      <4>1. Final' = States
        BY <2>1, <2>2, <2>4, <3>2, FinalNext
      <4> QED
        BY <4>1, FinalStates
    <3>3. CASE turn = "nobody" /\ n > 1
      <4>1. Final' = Before(Asking, prepared)
        BY <2>1, <2>2, <2>3, <3>3, FinalNext
      <4>2. Final = Before(Asking, prepared)
        BY <1>1, <1>4, <3>3, FinalNow
      <4> QED
        BY <4>1, <4>2
    <3>4. turn = Client \/ (turn = "nobody" /\ (n = 1 \/ n > 1))
      <4>1. turn = Client \/ turn = "nobody"
        BY <1>1
      <4>2. n \in Nat /\ n > 0
        BY <1>2
      <4> HIDE DEF n, p, q
      <4> QED
        BY <4>1, <4>2
    <3> QED
      BY <3>1, <3>2, <3>3, <3>4
  <2>8. Leads(Final, sent'[Server], Final')
    <3>1. Len(sent'[Server]) = 0
      BY <2>1
    <3> QED
      BY <2>7, <3>1, LeadsNowhere
  <2>9. sent'[Server] \in Seq(ServerPackets)
    BY <2>1
  <2> QED
    BY <1>1, <1>4, <1>5, <2>1, <2>2, <2>5, <2>6, <2>8, <2>9, EndsFact
<1>7. CASE a # <<>>
  <2>1. p.is # "COM_STMT_CLOSE"
    <3>1. p.is = "COM_STMT_CLOSE" => Answers(p) = {<<>>}
      BY DEF Answers
    <3> HIDE DEF p
    <3> QED
      BY <1>3, <1>7, <3>1
  <2>2. n = 1 /\ turn = "nobody" /\ Asking = p
    <3>1. ~ (turn = Client \/ 1 < n)
      BY <1>1, <1>2, <2>1
    <3>2. n = 1 /\ turn = "nobody"
      <4>1. turn = Client \/ turn = "nobody"
        BY <1>1
      <4>2. n \in Nat /\ n > 0
        BY <1>2
      <4> HIDE DEF n, p, q
      <4> QED
        BY <3>1, <4>1, <4>2
    <3>3. Asking = q[n] /\ p = q[1]
      BY <1>2, <1>4
    <3> HIDE DEF n, p, q
    <3> QED
      BY <3>2, <3>3
  <2>3. Final = Before(p, prepared)
    BY <1>1, <1>4, <2>2, FinalNow
  <2> DEFINE known == IF "id" \in DOMAIN Head(a) THEN Append(prepared, p.sql) ELSE prepared
             s == Ended(a)
  <2>4. p \in Orders \union Authentications
        /\ (p.is = "COM_STMT_PREPARE" => Len(prepared) < MaxCommands)
    <3>1. Len(prepared) \in Nat /\ MaxCommands \in Nat
      BY <1>1 DEF WireAssumption
    <3> QED
      BY <1>1, <1>2, <1>4, <2>2, <3>1 DEF ClientPackets
  <2>5. /\ a \in Seq(Parts(Replies))
        /\ "id" \in DOMAIN Head(a) => p.is = "COM_STMT_PREPARE"
        /\ a[Len(a)].is = "AuthMoreData" => Leads(Before(p, prepared), a, Joining(known))
        /\ a[Len(a)].is # "AuthMoreData" => Leads(Before(p, prepared), a, Idle(known))
        /\ p.start => a[Len(a)].is # "AuthMoreData"
    <3> HIDE DEF p
    <3> QED
      BY <1>1, <1>3, <1>7, <2>4, AnswerRead
  <2>6. prepared' = known
    BY <1>3, <1>7
  <2>7. /\ s \in Seq(Replies) /\ Len(s) = Len(a)
        /\ \A i \in 1..Len(a) : s[i].is = a[i].is /\ (s[i].last <=> i = Len(a))
        /\ \A S, T : Leads(S, a, T) => Leads(S, s, T)
    BY <1>7, <2>5, EndedRead
  <2>8. known \in Seq(Texts) /\ ("id" \in DOMAIN Head(a) => Len(known) = Len(prepared) + 1)
        /\ ("id" \notin DOMAIN Head(a) => known = prepared)
    <3>1. "id" \in DOMAIN Head(a) => p.sql \in Texts
      BY <2>4, <2>5 DEF Orders, Authentications
    <3> HIDE DEF p
    <3> QED
      BY <1>1, <3>1
  <2> HIDE DEF known, s
  <2>9. s # <<>> /\ Len(a) \in 1..Len(a) /\ s[Len(a)].last /\ s[Len(a)].is = a[Len(a)].is
    <3>1. Len(a) \in 1..Len(a)
      BY <1>7, <2>5
    <3> QED
      BY <2>7, <3>1
  <2>10. sent'[Server] = s /\ sent'[Client] = <<>>
    <3>1. <<>> \o s = s
      BY <2>7
    <3> QED
      BY <1>2, <1>3, <2>2, <3>1 DEF s
  <2>11. s[Len(a)].is # "ServerGreeting"
    <3>1. s[Len(a)] \in Replies
      BY <2>7, <2>9
    <3> QED
      BY <3>1 DEF Replies, Responses, Outcomes, Simple, Headers, PrepareOKs, Demands
  <2>12. Coming' = CASE a[Len(a)].is = "AuthMoreData" -> "auth"
                     [] a[Len(a)].is # "AuthMoreData" /\ a[Len(a)].is = "ERR" /\ commands = 0 ->
                          "nobody"
                     [] OTHER -> Client
    <3>1. Coming' = TurnAfter(s[Len(a)])'
      BY <2>7, <2>9, <2>10 DEF Coming
    <3>2. TurnAfter(s[Len(a)])' = CASE s[Len(a)].is = "AuthMoreData" -> "auth"
                                    [] s[Len(a)].is = "ERR" /\ commands = 0 -> "nobody"
                                    [] OTHER -> Client
      BY <2>2, <2>9, <2>11 DEF TurnAfter
    <3> QED
      BY <2>9, <3>1, <3>2
  <2>13. Leads(Final, sent'[Server], Final')
    <3>1. CASE a[Len(a)].is = "AuthMoreData"
      <4>1. Final' = Joining(known)
        BY <2>6, <2>12, <3>1, FinalNext
      <4> QED
        BY <2>3, <2>5, <2>7, <2>10, <3>1, <4>1
    <3>2. CASE a[Len(a)].is # "AuthMoreData"
      <4>1. Leads(Final, s, Idle(known))
        BY <2>3, <2>5, <2>7, <3>2
      <4>2. CASE Coming' = "nobody"
        <5>1. Final' = States
          BY <2>6, <2>10, <4>2, FinalNext
        <5> QED
          BY <2>10, <4>1, <5>1, SetsAreStates, LeadsInto
      <4>3. CASE Coming' = Client
        <5>1. Final' = Idle(known)
          BY <2>6, <4>3, FinalNext
        <5> QED
          BY <2>10, <4>1, <5>1
      <4> QED
        BY <2>12, <3>2, <4>2, <4>3
    <3> QED
      BY <3>1, <3>2
  <2>14. Dialog'
    <3>1. \A i \in 1..Len(s) : s[i].last <=> i = Len(s)
      BY <2>7
    <3>2. turn' = "nobody"
      BY <2>2
    <3>3. \A i \in 1..Len(sent'[Client]) : FALSE
      <4> DEFINE u == sent'[Client]
      <4>1. u = <<>>
        BY <2>10
      <4> HIDE DEF u
      <4>2. \A i \in 1..Len(u) : FALSE
        BY <4>1, EmptyFact
      <4> QED
        BY <4>2 DEF u
    <3>4. \A i \in 1..Len(sent'[Server]) : sent'[Server][i].last <=> i = Len(sent'[Server])
      BY <2>10, <3>1
    <3> HIDE DEF q, p, n
    <3> QED
      BY <2>10, <3>2, <3>3, <3>4, EndsFact DEF Dialog
  <2>15. IdsFit'
    <3>1. Len(known) <= commands
      <4>1. p.is = "COM_STMT_PREPARE" => Len(prepared) < commands
        BY <1>4, <2>2
      <4>2. Len(prepared) \in Nat
        BY <1>1
      <4> HIDE DEF p, q, n
      <4> QED
        BY <1>1, <1>4, <2>5, <2>8, <4>1, <4>2
    <3> HIDE DEF q, p, n
    <3> QED
      BY <1>4, <2>6, <2>10, <3>1 DEF IdsFit
  <2>16. commands > 0 => Coming' \in {Client, "nobody"}
    <3>1. commands > 0 => q[n].start
      BY <1>2, <2>2 DEF Core, Phases
    <3> HIDE DEF q, p, n
    <3> QED
      BY <1>2, <2>2, <2>5, <2>12, <3>1
  <2>17. Coming # "login" /\ Coming' # "login"
    BY <1>4, <2>2, <2>12, EndsFact
  <2>18. sent'[Server] \in Seq(ServerPackets) /\ prepared' \in Seq(Texts)
    <3>1. Replies \subseteq ServerPackets
      BY DEF ServerPackets
    <3>2. s \in Seq(ServerPackets)
      BY <2>7, <3>1
    <3> HIDE DEF q, p, n
    <3> QED
      BY <2>6, <2>8, <2>10, <3>2
  <2> QED
    BY <1>1, <2>13, <2>14, <2>15, <2>16, <2>17, <2>18
<1> QED
  BY <1>6, <1>7

\* The client's pump forwards, and the server answers.
LEMMA ClientForwardCore ==
  ASSUME WireAssumption, Core, Holding, Forward(Client) PROVE Core'
<1> DEFINE q == sent[Client]
           p == Head(q)
           n == Len(q)
<1>1. PICK a \in Answers(p) :
        /\ q # <<>> /\ held' = [held EXCEPT ![Client] = p]
        /\ sent' = [[sent EXCEPT ![Client] = Tail(@)] EXCEPT ![Server] = @ \o Ended(a)]
        /\ prepared' = IF a # <<>> /\ "id" \in DOMAIN Head(a)
                       THEN Append(prepared, p.sql) ELSE prepared
        /\ turn' = turn
        /\ ahead' = IF held[Other(Client)] = Nothing THEN Client ELSE ahead
        /\ deprecate' = deprecate /\ commands' = commands /\ UNCHANGED decoderVars
  <2>1. <<>> \in Answers(p)
    BY DEF Answers
  <2> QED
    BY <2>1, EndsFact DEF Forward
<1>2. held[Client] = Nothing
  BY EndsFact DEF Forward, Holding
<1>3. /\ q \in Seq(ClientPackets) /\ DOMAIN sent = Ends /\ DOMAIN held = Ends
      /\ deprecate \in BOOLEAN /\ commands \in Nat
  BY DEF Core, Typed
<1>4. /\ n \in Nat /\ n > 0 /\ p = q[1] /\ p \in ClientPackets /\ p \in Packets /\ 1 \in 1..n
      /\ Tail(q) \in Seq(ClientPackets) /\ Len(Tail(q)) = n - 1
      /\ \A i \in 1..(n - 1) : Tail(q)[i] = q[i + 1] /\ i + 1 \in 1..n
  BY <1>1, <1>3 DEF Packets
<1>5. /\ sent'[Client] = Tail(q) /\ sent'[Server] = sent[Server] \o Ended(a)
      /\ DOMAIN sent' = Ends
      /\ held'[Server] = held[Server] /\ held'[Client] = p /\ DOMAIN held' = Ends
  BY <1>1, <1>3, EndsFact
<1>6. /\ Leads(Final, sent'[Server], Final') /\ sent[Server] = <<>>
      /\ sent'[Server] \in Seq(ServerPackets) /\ prepared' \in Seq(Texts)
      /\ Dialog' /\ IdsFit'
      /\ Coming # "login" /\ Coming' # "login"
      /\ commands > 0 => Coming' \in {Client, "nobody"}
  BY <1>1, <1>5, AnswerSent
<1> HIDE DEF p, q, n
<1>7. OrderFits' /\ (~ muddled => InHand' = InHand \o <<p>>)
       /\ (ahead' # "overtaken" /\ held[Server] # Nothing => ahead' = Server)
  BY <1>1, <1>2, <1>4, HandTaken, EndsFact
<1>8. InStep'
  <2>1. CASE muddled \/ loginLost
    BY <1>1, <2>1 DEF InStep, decoderVars
  <2>2. CASE ~ muddled /\ ~ loginLost
    <3> DEFINE s == sent'[Server]
    <3>1. Leads({Now}, Pending, Final)
      BY <2>2 DEF Core, InStep
    <3>2. Now' = Now
      BY <1>1 DEF Now, decoderVars
    <3>3. Pending' = (InHand \o <<p>>) \o (Tail(q) \o s)
      BY <1>5, <1>7, <2>2 DEF Pending, Waiting
    <3>4. Pending = InHand \o (q \o <<>>)
      BY <1>6 DEF Pending, Waiting, q
    <3>5. InHand \in Seq(Packets) /\ q \in Seq(Packets) /\ s \in Seq(Packets)
          /\ Pending \in Seq(Packets)
      BY <1>6, PartsTyped DEF Core, q, Packets
    <3>6. Leads(Final, s, Final')
      BY <1>6
    <3> HIDE DEF s
    <3>7. Pending' = Pending \o s
      <4>1. p = Head(q) /\ q # <<>>
        BY <1>1 DEF p
      <4>2. PICK h, r, t : h = InHand /\ r = q /\ t = s
        OBVIOUS
      <4>3. h \in Seq(Packets) /\ r \in Seq(Packets) /\ t \in Seq(Packets) /\ r # <<>>
        BY <3>5, <4>1, <4>2
      <4>4. (h \o <<Head(r)>>) \o (Tail(r) \o t) = (h \o (r \o <<>>)) \o t
        <5> DEFINE a1 == h \o <<Head(r)>>
                   b1 == Tail(r)
        <5>1. a1 \in Seq(Packets) /\ b1 \in Seq(Packets)
          BY <4>3
        <5>2. a1 \o b1 = h \o (r \o <<>>)
          BY <4>3
        <5> HIDE DEF a1, b1
        <5>3. a1 \o (b1 \o t) = (a1 \o b1) \o t
          BY <4>3, <5>1
        <5> QED
          BY <5>2, <5>3 DEF a1, b1
      <4> QED
        BY <3>3, <3>4, <4>1, <4>2, <4>4
    <3>8. Leads({Now}, Pending \o s, Final')
      BY <3>1, <3>5, <3>6, LeadsAcross
    <3> QED
      BY <1>1, <3>2, <3>7, <3>8, InStepNext
  <2> QED
    BY <2>1, <2>2
<1>9. commands = 0 => ~ p.start
  BY <1>4 DEF Core, Phases, q, n
<1>10. Recovers'
  <2> SUFFICES ASSUME p.start, sent'[Client] = <<>> PROVE Recovers'
    BY <1>5, EndsFact DEF Recovers
  <2>1. q = <<p>>
    <3>1. n = 1
      BY <1>4, <1>5
    <3> QED
      BY <1>3, <1>4, <3>1 DEF n
  <2>2. commands > 0
    BY <1>3, <1>9
  <2>3. Leads(Unsure, <<p>>, Final)
    BY <1>1, <2>1, <2>2, QueueRead DEF q
  <2>4. <<p>> \in Seq(Packets) /\ sent'[Server] \in Seq(Packets)
    BY <1>4, <1>6 DEF Packets
  <2>5. Leads(Unsure, <<p>> \o sent'[Server], Final')
    BY <1>6, <2>3, <2>4, LeadsAcross
  <2> QED
    BY <1>1, <1>5, <2>5, RecoversNext
<1>11. Typed'
  BY <1>1, <1>4, <1>5, <1>6, EndsFact DEF Core, Typed, decoderVars
<1>12. \A i \in 1..Len(sent'[Client]) : \E j \in 1..n : sent'[Client][i] = q[j]
  BY <1>4, <1>5
<1>13. Phases'
  <2>1. /\ commands = 0 => \A i \in 1..n : ~ q[i].start
        /\ commands > 0 => \A i \in 1..n : q[i].start
    BY DEF Core, Phases, q, n
  <2>2. /\ commands = 0 => \A i \in 1..Len(sent'[Client]) : ~ sent'[Client][i].start
        /\ commands > 0 => \A i \in 1..Len(sent'[Client]) : sent'[Client][i].start
    BY <1>12, <2>1
  <2> QED
    BY <1>1, <1>5, <1>6, <1>9, <2>2 DEF Phases
<1>14. LoginKnown'
  <2> SUFFICES ASSUME /\ ~ loginLost'
                      /\ held'[Client] # Nothing => held'[Client].is # "HandshakeResponse"
                      /\ \A i \in 1..Len(sent'[Client]) :
                           sent'[Client][i].is # "HandshakeResponse"
               PROVE  decoder'.deprecate = deprecate'
    BY DEF LoginKnown
  <2>1. p.is # "HandshakeResponse"
    BY <1>4, <1>5, PacketsFact
  <2>2. \A i \in 1..n : q[i].is # "HandshakeResponse"
    <3> SUFFICES ASSUME NEW i \in 1..n PROVE q[i].is # "HandshakeResponse"
      OBVIOUS
    <3>1. CASE i = 1
      BY <1>4, <2>1, <3>1
    <3>2. CASE i # 1
      <4> DEFINE j == i - 1
      <4>1. j \in 1..(n - 1) /\ j + 1 = i
        BY <1>4, <3>2
      <4>2. j \in 1..Len(sent'[Client]) /\ sent'[Client][j] = q[i]
        BY <1>4, <1>5, <4>1
      <4> QED
        BY <4>2
    <3> QED
      BY <3>1, <3>2
  <2>3. decoder.deprecate = deprecate
    BY <1>1, <1>2, <1>6, <2>2 DEF Core, LoginKnown, decoderVars, q, n
  <2> QED
    BY <1>1, <2>3 DEF decoderVars
<1> QED
  BY <1>6, <1>7, <1>8, <1>10, <1>11, <1>13, <1>14 DEF Core

-----------------------------------------------------------------------------
(***************************************************************************)
(* A pump decodes what it has in hand.                                     *)
(***************************************************************************)

\* What is decoded is read, by the pump of the end it comes from.
LEMMA DecodedIsReads ==
  ASSUME NEW e \in Ends, NEW p, From(p) = e
  PROVE  /\ Decoded(e, p) = Reads(decoder, p)
         /\ (e = Client /\ p.start /\ ~ decoder.handshake) <=> Starts(decoder, p)
BY EndsFact DEF Decoded, Reads, Starts

\* A packet is the next to decode when it was forwarded before the other one.
LEMMA HandFirst ==
  ASSUME Core, NEW e \in Ends, held[e] # Nothing,
         held[Other(e)] = Nothing \/ ahead = e, ahead # "overtaken"
  PROVE  /\ ahead = e /\ InHand = <<held[e]>> \o Hand(Other(e))
<1> DEFINE f == Other(e)
<1>1. f \in Ends /\ f # e /\ (e = Client \/ e = Server)
  BY EndsFact
<1>2. ahead = e
  BY <1>1 DEF Core, OrderFits
<1>3. Hand(e) = <<held[e]>>
  BY DEF Hand
<1>4. InHand = Hand(e) \o Hand(f)
  BY <1>1, <1>2, EndsFact DEF InHand
<1> QED
  BY <1>2, <1>3, <1>4

\* Decoded by itself, a command is read in any state the decoder may be in.
LEMMA AloneRead ==
  ASSUME Core, held[Client] # Nothing, held[Client].start, held[Server] = Nothing,
         ahead # "overtaken", muddled, ~ loginLost, ~ decoder.handshake
  PROVE  /\ Right(Now, held[Client])
         /\ Leads({After(Now, held[Client])}, Waiting, Final)
         /\ disordered
<1> DEFINE p == held[Client]
<1>1. /\ p \in ClientPackets /\ p \in Orders /\ p.is # "HandshakeResponse"
      /\ deprecate \in BOOLEAN /\ decoder \in Decoders /\ derailed \in BOOLEAN
      /\ sent[Client] \in Seq(ClientPackets) /\ sent[Server] \in Seq(ServerPackets)
      /\ commands \in Nat
  <2>1. p \in ClientPackets
    BY DEF Core, Typed
  <2>2. p \in Orders
    BY <2>1, PacketsFact
  <2>3. p.is # "HandshakeResponse"
    BY <2>2 DEF Orders, Commands
  <2> QED
    BY <2>1, <2>2, <2>3 DEF Core, Typed
<1>2. commands > 0
  BY <1>1 DEF Core, Phases
<1>3. disordered
  BY DEF Core, OrderFits
<1>4. decoder.deprecate = deprecate
  <2>1. Coming \in {Client, "nobody"} /\ \A i \in 1..Len(sent[Client]) : sent[Client][i].start
    BY <1>2 DEF Core, Phases
  <2>2. \A i \in 1..Len(sent[Client]) : sent[Client][i].is # "HandshakeResponse"
    BY <1>1, <2>1, PacketsFact DEF Commands
  <2> QED
    BY <1>1, <2>1, <2>2, EndsFact DEF Core, LoginKnown
<1> DEFINE x == Now
<1>5. x \in Unsure
  <2>1. x \in States /\ x.d = decoder /\ ~ x.sure
    BY <1>1, <1>3 DEF Now, States
  <2> HIDE DEF x
  <2> QED
    BY <1>4, <2>1 DEF Unsure
<1> HIDE DEF x, p
<1>6. Right(x, p) /\ After(x, p) \in Unsure
  BY <1>1, <1>5, UnsureRead
<1>7. Leads({After(x, p)}, Waiting, Final)
  <2>1. CASE sent[Client] = <<>>
    <3>1. Leads(Unsure, <<p>> \o sent[Server], Final)
      BY <2>1 DEF Core, Recovers, p
    <3> DEFINE q == <<p>> \o sent[Server]
    <3>2. q \in Seq(Packets) /\ q # <<>> /\ Head(q) = p /\ Tail(q) = sent[Server]
      <4>1. p \in Packets /\ sent[Server] \in Seq(Packets)
        BY <1>1, PartsTyped DEF Packets, Core
      <4> QED
        BY <4>1
    <3>3. Leads(Unsure, q, Final)
      BY <3>1
    <3> HIDE DEF q
    <3>4. Leads({After(x, p)}, sent[Server], Final)
      BY <1>5, <3>2, <3>3, LeadsPast
    <3>5. Waiting = sent[Server]
      BY <1>1, <2>1 DEF Waiting
    <3> QED
      BY <3>4, <3>5
  <2>2. CASE sent[Client] # <<>>
    <3>1. Leads(Unsure, sent[Client], Final)
      BY <1>2, <2>2, QueueRead
    <3>2. Waiting = sent[Client]
      <4>1. sent[Server] = <<>>
        BY <2>2 DEF Core, Dialog
      <4> QED
        BY <1>1, <4>1 DEF Waiting
    <3>3. {After(x, p)} \subseteq Unsure
      BY <1>6
    <3> QED
      BY <3>1, <3>2, <3>3, LeadsInto
  <2> QED
    BY <2>1, <2>2
<1> QED
  BY <1>3, <1>6, <1>7 DEF x, p

\* In order a packet is read right, and the rest is read from what it leads to.
LEMMA InOrderRead ==
  ASSUME Core, NEW e \in Ends, held[e] # Nothing, ~ muddled, ~ loginLost,
         held[Other(e)] = Nothing \/ ahead = e
  PROVE  /\ Right(Now, held[e])
         /\ Leads({After(Now, held[e])}, Hand(Other(e)) \o Waiting, Final)
<1> DEFINE p == held[e]
           h == Hand(Other(e))
           q == <<p>> \o (h \o Waiting)
<1>1. ahead # "overtaken"
  BY DEF Core, OrderFits
<1>2. InHand = <<p>> \o h
  BY <1>1, HandFirst
<1>3. p \in Packets /\ h \in Seq(Packets) /\ Waiting \in Seq(Packets)
  BY PartsTyped, EndsFact DEF Core, Typed, Packets
<1>4. Leads({Now}, Pending, Final)
  BY DEF Core, InStep
<1> HIDE DEF p, h
<1>5. Pending = q
  BY <1>2, <1>3 DEF Pending
<1>6. q \in Seq(Packets) /\ q # <<>> /\ Head(q) = p /\ Tail(q) = h \o Waiting
  BY <1>3
<1> HIDE DEF q
<1>7. Leads({Now}, q, Final)
  BY <1>4, <1>5
<1>8. Right(Now, p) /\ Leads({After(Now, p)}, h \o Waiting, Final)
  <2>1. Now \in {Now}
    OBVIOUS
  <2>2. Right(Now, Head(q)) /\ Leads({After(Now, Head(q))}, Tail(q), Final)
    BY <1>6, <1>7, <2>1, LeadsPast
  <2> QED
    BY <1>6, <2>2
<1> QED
  BY <1>8 DEF p, h

\* A packet that is decoded keeps the invariant, and its event is right.
LEMMA DecodeCore ==
  ASSUME Core, Holding, NEW e \in Ends, Decode(e)
  PROVE  /\ Core' /\ held[e] # Nothing
         /\ event'[e].followed =>
              event'[e].kind = IF event'[e].stray THEN "Unsolicited" ELSE event'[e].is
         /\ event'[e].inOrder => event'[e].sql = event'[e].true
         /\ event' = [event EXCEPT ![e] = event'[e]]
         /\ pump' = [pump EXCEPT ![e] = "emit"] /\ held' = [held EXCEPT ![e] = Nothing]
<1> DEFINE p == held[e]
           f == Other(e)
           step == Decoded(e, p)
           alone == held[f] = Nothing
           starts == e = Client /\ p.start /\ ~ decoder.handshake
           s == [is |-> p.is, kind |-> step.kind, sql |-> step.sql,
                 followed |-> ~ (muddled' \/ loginLost'),
                 stray |-> derailed /\ e = Server /\ p.is # "ERR",
                 inOrder |-> ~ disordered',
                 true |-> IF "sql" \in DOMAIN p /\ p.is # "COM_STMT_CLOSE"
                          THEN p.sql ELSE NoSQL]
<1>1. /\ pump[e] = "decode" /\ decoder' = step.decoder
      /\ held' = [held EXCEPT ![e] = Nothing]
      /\ ahead' = CASE alone -> "nobody"
                    [] ~ alone /\ ahead = e -> f
                    [] OTHER -> "overtaken"
      /\ muddled' = CASE ~ alone /\ ahead # e -> TRUE
                      [] alone /\ starts /\ ahead # "overtaken" -> FALSE
                      [] OTHER -> muddled
      /\ disordered' = (disordered \/ muddled')
      /\ loginLost' = (loginLost \/ (p.is = "HandshakeResponse" /\ step.kind # p.is /\ deprecate))
      /\ derailed' = CASE p.is = "EndOfRows" /\ p.more /\ ~ deprecate -> TRUE
                       [] starts -> FALSE
                       [] OTHER -> derailed
      /\ event' = [event EXCEPT ![e] = s]
      /\ pump' = [pump EXCEPT ![e] = "emit"]
      /\ deprecate' = deprecate /\ turn' = turn /\ commands' = commands
      /\ prepared' = prepared /\ sent' = sent
  BY DEF Decode, peerVars
<1>2. held[e] # Nothing /\ DOMAIN event = Ends
  BY <1>1 DEF Holding
<1>3. /\ DOMAIN held = Ends /\ f \in Ends /\ f # e /\ Other(f) = e
      /\ (e = Client \/ e = Server)
      /\ e = Client => p \in ClientPackets
      /\ e = Server => p \in ServerPackets
      /\ p \in ClientPackets \union ServerPackets
      /\ From(p) = e
      /\ deprecate \in BOOLEAN /\ decoder \in Decoders /\ derailed \in BOOLEAN
      /\ muddled \in BOOLEAN /\ disordered \in BOOLEAN /\ loginLost \in BOOLEAN
  BY <1>2, EndsFact, PacketsFact DEF Core, Typed
<1>4. step = Reads(decoder, p) /\ (starts <=> Starts(decoder, p))
  BY <1>3, DecodedIsReads
<1>5. held'[e] = Nothing /\ held'[f] = held[f] /\ DOMAIN held' = Ends
  BY <1>1, <1>3
<1>6. event'[e] = s
  BY <1>1, <1>2
<1> HIDE DEF step, starts, p, f, s
<1>7. /\ decoder' \in Decoders /\ decoder'.deprecate \in {decoder.deprecate, deprecate}
      /\ (p.is = "HandshakeResponse" /\ step.kind = p.is => decoder'.deprecate = deprecate)
  BY <1>1, <1>3, <1>4, DecodedTyped
<1>8. Coming' = Coming /\ Asking' = Asking
  BY <1>1 DEF Coming, Asking, TurnAfter
<1>9. Final' = Final
  BY <1>1, <1>8, FinalStill
<1>10. Waiting' = Waiting /\ Hand(e)' = <<>> /\ Hand(f)' = Hand(f)
  BY <1>1, <1>5 DEF Waiting, Hand
<1>11. InHand' = Hand(f)
  <2>1. Hand(f) \in Seq(Packets)
    BY <1>3, PartsTyped, EndsFact DEF Core
  <2>2. InHand' = Hand(e)' \o Hand(f)' \/ InHand' = Hand(f)' \o Hand(e)'
    BY <1>3, EndsFact DEF InHand
  <2> QED
    BY <1>10, <2>1, <2>2
<1>12. derailed' = After(Now, p).off /\ decoder' = After(Now, p).d
  <2>1. decoder' = After(Now, p).d
    BY <1>1, <1>4 DEF After, Now
  <2>2. CASE Derails(p)
    <3>1. derailed' = TRUE
      <4>1. p.is = "EndOfRows"
        BY <2>2 DEF Derails
      <4>2. ~ starts
        BY <1>3, <4>1, PacketsFact DEF starts, Commands
      <4> QED
        BY <1>1, <2>2, <4>2 DEF Derails
    <3>2. After(Now, p).off = TRUE
      BY <2>2 DEF After
    <3> QED
      BY <2>1, <3>1, <3>2
  <2>3. CASE ~ Derails(p) /\ starts
    <3>1. derailed' = FALSE
      BY <1>1, <2>3 DEF Derails
    <3>2. After(Now, p).off = FALSE
      BY <1>4, <2>3 DEF After, Now
    <3> QED
      BY <2>1, <3>1, <3>2
  <2>4. CASE ~ Derails(p) /\ ~ starts
    <3>1. derailed' = derailed
      BY <1>1, <2>4 DEF Derails
    <3>2. After(Now, p).off = derailed
      BY <1>4, <2>4 DEF After, Now
    <3> QED
      BY <2>1, <3>1, <3>2
  <2> QED
    BY <2>2, <2>3, <2>4
\* The two ways to be in step after it.
<1>13. ASSUME ~ muddled', ~ loginLost
       PROVE  /\ Right(Now, p) /\ Leads({Now'}, Pending', Final)
              /\ ~ disordered' => Now.sure
  <2>1. CASE muddled
    <3>1. alone /\ starts /\ ahead # "overtaken"
      BY <1>1, <1>13, <2>1
    <3>2. e = Client /\ p.start /\ ~ decoder.handshake /\ f = Server
      BY <3>1, EndsFact DEF starts, f
    <3>3. Right(Now, p) /\ Leads({After(Now, p)}, Waiting, Final) /\ disordered
      BY <1>2, <1>13, <2>1, <3>1, <3>2, AloneRead DEF p
    <3>4. disordered'
      BY <1>1, <3>3
    <3>5. Now' = After(Now, p)
      BY <1>12, <3>3, <3>4 DEF Now, After
    <3>6. Pending' = Waiting
      <4>1. Hand(f) = <<>> /\ Waiting \in Seq(Packets)
        BY <3>1, PartsTyped DEF Hand, Core
      <4> QED
        BY <1>10, <1>11, <4>1 DEF Pending
    <3> QED
      BY <3>3, <3>4, <3>5, <3>6
  <2>2. CASE ~ muddled
    <3>1. alone \/ ahead = e
      BY <1>1, <1>13
    <3>2. Right(Now, p) /\ Leads({After(Now, p)}, Hand(f) \o Waiting, Final)
      BY <1>2, <1>13, <2>2, <3>1, InOrderRead DEF p, f
    <3>3. disordered' = disordered
      BY <1>1, <1>3, <1>13
    <3>4. Now' = After(Now, p)
      BY <1>12, <3>3 DEF Now, After
    <3>5. Pending' = Hand(f) \o Waiting
      BY <1>10, <1>11 DEF Pending
    <3> QED
      BY <3>2, <3>3, <3>4, <3>5 DEF Now
  <2> QED
    BY <2>1, <2>2
<1>14. InStep'
  <2> SUFFICES ASSUME ~ muddled', ~ loginLost' PROVE InStep'
    BY DEF InStep
  <2>1. Leads({Now'}, Pending', Final)
    BY <1>1, <1>13
  <2> QED
    BY <1>1, <1>9, <2>1, InStepNext
<1>15. ASSUME ~ muddled', ~ loginLost
       PROVE  step.kind = IF derailed /\ e = Server /\ p.is # "ERR" THEN "Unsolicited" ELSE p.is
  <2>1. step.kind = Shown(Now, p)
    BY <1>4, <1>13, <1>15 DEF Right, Now
  <2> QED
    BY <1>3, <2>1 DEF Shown, Now
<1>16. s.followed => s.kind = IF s.stray THEN "Unsolicited" ELSE s.is
  <2>1. (s.followed <=> ~ (muddled' \/ loginLost')) /\ s.kind = step.kind /\ s.is = p.is
        /\ (s.stray <=> derailed /\ e = Server /\ p.is # "ERR")
    BY DEF s
  <2>2. ~ loginLost' => ~ loginLost
    BY <1>1
  <2> QED
    BY <1>15, <2>1, <2>2
<1>17. ~ disordered' => ~ muddled' /\ ~ muddled /\ ~ loginLost /\ ~ disordered
  BY <1>1 DEF Core, OrderFits
<1>18. s.inOrder => s.sql = s.true
  <2>1. (s.inOrder <=> ~ disordered') /\ s.sql = step.sql /\ s.true = About(p)
    BY DEF s, About
  <2>2. ASSUME ~ disordered' PROVE step.sql = About(p)
    <3>1. Right(Now, p) /\ Now.sure
      BY <1>13, <1>17, <2>2
    <3> QED
      BY <1>4, <3>1 DEF Right, Now
  <2> QED
    BY <2>1, <2>2
<1>19. Typed'
  <2>1. muddled' \in BOOLEAN /\ disordered' \in BOOLEAN /\ loginLost' \in BOOLEAN
        /\ derailed' \in BOOLEAN
    BY <1>1, <1>3
  <2>2. /\ held'[Client] \in ClientPackets \union {Nothing}
        /\ held'[Server] \in ServerPackets \union {Nothing}
    BY <1>3, <1>5, EndsFact DEF Core, Typed
  <2> QED
    BY <1>1, <1>5, <1>7, <2>1, <2>2 DEF Core, Typed
<1>20. Dialog' /\ IdsFit'
  BY <1>1, <1>8 DEF Core, Dialog, IdsFit
<1>21. held'[Client] # Nothing => held'[Client] = held[Client] /\ e = Server /\ f = Client
  BY <1>3, <1>5, EndsFact
<1>22. Phases'
  BY <1>1, <1>8, <1>21 DEF Core, Phases
<1>23. OrderFits'
  <2>1. ASSUME held'[f] # Nothing PROVE ahead' \in {f, "overtaken"}
    BY <1>1, <1>5, <2>1
  <2>2. ahead' = "overtaken" => muddled'
    <3>1. f # "overtaken"
      BY <1>3, EndsFact
    <3> QED
      BY <1>1, <3>1
  <2>3. muddled' \/ loginLost' => disordered'
    <3>1. ASSUME ~ disordered' PROVE ~ muddled' /\ ~ loginLost'
      <4>1. ~ muddled' /\ ~ muddled /\ ~ loginLost
        BY <1>17, <3>1
      <4>2. p.is = "HandshakeResponse" => e # Server
        BY <1>3 DEF ServerPackets, Replies, Responses, Outcomes, Simple,
           Headers, PrepareOKs, Demands, Greetings
      <4>3. p.is = "HandshakeResponse" => step.kind = p.is
        BY <1>15, <4>1, <4>2
      <4> QED
        BY <1>1, <4>1, <4>3
    <3> QED
      BY <3>1
  <2>4. \A d \in Ends : held'[d] # Nothing => d = f
    BY <1>3, <1>5, EndsFact
  <2> QED
    BY <1>5, <2>1, <2>2, <2>3, <2>4, EndsFact DEF OrderFits
<1>24. LoginKnown'
  <2> SUFFICES ASSUME /\ ~ loginLost' /\ Coming' # "login"
                      /\ held'[Client] # Nothing => held'[Client].is # "HandshakeResponse"
                      /\ \A i \in 1..Len(sent'[Client]) :
                           sent'[Client][i].is # "HandshakeResponse"
               PROVE  decoder'.deprecate = deprecate'
    BY DEF LoginKnown
  <2>1. CASE p.is = "HandshakeResponse"
    <3>1. CASE step.kind = p.is
      BY <1>1, <1>7, <2>1, <3>1
    <3>2. CASE ~ deprecate
      <4>1. decoder.deprecate = FALSE
        BY <1>3, <3>2 DEF Core, Typed, Decoders
      <4> QED
        BY <1>1, <1>3, <1>7, <3>2, <4>1
    <3> QED
      BY <1>1, <2>1, <3>1, <3>2
  <2>2. CASE p.is # "HandshakeResponse"
    <3>1. held[Client] # Nothing => held[Client].is # "HandshakeResponse"
      <4>1. CASE e = Client
        BY <2>2, <4>1 DEF p
      <4>2. CASE e = Server
        BY <1>3, <1>5, <4>2, EndsFact
      <4> QED
        BY <1>3, <4>1, <4>2
    <3>2. decoder.deprecate = deprecate
      BY <1>1, <1>8, <3>1 DEF Core, LoginKnown
    <3> QED
      BY <1>1, <1>7, <3>2
  <2> QED
    BY <2>1, <2>2
<1>25. Recovers'
  <2> SUFFICES ASSUME held'[Client] # Nothing, held'[Client].start, ahead' # "overtaken",
                      sent'[Client] = <<>>
               PROVE  Recovers'
    BY DEF Recovers
  <2>1. e = Server /\ f = Client /\ ~ alone /\ held[Client] = held'[Client]
    BY <1>5, <1>21
  <2>2. ahead = Server
    BY <1>1, <2>1
  <2>3. ahead # "overtaken" /\ held[Client] # Nothing /\ held[Client].start
        /\ sent[Client] = <<>>
    BY <1>1, <2>1, <2>2, EndsFact
  <2>4. Leads(Unsure, <<held[Client]>> \o sent[Server], Final)
    BY <2>2, <2>3 DEF Core, Recovers
  <2> QED
    BY <1>1, <1>9, <2>1, <2>4, RecoversNext
<1>26. Core'
  BY <1>14, <1>19, <1>20, <1>22, <1>23, <1>24, <1>25 DEF Core
<1>27. event' = [event EXCEPT ![e] = event'[e]]
  BY <1>1, <1>6
<1> QED
  BY <1>1, <1>2, <1>6, <1>16, <1>18, <1>26, <1>27

-----------------------------------------------------------------------------
(***************************************************************************)
(* What is decoded is shown right.                                         *)
(***************************************************************************)

\* The invariant holds when the connection opens.
LEMMA InitWire == WireAssumption /\ Init => WireInv
<1> SUFFICES ASSUME WireAssumption, Init PROVE WireInv
  OBVIOUS
<1>1. Core
  BY InitCore
<1>2. Holding /\ LabelledRight /\ RightStatement
  BY DEF Init, Holding, LabelledRight, RightStatement
<1> QED
  BY <1>1, <1>2 DEF WireInv

\* Events that stay, or go, stay right.
LEMMA EventsStay ==
  ASSUME LabelledRight, RightStatement,
         \A e \in Ends : event'[e] = event[e] \/ event'[e] = Nothing
  PROVE  LabelledRight' /\ RightStatement'
BY DEF LabelledRight, RightStatement

\* Every step keeps it.
LEMMA WireStep == WireAssumption /\ WireInv /\ [Next]_vars => WireInv'
<1> SUFFICES ASSUME WireAssumption, WireInv, [Next]_vars PROVE WireInv'
  OBVIOUS
<1>1. Core /\ Holding /\ LabelledRight /\ RightStatement
  BY DEF WireInv
<1>2. DOMAIN pump = Ends /\ DOMAIN event = Ends
      /\ \A e \in Ends : held[e] # Nothing <=> pump[e] = "decode"
  BY <1>1 DEF Holding
\* Steps that leave the pumps alone.
<1>3. ASSUME Core', UNCHANGED pumpVars PROVE WireInv'
  <2>1. pump' = pump /\ held' = held /\ event' = event
    BY <1>3 DEF pumpVars
  <2>2. Holding'
    BY <1>2, <2>1 DEF Holding
  <2>3. LabelledRight' /\ RightStatement'
    BY <1>1, <2>1, EventsStay
  <2> QED
    BY <1>3, <2>2, <2>3 DEF WireInv
<1>4. CASE Login
  <2>1. Core'
    BY <1>1, <1>4, LoginCore
  <2> QED
    BY <1>3, <1>4, <2>1 DEF Login
<1>5. CASE GoOn
  <2>1. Core'
    BY <1>1, <1>5, GoOnCore
  <2> QED
    BY <1>3, <1>5, <2>1 DEF GoOn
<1>6. CASE Command
  <2>1. Core'
    BY <1>1, <1>6, CommandCore
  <2> QED
    BY <1>3, <1>6, <2>1 DEF Command
<1>7. ASSUME NEW e \in Ends, Leave(e) PROVE WireInv'
  <2>1. Core'
    BY <1>1, <1>7, CoreStill DEF Leave, coreVars, pumpVars, decoderVars
  <2> QED
    BY <1>3, <1>7, <2>1 DEF Leave
<1>8. ASSUME NEW e \in Ends, Forward(e) PROVE WireInv'
  <2>1. Core'
    BY <1>1, <1>8, ServerForwardCore, ClientForwardCore, EndsFact
  <2>2. /\ event' = event /\ pump' = [pump EXCEPT ![e] = "decode"]
        /\ held' = [held EXCEPT ![e] = Head(sent[e])] /\ sent[e] # <<>>
    BY <1>8 DEF Forward
  <2>3. Head(sent[e]) # Nothing
    <3>1. sent[e] \in Seq(Packets)
      BY <1>1, PartsTyped, EndsFact DEF Core
    <3>2. Head(sent[e]) \in Packets
      BY <2>2, <3>1
    <3> QED
      BY <3>2, PacketsFact DEF Packets
  <2>4. DOMAIN held = Ends
    BY <1>1 DEF Core, Typed
  <2>5. Holding'
    <3>1. /\ pump'[e] = "decode" /\ held'[e] # Nothing
          /\ \A d \in Ends : d # e => pump'[d] = pump[d] /\ held'[d] = held[d]
      BY <1>2, <2>2, <2>3, <2>4
    <3>2. DOMAIN pump' = Ends /\ DOMAIN event' = Ends
      BY <1>2, <2>2
    <3> QED
      BY <1>2, <3>1, <3>2 DEF Holding
  <2>6. LabelledRight' /\ RightStatement'
    BY <1>1, <2>2, EventsStay
  <2> QED
    BY <2>1, <2>5, <2>6 DEF WireInv
<1>9. ASSUME NEW e \in Ends, Decode(e) PROVE WireInv'
  <2>1. /\ Core' /\ held[e] # Nothing
        /\ event'[e].followed =>
             event'[e].kind = IF event'[e].stray THEN "Unsolicited" ELSE event'[e].is
        /\ event'[e].inOrder => event'[e].sql = event'[e].true
        /\ event' = [event EXCEPT ![e] = event'[e]]
        /\ pump' = [pump EXCEPT ![e] = "emit"] /\ held' = [held EXCEPT ![e] = Nothing]
    BY <1>1, <1>9, DecodeCore
  <2>2. DOMAIN held = Ends
    BY <1>1 DEF Core, Typed
  <2>3. Holding'
    <3>1. /\ pump'[e] = "emit" /\ held'[e] = Nothing
          /\ \A d \in Ends : d # e => pump'[d] = pump[d] /\ held'[d] = held[d]
      BY <1>2, <2>1, <2>2
    <3>2. DOMAIN pump' = Ends /\ DOMAIN event' = Ends
      BY <1>2, <2>1
    <3> QED
      BY <1>2, <3>1, <3>2 DEF Holding
  <2>4. \A d \in Ends : d # e => event'[d] = event[d]
    BY <1>2, <2>1
  <2>5. LabelledRight' /\ RightStatement'
    BY <1>1, <2>1, <2>4 DEF LabelledRight, RightStatement
  <2> QED
    BY <2>1, <2>3, <2>5 DEF WireInv
<1>10. ASSUME NEW e \in Ends, Emit(e) PROVE WireInv'
  <2>1. /\ pump[e] = "emit" /\ event' = [event EXCEPT ![e] = Nothing]
        /\ pump' = [pump EXCEPT ![e] = "read"] /\ held' = held
    BY <1>10 DEF Emit
  <2>2. Core'
    BY <1>1, <1>10, CoreStill DEF Emit, coreVars, peerVars
  <2>3. Holding'
    <3>1. pump'[e] = "read" /\ \A d \in Ends : d # e => pump'[d] = pump[d]
      BY <1>2, <2>1
    <3>2. DOMAIN pump' = Ends /\ DOMAIN event' = Ends
      BY <1>2, <2>1
    <3> QED
      BY <1>2, <2>1, <3>1, <3>2 DEF Holding
  <2>4. \A d \in Ends : event'[d] = event[d] \/ event'[d] = Nothing
    BY <1>2, <2>1
  <2>5. LabelledRight' /\ RightStatement'
    BY <1>1, <2>4, EventsStay
  <2> QED
    BY <2>2, <2>3, <2>5 DEF WireInv
<1>11. ASSUME NEW e \in Ends, PumpEnds(e) PROVE WireInv'
  <2>1. /\ pump[e] = "read" /\ event' = event
        /\ pump' = [pump EXCEPT ![e] = "ended"] /\ held' = held
    BY <1>11 DEF PumpEnds, AtEnd
  <2>2. Core'
    BY <1>1, <1>11, CoreStill DEF PumpEnds, coreVars, decoderVars
  <2>3. Holding'
    <3>1. pump'[e] = "ended" /\ \A d \in Ends : d # e => pump'[d] = pump[d]
      BY <1>2, <2>1
    <3>2. DOMAIN pump' = Ends /\ DOMAIN event' = Ends
      BY <1>2, <2>1
    <3> QED
      BY <1>2, <2>1, <3>1, <3>2 DEF Holding
  <2>4. LabelledRight' /\ RightStatement'
    BY <1>1, <2>1, EventsStay
  <2> QED
    BY <2>2, <2>3, <2>4 DEF WireInv
<1>12. ASSUME UNCHANGED <<peerVars, pumpVars, decoderVars>> PROVE WireInv'
  <2>1. Core'
    BY <1>1, <1>12, CoreStill DEF coreVars, peerVars, pumpVars
  <2> QED
    BY <1>3, <1>12, <2>1
<1>13. CASE Handled
  BY <1>12, <1>13 DEF Handled
<1>14. CASE Rest \/ UNCHANGED vars
  BY <1>12, <1>14 DEF Rest, vars
<1> QED
  BY <1>4, <1>5, <1>6, <1>7, <1>8, <1>9, <1>10, <1>11, <1>13, <1>14 DEF Next

\* It holds always.
LEMMA WireAlways == FairSpec => []WireInv
<1>1. Init => WireInv
  BY InitWire, WireAssumption
<1>2. WireInv /\ [Next]_vars => WireInv'
  BY WireStep, WireAssumption
<1> QED
  BY <1>1, <1>2, PTL DEF FairSpec, Spec

\* As long as packets are decoded in the order they were forwarded, and from the
\* next command decoded by itself after one was not, every packet is labelled as
\* what it is (connDecoder.decode against the protocol), for any numbers of
\* commands and rows -- but for the rest of an answer after a classic EOF that
\* announced another result, which is called unsolicited, errors aside.  Nothing
\* is said of a connection without EOFs whose login was decoded after its answer.
THEOREM LabelsAreRight == FairSpec => []LabelledRight
<1>1. WireInv => LabelledRight
  BY DEF WireInv
<1> QED
  BY <1>1, WireAlways, PTL

\* Until a packet is decoded out of order queries, preparations and executions are
\* shown with the statement they are about (the decoder's stmts map and what is
\* pending), for any numbers of commands and rows.
THEOREM StatementsAreRight == FairSpec => []RightStatement
<1>1. WireInv => RightStatement
  BY DEF WireInv
<1> QED
  BY <1>1, WireAlways, PTL
=============================================================================
