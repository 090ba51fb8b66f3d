-------------------------------- MODULE Wire --------------------------------
(***************************************************************************)
(* An actor's proxied connection (internal/wire): two pumps forward the    *)
(* packets between a client and MySQL, one in each direction, and show     *)
(* each packet to a decoder that follows the protocol.                     *)
(*                                                                         *)
(* A pump forwards a packet before it decodes it, so that decoding never   *)
(* delays a statement.  The two pumps share the decoder: what the client   *)
(* sends in answer to a packet may be decoded before that packet is.       *)
(*                                                                         *)
(* A packet is what the decoder can tell of it -- whether its sequence is  *)
(* zero, the class of its first byte, the fields that are read -- and,     *)
(* beside that, what it truly `is' and the statement it is about, which    *)
(* the decoder never looks at.  Client and server are external: a client   *)
(* that waits for an answer before it sends the next command, and a server *)
(* of MySQL's protocol.                                                    *)
(***************************************************************************)
EXTENDS Integers, FiniteSets, Sequences, SequencesExt

CONSTANTS
  MaxCommands,   \* bound: commands a client sends
  MaxRows,       \* bound: rows of a result set
  RowStarts,     \* what a row of text may start with: a value, an empty one, or NULL
  OkReads        \* the id that is read in an OK that has none

ASSUME WireAssumption ==
  /\ MaxCommands \in Nat /\ MaxRows \in Nat
  /\ RowStarts \subseteq {"other", "ok", "null"}
  /\ OkReads \in Nat

Client == "client"
Server == "server"
Ends == {Client, Server}
Other(e) == IF e = Client THEN Server ELSE Client

NoSQL == "no statement"

VARIABLES
  \* external: the client and the server
  deprecate,   \* whether they agreed on DEPRECATE_EOF
  turn,        \* who speaks: Client, Server, or "nobody" while packets travel
  commands,    \* commands sent
  prepared,    \* prepared[n]: the statement the server prepared under id n, until
               \* the client closes it
  sent,        \* sent[e]: what e sent and its pump has not read
  gone,        \* ends that have closed their side
  \* the pumps
  pump,        \* pump[e]: of the pump that reads from e
  held,        \* held[e]: the packet it has forwarded and is about to decode
  event,       \* event[e]: the event it is about to emit
  ahead,       \* of two packets held, whose was forwarded first; or "overtaken",
               \* when the one that is held has been decoded after a later one
  \* the decoder, and what has been emitted
  decoder, handled,
  \* what the properties remember
  muddled,     \* a packet was decoded before one that was forwarded earlier,
               \* and no command has been decoded on its own since
  disordered,  \* that has happened, ever
  loginLost,   \* the client's capabilities were never read, and were not the default
  derailed     \* another result followed one that ended in a classic EOF

peerVars == <<deprecate, turn, commands, prepared, sent, gone>>
pumpVars == <<pump, held, event, ahead>>
decoderVars == <<decoder, muddled, disordered, loginLost, derailed>>
vars == <<peerVars, pumpVars, decoderVars, handled>>

Nothing == [is |-> "nothing"]

\* What the decoder knows when a connection opens (newConnDecoder).
NewDecoder ==
  [handshake |-> TRUE, deprecate |-> FALSE, state |-> "none", command |-> "none",
   columns |-> 0, params |-> 0, await |-> FALSE, pending |-> NoSQL,
   stmts |-> [n \in 1..MaxCommands |-> NoSQL]]

Init ==
  /\ deprecate \in BOOLEAN
  /\ turn = "nobody" /\ commands = 0
  /\ prepared = <<>>
  /\ sent = [e \in Ends |-> IF e = Server
                THEN <<[is |-> "ServerGreeting", first |-> "greeting", last |-> TRUE]>>
                ELSE <<>>]
  /\ gone = {}
  /\ pump = [e \in Ends |-> "read"]
  /\ held = [e \in Ends |-> Nothing] /\ event = [e \in Ends |-> Nothing]
  /\ ahead = "nobody"
  /\ decoder = NewDecoder /\ handled = FALSE
  /\ muddled = FALSE /\ disordered = FALSE /\ loginLost = FALSE /\ derailed = FALSE

-----------------------------------------------------------------------------
(***************************************************************************)
(* The protocol, as the two ends speak it (external).                      *)
(***************************************************************************)

Packet(is, first) == [is |-> is, first |-> first, last |-> FALSE, more |-> FALSE]
Ok(more) == [Packet("OK", "ok") EXCEPT !.more = more]
Err == Packet("ERR", "err")
Eof == Packet("EOF", "eof")
Definitions(n) == [i \in 1..n |-> Packet("ColumnDefinition", "other")]

\* The EOF that closes a block of definitions, unless it was agreed to do without.
Block(n) == Definitions(n) \o (IF n = 0 \/ deprecate THEN <<>> ELSE <<Eof>>)

\* Of a row only the class of its first byte is read as anything but a value.
ResultSet(rows, first, more) ==
  <<[is |-> "ResultSetHeader", first |-> "other", last |-> FALSE, more |-> FALSE, n |-> 1]>>
    \o Block(1)
    \o [i \in 1..rows |-> Packet("Row", first)]
    \o <<[Packet("EndOfRows", "eof") EXCEPT !.more = more]>>

\* What a query or an execution may be answered with.
Results(first) ==
  LET sets(more) == {ResultSet(r, first, more) : r \in 0..MaxRows}
      failed == {[s EXCEPT ![Len(s)] = Err] : s \in sets(FALSE)}
  IN {<<Err>>, <<Ok(FALSE)>>} \union sets(FALSE) \union failed
       \union {s \o <<Ok(FALSE)>> : s \in {<<Ok(TRUE)>>} \union sets(TRUE)}

\* A statement prepared with p parameters, and c columns in its result.
Preparation(sql, p, c) ==
  <<[is |-> "PrepareOK", first |-> "ok", last |-> FALSE, more |-> FALSE,
     sql |-> sql, id |-> Len(prepared) + 1, params |-> p, columns |-> c]>>
    \o Block(p) \o Block(c)

Preparations(sql) == {<<Err>>} \union {Preparation(sql, p, c) : p \in 0..1, c \in 0..1}

\* After the login: in, out, or asked for more, once.
Admissions(more) ==
  {<<Ok(FALSE)>>, <<Err>>} \union
  IF more THEN {<<Packet("AuthMoreData", "more")>>, <<Packet("AuthMoreData", "more"), Ok(FALSE)>>}
  ELSE {}

\* What the server may answer: nothing at all, to any of them.  A row of the
\* binary protocol starts with a zero byte.
Answers(p) ==
  {<<>>} \union
  CASE p.is = "HandshakeResponse" -> Admissions(TRUE)
    [] p.is = "AuthData" -> Admissions(FALSE)
    [] p.is = "COM_QUERY" -> UNION {Results(f) : f \in RowStarts}
    [] p.is = "COM_STMT_EXECUTE" -> Results("ok")
    [] p.is = "COM_STMT_PREPARE" -> Preparations(p.sql)
    [] p.is = "COM_STMT_CLOSE" -> {}

\* The last packet of an answer passes the turn.
Ended(a) == IF a = <<>> THEN a ELSE [a EXCEPT ![Len(a)].last = TRUE]

Says(p) ==
  /\ sent' = [sent EXCEPT ![Client] = Append(@, p)]
  /\ turn' = "nobody"

\* The client logs in, or goes on with the authentication it was asked for.
Login ==
  /\ turn = "login" /\ Client \notin gone
  /\ Says([is |-> "HandshakeResponse", login |-> TRUE, start |-> FALSE])
  /\ UNCHANGED <<deprecate, commands, prepared, gone, pumpVars, decoderVars, handled>>

GoOn ==
  /\ turn = "auth" /\ Client \notin gone
  /\ Says([is |-> "AuthData", login |-> FALSE, start |-> FALSE])
  /\ UNCHANGED <<deprecate, commands, prepared, gone, pumpVars, decoderVars, handled>>

\* The statements the client can execute, or close.
Open == {n \in DOMAIN prepared : prepared[n] # NoSQL}

\* It sends a command.  Closing a statement has no answer, and more may follow.
Command ==
  /\ turn = Client /\ Client \notin gone
  /\ commands < MaxCommands
  /\ commands' = commands + 1
  /\ LET say(is, sql, id) == [is |-> is, login |-> FALSE, start |-> TRUE, sql |-> sql, id |-> id]
     IN \/ Says(say("COM_QUERY", "q", 0)) /\ UNCHANGED prepared
        \/ \E q \in {"a", "b"} : Says(say("COM_STMT_PREPARE", q, 0)) /\ UNCHANGED prepared
        \/ \E n \in Open : Says(say("COM_STMT_EXECUTE", prepared[n], n)) /\ UNCHANGED prepared
        \/ \E n \in Open :
             /\ sent' = [sent EXCEPT ![Client] =
                           Append(@, say("COM_STMT_CLOSE", prepared[n], n))]
             /\ turn' = Client
             /\ prepared' = [prepared EXCEPT ![n] = NoSQL]
  /\ UNCHANGED <<deprecate, gone, pumpVars, decoderVars, handled>>

\* Either end closes its side: the client when it is done or has lost the
\* server, the server at any time.
Leave(e) ==
  /\ e \notin gone
  /\ gone' = gone \union {e}
  /\ UNCHANGED <<deprecate, turn, commands, prepared, sent, pumpVars, decoderVars, handled>>

-----------------------------------------------------------------------------
(***************************************************************************)
(* The decoder.  A step of it is the packet's label, the statement it is   *)
(* shown with, and what the decoder knows from then on.                    *)
(***************************************************************************)

Step(d, kind, sql) == [decoder |-> d, kind |-> kind, sql |-> sql]
Plain(d, kind) == Step(d, kind, NoSQL)

ResetResult(d) == [d EXCEPT !.state = "none", !.columns = 0, !.params = 0, !.await = FALSE]

\* A fault to seed: an OK ends the answer, another result or not.
DecodeOKFinal(d, p, kind) == Plain(ResetResult(d), kind)

\* decodeOKPacket: another result follows, or the answer is over.
DecodeOK(d, p, kind) ==
  Plain(IF p.more THEN [d EXCEPT !.state = "first"] ELSE ResetResult(d), kind)

\* decodeHandshake: the client's first packet carries its capabilities.
DecodeHandshake(d, e, p) ==
  CASE e = Client /\ p.login -> Plain([d EXCEPT !.deprecate = deprecate], "HandshakeResponse")
    [] e = Client /\ ~ p.login -> Plain(d, "AuthData")
    [] e = Server /\ p.first = "err" -> Plain([d EXCEPT !.handshake = FALSE], "ERR")
    [] e = Server /\ p.first = "ok" ->
         Plain([ResetResult(d) EXCEPT !.handshake = FALSE], "OK")
    [] e = Server /\ p.first = "more" -> Plain(d, "AuthMoreData")
    [] e = Server /\ p.first = "greeting" -> Plain(d, "ServerGreeting")
    [] OTHER -> Plain(d, "HandshakeData")

\* decodeCommand: sequence zero starts a request.
DecodeCommand(d, p) ==
  LET asks == [d EXCEPT !.state = "first", !.command = p.is]
  IN CASE ~ p.start -> Plain(d, "Continuation")
       [] p.start /\ p.is = "COM_QUERY" -> Step(asks, p.is, p.sql)
       [] p.start /\ p.is = "COM_STMT_PREPARE" ->
            Step([asks EXCEPT !.pending = p.sql], p.is, p.sql)
       [] p.start /\ p.is = "COM_STMT_EXECUTE" -> Step(asks, p.is, d.stmts[p.id])
       [] p.start /\ p.is = "COM_STMT_CLOSE" ->
            Plain([d EXCEPT !.state = "none", !.command = p.is, !.stmts[p.id] = NoSQL], p.is)

\* The first packet of an answer that is none of the ends, errors and OKs.  In
\* one that is no header, the length it starts with is read as the number.
DecodeHeader(d, p) ==
  LET n == IF "n" \in DOMAIN p THEN p.n ELSE 3
  IN Plain(IF n = 0 THEN [d EXCEPT !.columns = n, !.state = "none"]
           ELSE [d EXCEPT !.columns = n, !.state = "definitions", !.await = ~ d.deprecate],
           "ResultSetHeader")

\* A fault to seed: what was pending is cleared before it is kept.
DecodePrepareOKCleared(d, p) ==
  Step([d EXCEPT !.stmts[p.id] = NoSQL, !.pending = NoSQL,
                 !.params = p.params, !.columns = p.columns,
                 !.state = IF p.params > 0 THEN "prepareParams"
                           ELSE IF p.columns > 0 THEN "prepareColumns" ELSE "none"],
       "PrepareOK", d.pending)

\* A prepared statement's id, and the blocks of definitions that follow.
DecodePrepareOK(d, p) ==
  Step([d EXCEPT !.stmts[p.id] = d.pending, !.pending = NoSQL,
                 !.params = p.params, !.columns = p.columns,
                 !.state = IF p.params > 0 THEN "prepareParams"
                           ELSE IF p.columns > 0 THEN "prepareColumns" ELSE "none"],
       "PrepareOK", d.pending)

\* An OK without a prepared statement's fields, read for one: an id is read in
\* what it has instead, and no blocks.
DecodeShortOK(d) ==
  Step([d EXCEPT !.stmts = [n \in DOMAIN @ |-> IF n = OkReads THEN d.pending ELSE @[n]],
                 !.pending = NoSQL, !.params = 0, !.columns = 0, !.state = "none"],
       "PrepareOK", d.pending)

\* decodeFirstResponse.  A zero byte in answer to a prepare is its own kind of
\* OK; a NULL's asks for a local file.
DecodeFirst(d, p) ==
  CASE p.first = "ok" /\ d.command = "COM_STMT_PREPARE" /\ "id" \in DOMAIN p -> DecodePrepareOK(d, p)
    [] p.first = "ok" /\ d.command = "COM_STMT_PREPARE" /\ "id" \notin DOMAIN p ->
         DecodeShortOK(d)
    [] p.first = "ok" /\ d.command # "COM_STMT_PREPARE" -> DecodeOK(d, p, "OK")
    [] p.first = "eof" -> DecodeOK(d, p, "OK")
    [] p.first = "null" -> Plain([d EXCEPT !.state = "none"], "LocalInfileRequest")
    [] OTHER -> DecodeHeader(d, p)

\* advanceAfterDefinitionEOF.
AfterDefinitions(d) ==
  CASE d.state = "prepareParams" ->
         [d EXCEPT !.state = IF d.columns > 0 THEN "prepareColumns" ELSE "none"]
    [] d.state = "prepareColumns" -> [d EXCEPT !.state = "none"]
    [] d.state = "definitions" -> [d EXCEPT !.await = FALSE, !.state = "rows"]

\* decodeDefinition: params and columns count what is still to come.
DecodeDefinition(d, p) ==
  LET left(n) == IF n > 0 THEN n - 1 ELSE 0
      param == [d EXCEPT !.params = left(@)]
      column == [d EXCEPT !.columns = left(@)]
  IN CASE p.first = "eof" -> Plain(AfterDefinitions(d), "EOF")
       [] p.first # "eof" /\ d.state = "prepareParams" ->
            Plain(IF param.params = 0 /\ d.deprecate THEN AfterDefinitions(param) ELSE param,
                  "ColumnDefinition")
       [] p.first # "eof" /\ d.state = "prepareColumns" ->
            Plain(IF column.columns = 0 /\ d.deprecate THEN [column EXCEPT !.state = "none"]
                  ELSE column, "ColumnDefinition")
       [] p.first # "eof" /\ d.state = "definitions" ->
            Plain(IF column.columns = 0 /\ ~ d.await THEN [column EXCEPT !.state = "rows"]
                  ELSE column, "ColumnDefinition")

\* decodeRow.  A classic EOF ends the answer, whatever its flags say.
DecodeRow(d, p) ==
  CASE p.first = "eof" /\ d.deprecate -> DecodeOK(d, p, "EndOfRows")
    [] p.first = "eof" /\ ~ d.deprecate -> Plain([d EXCEPT !.state = "none"], "EndOfRows")
    [] OTHER -> Plain(d, "Row")

\* decodeResponse: an error ends the answer in any state.
DecodeResponse(d, p) ==
  CASE p.first = "err" -> Plain(ResetResult(d), "ERR")
    [] p.first # "err" /\ d.state = "first" -> DecodeFirst(d, p)
    [] p.first # "err" /\ d.state \in {"prepareParams", "prepareColumns", "definitions"} ->
         DecodeDefinition(d, p)
    [] p.first # "err" /\ d.state = "rows" -> DecodeRow(d, p)
    [] OTHER -> Plain(d, "Unsolicited")

Decoded(e, p) ==
  CASE decoder.handshake -> DecodeHandshake(decoder, e, p)
    [] ~ decoder.handshake /\ e = Client -> DecodeCommand(decoder, p)
    [] OTHER -> DecodeResponse(decoder, p)

-----------------------------------------------------------------------------
(***************************************************************************)
(* The pumps.                                                              *)
(***************************************************************************)

\* A packet is read and written on.  The server gets something to answer; the
\* client gets its turn with the last packet of an answer.  What is written to an
\* end that has left may still be taken from the pump, and is lost.
Forward(e) ==
  /\ pump[e] = "read" /\ sent[e] # <<>>
  /\ LET p == Head(sent[e])
         rest == [sent EXCEPT ![e] = Tail(@)]
     IN /\ held' = [held EXCEPT ![e] = p]
        /\ \/ /\ e = Client
              /\ \E a \in IF Server \in gone THEN {<<>>} ELSE Answers(p) :
                   /\ sent' = [rest EXCEPT ![Server] = @ \o Ended(a)]
                   /\ prepared' = IF a # <<>> /\ "id" \in DOMAIN Head(a)
                                  THEN Append(prepared, p.sql) ELSE prepared
              /\ turn' = turn
           \/ /\ e = Server
              /\ sent' = rest
              /\ turn' = CASE ~ p.last -> turn
                           [] p.last /\ p.is = "ServerGreeting" -> "login"
                           [] p.last /\ p.is = "AuthMoreData" -> "auth"
                           [] p.last /\ p.is = "ERR" /\ commands = 0 -> turn
                           [] OTHER -> Client
              /\ UNCHANGED prepared
  /\ pump' = [pump EXCEPT ![e] = "decode"]
  /\ ahead' = IF held[Other(e)] = Nothing THEN e ELSE ahead
  /\ UNCHANGED <<deprecate, commands, gone, event, decoderVars, handled>>

\* connDecoder.decode, under the decoder's lock.
Decode(e) ==
  LET p == held[e]
      step == Decoded(e, p)
      alone == held[Other(e)] = Nothing
      starts == e = Client /\ p.start /\ ~ decoder.handshake
  IN /\ pump[e] = "decode"
     /\ decoder' = step.decoder
     /\ held' = [held EXCEPT ![e] = Nothing]
     /\ ahead' = CASE alone -> "nobody"
                   [] ~ alone /\ ahead = e -> Other(e)
                   [] OTHER -> "overtaken"
     /\ muddled' = CASE ~ alone /\ ahead # e -> TRUE
                     [] alone /\ starts /\ ahead # "overtaken" -> FALSE
                     [] OTHER -> muddled
     /\ disordered' = (disordered \/ muddled')
     /\ loginLost' = (loginLost \/ (p.is = "HandshakeResponse" /\ step.kind # p.is /\ deprecate))
     /\ derailed' = CASE p.is = "EndOfRows" /\ p.more /\ ~ deprecate -> TRUE
                      [] starts -> FALSE
                      [] OTHER -> derailed
     /\ event' = [event EXCEPT ![e] = [is |-> p.is, kind |-> step.kind, sql |-> step.sql,
                    followed |-> ~ (muddled' \/ loginLost'),
                    stray |-> derailed /\ e = Server /\ p.is # "ERR",
                    inOrder |-> ~ disordered',
                    true |-> IF "sql" \in DOMAIN p /\ p.is # "COM_STMT_CLOSE"
                             THEN p.sql ELSE NoSQL]]
     /\ pump' = [pump EXCEPT ![e] = "emit"]
     /\ UNCHANGED <<peerVars, handled>>

\* The event is handed on outside the lock.
Emit(e) ==
  /\ pump[e] = "emit"
  /\ event' = [event EXCEPT ![e] = Nothing]
  /\ pump' = [pump EXCEPT ![e] = "read"]
  /\ UNCHANGED <<peerVars, held, ahead, decoderVars, handled>>

\* A pump ends at the end of the stream it reads, or when it cannot write on.
AtEnd(e) ==
  /\ pump[e] = "read"
  /\ \/ e \in gone /\ sent[e] = <<>>
     \/ Other(e) \in gone /\ sent[e] # <<>>

\* A fault to seed: a pump that ends does not tell the peer.
PumpEndsAlone(e) ==
  /\ AtEnd(e)
  /\ pump' = [pump EXCEPT ![e] = "ended"]
  /\ UNCHANGED <<peerVars, held, event, ahead, decoderVars, handled>>

\* It passes the end on.  A server that sees it closes its side; a client that
\* waits for nothing does not look.
PumpEnds(e) ==
  /\ AtEnd(e)
  /\ pump' = [pump EXCEPT ![e] = "ended"]
  /\ gone' = IF e = Client THEN gone \union {Server} ELSE gone
  /\ UNCHANGED <<deprecate, turn, commands, prepared, sent, held, event, ahead,
                 decoderVars, handled>>

\* A fault to seed: the connection is reported closed by whichever pump ends.
HandledEarly ==
  /\ ~ handled
  /\ \E e \in Ends : pump[e] = "ended"
  /\ handled' = TRUE
  /\ UNCHANGED <<peerVars, pumpVars, decoderVars>>

\* Proxy.handle waits for both pumps, then says that the connection is closed.
Handled ==
  /\ ~ handled
  /\ \A e \in Ends : pump[e] = "ended"
  /\ handled' = TRUE
  /\ UNCHANGED <<peerVars, pumpVars, decoderVars>>

-----------------------------------------------------------------------------
Rest == handled /\ UNCHANGED vars

Next ==
  \/ Login \/ GoOn \/ Command
  \/ \E e \in Ends : Leave(e) \/ Forward(e) \/ Decode(e) \/ Emit(e) \/ PumpEnds(e)
  \/ Handled
  \/ Rest

Spec == Init /\ [][Next]_vars

\* The pumps run.  Nothing is asked of the client and of the server.
Fairness ==
  /\ \A e \in Ends : WF_vars(Forward(e)) /\ WF_vars(Decode(e)) /\ WF_vars(Emit(e))
                       /\ WF_vars(PumpEnds(e))
  /\ WF_vars(Handled)

FairSpec == Spec /\ Fairness

-----------------------------------------------------------------------------
(***************************************************************************)
(* Properties.                                                             *)
(***************************************************************************)

\* Every packet is labelled as what it is -- logins, commands and the answers to
\* them, errors anywhere, and both ways to end a block -- but for what follows a
\* classic EOF that announced another result: the decoder takes that EOF for the
\* end, and until the next command calls everything but an error unsolicited.
\* This asks that the packets are decoded in the order they were forwarded.
\* Once one is not, it asks for nothing until the next command that is decoded
\* by itself; and when it was the login of a client that does without EOFs, which
\* the decoder then never learns, for nothing on that connection any more.
LabelledRight ==
  \A e \in Ends : (event[e] # Nothing /\ event[e].followed) =>
    event[e].kind = IF event[e].stray THEN "Unsolicited" ELSE event[e].is

\* Decoded in order, every packet is labelled as what it is.  This one does not
\* hold: not for what follows a classic EOF that announced another result.
LabelledInOrder ==
  \A e \in Ends : (event[e] # Nothing /\ event[e].followed) =>
    (event[e].kind = event[e].is)

\* "The request/response protocol keeps them naturally serialised anyway": no
\* packet is decoded before one that was forwarded earlier.
Serialised == ~ muddled

\* A query, a preparation and each execution of it are shown with the statement
\* they are truly about, across prepared ids, errors and closed statements, as
\* long as no packet of the connection was decoded out of order.
RightStatement ==
  \A e \in Ends : (event[e] # Nothing /\ event[e].inOrder) =>
    (event[e].sql = event[e].true)

\* The connection is reported closed after everything that went over it: no
\* packet is decoded or emitted any more.
ClosedComesLast ==
  [][handled => UNCHANGED <<decoder, event>>]_vars

\* Proxy.Close returns: it waits for the connections to be handled, and one
\* whose client has closed is, even if the server never answers.
CloseReturns == (Client \in gone) ~> handled
=============================================================================
