-------------------------------- MODULE Bus --------------------------------
(***************************************************************************)
(* The event bus of a run (internal/engine/bus.go) and the stream a run    *)
(* page reads it through (runEvents in internal/web/server.go).            *)
(*                                                                         *)
(* Publish stamps an event and copies the subscribers under the lock, and  *)
(* sends to them after releasing it.  Between the two, other publishers,   *)
(* Subscribe, a page that goes away and Close may all run.                 *)
(*                                                                         *)
(* Streams are numbered in the order one page opens them: it holds one at  *)
(* a time, and asks the next for what came after the last event it saw.    *)
(***************************************************************************)
EXTENDS Integers, Sequences, FiniteSetsExt

CONSTANTS
  Publishers,    \* goroutines that publish to this run
  Bodies,        \* what an event may carry
  NStreams,      \* bound: streams the page opens
  Capacity,      \* what a subscription's channel holds (512 in the code)
  HistoryLimit,  \* events retained (20000 in the code)
  MaxEvents      \* bound: events published

ASSUME BusAssumption ==
  /\ NStreams \in Nat /\ MaxEvents \in Nat
  /\ Capacity \in Nat \ {0}
  /\ HistoryLimit \in Nat \ {0}

Streams == 1..NStreams

\* An event: its sequence number, who published it, and what it carries.
Event == [seq : 1..MaxEvents, from : Publishers, body : Bodies]
NoEvent == [seq |-> 0]

VARIABLES
  seq, history,  \* the last number given, and the events retained
  subs,          \* streams with a registered subscription
  closed,
  chan, shut,    \* chan[s]: the channel of stream s; shut[s]: closed
  sending,       \* sending[p]: the event p is sending, and to whom still
  phase,         \* phase[s]: where the handler of stream s stands
  backlog,       \* backlog[s]: history still to be written to the page
  written,       \* written[s]: events the page got through stream s
  since,         \* since[s]: the event the page said it had last
  lost,          \* lost[s]: events that found the channel full
  panicked       \* a send on a closed channel took the process down

busVars == <<seq, history, subs, closed, chan, shut, sending>>
pageVars == <<phase, backlog, written, since>>
vars == <<busVars, pageVars, lost, panicked>>

Members(s) == {s[k] : k \in DOMAIN s}

BusTypeOK ==
  /\ seq \in 0..MaxEvents
  /\ history \in Seq(Event) /\ Len(history) <= HistoryLimit
  /\ subs \subseteq Streams
  /\ chan \in [Streams -> Seq(Event)] /\ \A s \in Streams : Len(chan[s]) <= Capacity
  /\ sending \in [Publishers -> [ev : Event \union {NoEvent}, to : SUBSET Streams]]
  /\ phase \in [Streams -> {"unused", "replaying", "live", "over"}]
  /\ backlog \in [Streams -> Seq(Event)]
  /\ written \in [Streams -> Seq(Event)]
  /\ since \in [Streams -> 0..MaxEvents]
  /\ lost \in [Streams -> SUBSET (1..MaxEvents)]
  /\ shut \in [Streams -> BOOLEAN]
  /\ {closed, panicked} \subseteq BOOLEAN

Init ==
  /\ seq = 0 /\ history = <<>>
  /\ subs = {} /\ closed = FALSE
  /\ chan = [s \in Streams |-> <<>>]
  /\ shut = [s \in Streams |-> FALSE]
  /\ sending = [p \in Publishers |-> [ev |-> NoEvent, to |-> {}]]
  /\ phase = [s \in Streams |-> "unused"]
  /\ backlog = [s \in Streams |-> <<>>]
  /\ written = [s \in Streams |-> <<>>]
  /\ since = [s \in Streams |-> 0]
  /\ lost = [s \in Streams |-> {}]
  /\ panicked = FALSE

-----------------------------------------------------------------------------
(***************************************************************************)
(* Publish.                                                                *)
(***************************************************************************)

\* A fault to seed: what goes beyond the limit is cut off at the wrong end.
TrimmedNewest(h) ==
  IF Len(h) > HistoryLimit THEN SubSeq(h, 1, Len(h) - HistoryLimit \div 4) ELSE h

\* The oldest quarter goes at once when the limit is passed.
Trimmed(h) ==
  IF Len(h) > HistoryLimit THEN SubSeq(h, HistoryLimit \div 4 + 1, Len(h)) ELSE h

\* A fault to seed: the subscribers looked up once the lock is gone, so that
\* one who came in between has the event in its backlog already.
RecipientsUnlocked == {s \in Streams : ~ shut[s]}

\* Whom an event goes to: the subscriptions at the moment it is stamped.
Recipients == subs

\* Publish on an open bus, up to the unlock.  On a closed bus it does nothing.
Stamp(p, b) ==
  /\ ~ closed
  /\ sending[p].to = {}
  /\ LET ev == [seq |-> seq + 1, from |-> p, body |-> b] IN
       /\ seq' = seq + 1
       /\ history' = Trimmed(Append(history, ev))
       /\ sending' = [sending EXCEPT ![p] = [ev |-> ev, to |-> Recipients]]
  /\ UNCHANGED <<subs, closed, chan, shut, pageVars, lost, panicked>>

\* One round of the loop that sends: select { case ch <- ev: default: }.  A
\* full channel loses the event; sending on a closed channel panics.
Send(p, s) ==
  /\ s \in sending[p].to
  /\ sending' = [sending EXCEPT ![p].to = @ \ {s}]
  /\ panicked' = shut[s]
  /\ IF ~ shut[s] /\ Len(chan[s]) < Capacity
     THEN chan' = [chan EXCEPT ![s] = Append(@, sending[p].ev)] /\ UNCHANGED lost
     ELSE lost' = [lost EXCEPT ![s] = @ \union {sending[p].ev.seq}] /\ UNCHANGED chan
  /\ UNCHANGED <<seq, history, subs, closed, shut, pageVars>>

-----------------------------------------------------------------------------
(***************************************************************************)
(* Subscribe, cancel and Close.                                            *)
(***************************************************************************)

\* A sequence from the first of some of its positions on.
From(h, some) == IF some = {} THEN <<>> ELSE SubSeq(h, Min(some), Len(h))

\* A fault to seed: one event too few.
NewerButOne(h, n) == From(h, {k \in DOMAIN h : h[k].seq > n + 1})

\* The retained events after n: their numbers ascend, so all from the first.
Newer(h, n) == From(h, {k \in DOMAIN h : h[k].seq > n})

\* A page loads with nothing seen; a browser reconnects from the last event
\* its stream delivered (Last-Event-ID, which takes precedence over ?since).
LastSeen ==
  LET got == {s \in Streams : written[s] # <<>>}
  IN IF got = {} THEN 0
     ELSE LET s == CHOOSE s \in got : \A t \in got : t <= s
          IN written[s][Len(written[s])].seq

\* The page opens its next stream: the subscription and the backlog are
\* taken together.  On a closed bus the channel is closed from the start.
Subscribe(s) ==
  /\ phase[s] = "unused"
  /\ \A t \in Streams : t < s => phase[t] = "over"
  /\ \E n \in {0, LastSeen} :
       /\ since' = [since EXCEPT ![s] = n]
       /\ backlog' = [backlog EXCEPT ![s] = Newer(history, n)]
  /\ IF closed
     THEN shut' = [shut EXCEPT ![s] = TRUE] /\ UNCHANGED subs
     ELSE subs' = subs \union {s} /\ UNCHANGED shut
  /\ phase' = [phase EXCEPT ![s] = "replaying"]
  /\ UNCHANGED <<seq, history, closed, chan, sending, written, lost, panicked>>

\* The handler returns and cancels its subscription, if Close has not.  What
\* it had not written yet is nobody's.
Cancel(s) ==
  /\ phase' = [phase EXCEPT ![s] = "over"]
  /\ subs' = subs \ {s}
  /\ shut' = [shut EXCEPT ![s] = @ \/ s \in subs]
  /\ chan' = [chan EXCEPT ![s] = <<>>]
  /\ backlog' = [backlog EXCEPT ![s] = <<>>]
  /\ UNCHANGED <<seq, history, closed, sending, written, since, lost, panicked>>

\* The page is left, reloaded or cut off, at any time.
Disconnect(s) ==
  /\ phase[s] \in {"replaying", "live"}
  /\ Cancel(s)

\* A fault to seed: the subscribers are left waiting on open channels.
CloseSilently ==
  /\ ~ closed
  /\ closed' = TRUE
  /\ UNCHANGED <<seq, history, subs, chan, shut, sending, pageVars, lost, panicked>>

Close ==
  /\ ~ closed
  /\ closed' = TRUE
  /\ shut' = [s \in Streams |-> shut[s] \/ s \in subs]
  /\ subs' = {}
  /\ UNCHANGED <<seq, history, chan, sending, pageVars, lost, panicked>>

-----------------------------------------------------------------------------
(***************************************************************************)
(* The stream handler: the backlog first, then the channel until it ends.  *)
(***************************************************************************)

Replay(s) ==
  /\ phase[s] = "replaying"
  /\ IF backlog[s] = <<>>
     THEN phase' = [phase EXCEPT ![s] = "live"] /\ UNCHANGED <<backlog, written>>
     ELSE /\ written' = [written EXCEPT ![s] = Append(@, Head(backlog[s]))]
          /\ backlog' = [backlog EXCEPT ![s] = Tail(@)]
          /\ UNCHANGED phase
  /\ UNCHANGED <<busVars, since, lost, panicked>>

\* A fault to seed: live events overtake the backlog.
ReceiveEarly(s) ==
  /\ phase[s] \in {"replaying", "live"}
  /\ chan[s] # <<>>
  /\ written' = [written EXCEPT ![s] = Append(@, Head(chan[s]))]
  /\ chan' = [chan EXCEPT ![s] = Tail(@)]
  /\ UNCHANGED <<seq, history, subs, closed, shut, sending, phase, backlog, since, lost,
                 panicked>>

Receive(s) ==
  /\ phase[s] = "live"
  /\ chan[s] # <<>>
  /\ written' = [written EXCEPT ![s] = Append(@, Head(chan[s]))]
  /\ chan' = [chan EXCEPT ![s] = Tail(@)]
  /\ UNCHANGED <<seq, history, subs, closed, shut, sending, phase, backlog, since, lost,
                 panicked>>

\* The channel is drained and closed: tell the page so, and return.
Ended(s) ==
  /\ phase[s] = "live"
  /\ chan[s] = <<>> /\ shut[s]
  /\ Cancel(s)

-----------------------------------------------------------------------------
Publishing(p) == seq < MaxEvents /\ \E b \in Bodies : Stamp(p, b)

Sending(p) == \E s \in Streams : Send(p, s)

Handling(s) == Replay(s) \/ Receive(s) \/ Ended(s)

\* Nothing is left to publish, send, write or open; or the process is gone.
AtRest ==
  \/ panicked
  \/ /\ closed
     /\ \A p \in Publishers : sending[p].to = {}
     /\ \A s \in Streams : phase[s] = "over"

Rest == AtRest /\ UNCHANGED vars

Next ==
  \/ /\ ~ panicked
     /\ \/ \E p \in Publishers : Publishing(p) \/ Sending(p)
        \/ \E s \in Streams : Subscribe(s) \/ Disconnect(s) \/ Handling(s)
        \/ Close
  \/ Rest

Spec == Init /\ [][Next]_vars

(***************************************************************************)
(* Fairness.  A publisher in its loop goes on, and so does a handler.      *)
(* Nothing has to be published, no page opened or left, no run closed.     *)
(***************************************************************************)
Fairness ==
  /\ \A p \in Publishers : WF_vars(~ panicked /\ Sending(p))
  /\ \A s \in Streams : WF_vars(~ panicked /\ Handling(s))

FairSpec == Spec /\ Fairness

-----------------------------------------------------------------------------
(***************************************************************************)
(* Properties.                                                             *)
(***************************************************************************)

\* The retained history is the unbroken end of what was published, and keeps
\* at least three quarters of the limit once it has been trimmed.
HistoryUnbroken ==
  /\ \A k \in DOMAIN history : history[k].seq = seq - Len(history) + k
  /\ Len(history) >= IF seq > HistoryLimit THEN HistoryLimit - HistoryLimit \div 4 ELSE seq

\* Everything stream s has written or still will, in that order.
Carried(s) == written[s] \o backlog[s] \o chan[s]

\* Events on their way to stream s in the hands of a publisher.
UnderWay(s) == {sending[p].ev : p \in {q \in Publishers : s \in sending[q].to}}

\* Between the backlog and the channel no event comes twice.
NoEventTwice ==
  \A s \in Streams :
    /\ \A j, k \in DOMAIN Carried(s) : Carried(s)[j] = Carried(s)[k] => j = k
    /\ UnderWay(s) \intersect Members(Carried(s)) = {}

\* Between the backlog and the channel no event is missed: what a stream was
\* asked for and is still retained comes, unless it found the channel full.
NothingMissed ==
  \A s \in Streams : phase[s] \in {"replaying", "live"} =>
    \A ev \in Members(history) : ev.seq > since[s] =>
      ev \in Members(Carried(s)) \union UnderWay(s) \/ ev.seq \in lost[s]

\* What one goroutine publishes a page sees in the order it was published.
PublisherOrderKept ==
  \A s \in Streams : \A j, k \in DOMAIN written[s] :
    j < k /\ written[s][j].from = written[s][k].from => written[s][j].seq < written[s][k].seq

\* What a page is given is right: the four above.
DeliveryRight == HistoryUnbroken /\ NoEventTwice /\ NothingMissed /\ PublisherOrderKept

\* Close ends every stream, however much of the backlog is still to write.
StreamsEnd ==
  closed ~> panicked \/ \A s \in Streams : phase[s] \in {"unused", "over"}

\* Publish: a subscriber that cannot keep up loses events, and the cancel
\* function is to be called to release a subscription.  Neither may hurt.
NeverPanics == ~ panicked
=============================================================================
