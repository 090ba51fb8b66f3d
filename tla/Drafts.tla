------------------------------- MODULE Drafts -------------------------------
(***************************************************************************)
(* Drafts: the editor's buffer (web/static/playground.js) kept by the      *)
(* server as it is typed (internal/store/drafts.go and its handlers in     *)
(* internal/web/server.go).                                                *)
(*                                                                         *)
(* A tab is one editor page.  Its requests and their answers travel in     *)
(* `wire', from which they are taken in any order; a request may be        *)
(* refused (the database is busy for more than five seconds) and an answer *)
(* may be lost, which a page takes for a failure.  A text is a number, the *)
(* later typed the higher; 0 is what the scenario's file, and the starter  *)
(* of a new page, hold at first.                                           *)
(***************************************************************************)
EXTENDS Naturals, FiniteSets, Sequences, SequencesExt

CONSTANTS
  Tabs,
  MaxTexts,   \* bound: changes made to the texts
  MaxIds,     \* bound: drafts created
  MaxWire,    \* bound: requests and answers under way
  MaxFaults,  \* bound: requests refused and answers lost
  MaxDrafts   \* maxDrafts: how many drafts are kept

ASSUME DraftsAssumption ==
  MaxTexts \in Nat /\ MaxIds \in Nat /\ MaxFaults \in Nat /\ MaxWire \in Nat /\ MaxDrafts \in Nat \ {0}

\* No draft yet, and no text.
NoDraft == 0
NoText == MaxTexts + 1

Texts == 0..MaxTexts
Ids == 1..MaxIds

VARIABLES
  drafts,     \* the drafts, most recently touched first
  file,       \* the text of the scenario's file
  tab,        \* tab[t]: the page's state
  wire,       \* requests and answers under way
  typed,      \* texts typed so far
  ids,        \* draft ids handed out
  faults,     \* requests refused and answers lost
  everStored, \* the texts ever stored in a draft or in the file
  dropped     \* dropped[t]: the ids t gave up, by discarding or by saving to the
              \* file, while no save of the draft was under way

draftVars == <<drafts, file, tab, wire, typed, ids, faults, everStored, dropped>>

IsOpen(t) == tab[t].at = "open"

Unopened == [at |-> "unopened", editing |-> FALSE, text |-> 0, saved |-> 0,
             id |-> NoDraft, stored |-> NoText, timer |-> FALSE,
             flight |-> FALSE, saving |-> FALSE]

DraftsInit ==
  /\ drafts = <<>> /\ file = 0 /\ wire = {}
  /\ tab = [t \in Tabs |-> Unopened]
  /\ typed = 0 /\ ids = 0 /\ faults = 0 /\ everStored = {0}
  /\ dropped = [t \in Tabs |-> {}]

-----------------------------------------------------------------------------
(***************************************************************************)
(* The store.                                                              *)
(***************************************************************************)

Stored == Range(drafts)
With(id) == {d \in Stored : d.id = id}

\* Deleting what the bucket holds under a key: one draft or none.
Without(id) ==
  IF With(id) = {} THEN drafts
  ELSE RemoveAt(drafts, CHOOSE k \in DOMAIN drafts : drafts[k].id = id)

\* Only so many drafts are kept, the least recently touched go.
PruneDrafts(all) == SubSeq(all, 1, IF Len(all) < MaxDrafts THEN Len(all) ELSE MaxDrafts)

\* Creating or replacing: one that was deleted comes back.
SaveDraft(id, d) == PruneDrafts(<<[d EXCEPT !.id = id]>> \o Without(id))

\* The draft with a scenario's unsaved changes, if there is one: the first in no
\* order but that of the list.
DraftForScenario ==
  {d \in Stored : \E k \in DOMAIN drafts :
     /\ d = drafts[k] /\ d.edits
     /\ \A j \in DOMAIN drafts : j < k => ~ drafts[j].edits}

-----------------------------------------------------------------------------
(***************************************************************************)
(* The page.                                                               *)
(***************************************************************************)

Show(t, editing, text, saved, id, stored) ==
  /\ tab[t].at = "unopened"
  /\ tab' = [tab EXCEPT ![t] =
       [Unopened EXCEPT !.at = "open", !.editing = editing, !.text = text,
                        !.saved = saved, !.id = id, !.stored = stored]]
  /\ UNCHANGED <<drafts, file, wire, typed, ids, faults, everStored, dropped>>

\* A page for a new scenario, for a draft, or for the scenario's file.  The last
\* offers a draft of changes that were never saved.
OpenPlayground(t) == Show(t, FALSE, 0, 0, NoDraft, NoText)

OpenDraft(t) == \E d \in Stored :
  Show(t, d.edits, d.text, IF d.edits THEN file ELSE d.text, d.id, d.text)

OpenEdit(t) ==
  \/ \E d \in DraftForScenario : d.text # file /\ Show(t, TRUE, d.text, file, d.id, d.text)
  \/ /\ \A d \in DraftForScenario : d.text = file
     /\ Show(t, TRUE, file, file, NoDraft, NoText)

Type(t) ==
  /\ IsOpen(t) /\ typed < MaxTexts
  /\ typed' = typed + 1
  /\ tab' = [tab EXCEPT ![t].text = typed + 1, ![t].timer = TRUE]
  /\ UNCHANGED <<drafts, file, wire, ids, faults, everStored, dropped>>

\* Typing what the file holds.
PutBack(t) ==
  /\ IsOpen(t) /\ typed < MaxTexts /\ tab[t].editing /\ tab[t].text # tab[t].saved
  /\ typed' = typed + 1
  /\ tab' = [tab EXCEPT ![t].text = tab[t].saved, ![t].timer = TRUE]
  /\ UNCHANGED <<drafts, file, wire, ids, faults, everStored, dropped>>

\* Bound on what is under way.
MayAsk == Cardinality(wire) < MaxWire

Request(t, kind) ==
  [kind |-> kind, tab |-> t, id |-> tab[t].id, text |-> tab[t].text, edits |-> tab[t].editing]

\* A fault to seed: the page remembers the draft it has discarded.
DiscardedKept(t, after) ==
  /\ wire' = wire \union {Request(t, "discard")}
  /\ tab' = [tab EXCEPT ![t] = [after EXCEPT !.stored = NoText]]
  /\ dropped' = IF tab[t].flight THEN dropped ELSE [dropped EXCEPT ![t] = @ \union {tab[t].id}]

\* Discarding: the page forgets the draft and tells the server.
Discarded(t, after) ==
  /\ wire' = wire \union {Request(t, "discard")}
  /\ tab' = [tab EXCEPT ![t] = [after EXCEPT !.id = NoDraft, !.stored = NoText]]
  /\ dropped' = IF tab[t].flight THEN dropped ELSE [dropped EXCEPT ![t] = @ \union {tab[t].id}]

DiscardDraft(t) ==
  /\ IsOpen(t) /\ tab[t].id # NoDraft /\ MayAsk
  /\ Discarded(t, tab[t])
  /\ UNCHANGED <<drafts, file, typed, ids, faults, everStored>>

PutBackToFile(t) == tab[t].editing /\ tab[t].text = tab[t].saved

\* A fault to seed: a save does not wait for the one before it.
MaySaveAnyway(t) == tab[t].stored # tab[t].text

\* One save at a time, and none of a text already stored.
MaySave(t) == ~ tab[t].flight /\ tab[t].stored # tab[t].text

\* saveDraft, for the debounce's timer or for a run: what is typed while a save
\* is under way waits for the next occasion.
Autosave(t) ==
  /\ IsOpen(t) /\ MayAsk
  /\ LET quiet == [tab[t] EXCEPT !.timer = FALSE] IN
     \/ /\ tab[t].timer /\ ~ MaySave(t)
        /\ tab' = [tab EXCEPT ![t] = quiet]
        /\ UNCHANGED <<wire, dropped>>
     \/ /\ MaySave(t) /\ PutBackToFile(t)
        /\ IF tab[t].id # NoDraft THEN Discarded(t, quiet)
           ELSE /\ tab[t].timer /\ tab' = [tab EXCEPT ![t] = quiet]
                /\ UNCHANGED <<wire, dropped>>
     \/ /\ MaySave(t) /\ ~ PutBackToFile(t)
        /\ wire' = wire \union {Request(t, "draft")}
        /\ tab' = [tab EXCEPT ![t] = [quiet EXCEPT !.flight = TRUE]]
        /\ UNCHANGED dropped
  /\ UNCHANGED <<drafts, file, typed, ids, faults, everStored>>

\* Saving to the library.  Bound: one at a time of a page.
SaveFile(t) ==
  /\ IsOpen(t) /\ tab[t].text # tab[t].saved /\ ~ tab[t].saving /\ MayAsk
  /\ wire' = wire \union {Request(t, "file")}
  /\ tab' = [tab EXCEPT ![t].saving = TRUE]
  /\ UNCHANGED <<drafts, file, typed, ids, faults, everStored, dropped>>

Replies == {"drafted", "undrafted", "filed", "unfiled"}

\* pagehide: what is not stored goes with a beacon, unless a save is under way.
Leave(t) ==
  /\ IsOpen(t) /\ MayAsk
  /\ wire' = {m \in wire : m.tab # t \/ m.kind \notin Replies}
             \union (IF MaySave(t) /\ ~ PutBackToFile(t) THEN {Request(t, "beacon")} ELSE {})
  /\ tab' = [tab EXCEPT ![t] = [Unopened EXCEPT !.at = "left"]]
  /\ UNCHANGED <<drafts, file, typed, ids, faults, everStored, dropped>>

-----------------------------------------------------------------------------
(***************************************************************************)
(* The server's handlers, and the answers.                                 *)
(***************************************************************************)

\* What takes m's place on the wire; a page that has left hears nothing.
Answer(m, kind) ==
  wire' = (wire \ {m}) \union (IF IsOpen(m.tab) THEN {[m EXCEPT !.kind = kind]} ELSE {})

\* handleSaveDraft.  An empty id creates a draft.
HandleSaveDraft(m) ==
  /\ m.kind \in {"draft", "beacon"}
  /\ LET id == IF m.id = NoDraft THEN ids + 1 ELSE m.id IN
     /\ id \in Ids
     /\ ids' = IF m.id = NoDraft THEN id ELSE ids
     /\ drafts' = SaveDraft(id, [id |-> id, text |-> m.text, by |-> m.tab, edits |-> m.edits])
     /\ everStored' = everStored \union {m.text}
     /\ wire' = (wire \ {m}) \union
          (IF IsOpen(m.tab) /\ m.kind = "draft" THEN {[m EXCEPT !.kind = "drafted", !.id = id]} ELSE {})
  /\ UNCHANGED <<file, tab, typed, faults, dropped>>

HandleDiscardDraft(m) ==
  /\ m.kind = "discard"
  /\ drafts' = Without(m.id) /\ wire' = wire \ {m}
  /\ UNCHANGED <<file, tab, typed, ids, faults, everStored, dropped>>

\* handleSave: the file first, the draft after.
HandleSave(m) ==
  /\ m.kind = "file"
  /\ file' = IF m.edits THEN m.text ELSE file
  /\ everStored' = everStored \union {m.text}
  /\ wire' = (wire \ {m}) \union {[m EXCEPT !.kind = "written"]}
  /\ UNCHANGED <<drafts, tab, typed, ids, faults, dropped>>

HandleSaved(m) ==
  /\ m.kind = "written"
  /\ drafts' = Without(m.id)
  /\ Answer(m, "filed")
  /\ UNCHANGED <<file, tab, typed, ids, faults, everStored, dropped>>

\* A request is refused, for the store or the library could not be written, or
\* its answer is lost.
Fail(m) ==
  /\ faults < MaxFaults /\ faults' = faults + 1
  /\ CASE m.kind \in {"draft", "drafted"} -> Answer(m, "undrafted")
       [] m.kind \in {"file", "filed"} -> Answer(m, "unfiled")
       [] m.kind \in {"beacon", "discard"} -> wire' = wire \ {m}
       [] OTHER -> FALSE
  /\ UNCHANGED <<drafts, file, tab, typed, ids, everStored, dropped>>

\* A fault to seed: what is stored is taken to be what the page holds by now.
SavedDraftNow(page, m) ==
  [page EXCEPT !.flight = FALSE, !.id = m.id, !.stored = page.text]

\* What the page makes of a draft that was stored: the text it sent is.
SavedDraft(page, m) ==
  [page EXCEPT !.flight = FALSE, !.id = m.id, !.stored = m.text]

\* And of a file: what the page holds by now is taken to be saved.
SavedFile(page) ==
  [page EXCEPT !.saving = FALSE, !.saved = page.text, !.id = NoDraft, !.stored = NoText]

Receive(m) ==
  /\ m.kind \in Replies
  /\ wire' = wire \ {m}
  /\ tab' = [tab EXCEPT ![m.tab] =
       CASE m.kind = "drafted" -> SavedDraft(@, m)
         [] m.kind = "filed" -> SavedFile(@)
         [] m.kind = "undrafted" -> [@ EXCEPT !.flight = FALSE]
         [] OTHER -> [@ EXCEPT !.saving = FALSE]]
  /\ dropped' = LET t == m.tab IN
       IF m.kind = "filed" /\ IsOpen(t) /\ tab[t].id # NoDraft /\ ~ tab[t].flight
       THEN [dropped EXCEPT ![t] = @ \union {tab[t].id}] ELSE dropped
  /\ UNCHANGED <<drafts, file, typed, ids, faults, everStored>>

\* A draft discarded from the list on any page.
DiscardFromList(id) ==
  /\ With(id) # {} /\ drafts' = Without(id)
  /\ UNCHANGED <<file, tab, wire, typed, ids, faults, everStored, dropped>>

Page(t) ==
  \/ OpenPlayground(t) \/ OpenDraft(t) \/ OpenEdit(t) \/ Type(t) \/ PutBack(t)
  \/ DiscardDraft(t) \/ Autosave(t) \/ SaveFile(t) \/ Leave(t)

Traffic ==
  \E m \in wire :
    \/ HandleSaveDraft(m) \/ HandleDiscardDraft(m) \/ HandleSave(m) \/ HandleSaved(m)
    \/ Fail(m) \/ Receive(m)

-----------------------------------------------------------------------------
(***************************************************************************)
(* What the page says of a draft is so: a text it takes for stored reached *)
(* the store, whatever was typed while the save was under way, refused or  *)
(* lost.  A page that were wrong would neither save the text again nor     *)
(* send it with the beacon.                                                *)
(***************************************************************************)
StoredIsStored == \A t \in Tabs : IsOpen(t) /\ tab[t].stored # NoText => tab[t].stored \in everStored

(***************************************************************************)
(* A page's older text never replaces a newer one of its own: its saves    *)
(* are one at a time (draftInFlight), so that requests overtaking each     *)
(* other do no harm, and the beacon stays behind when one is under way.    *)
(***************************************************************************)
NeverOlder ==
  [][\A old \in Range(drafts), new \in Range(drafts') :
       old.id = new.id /\ old.by = new.by => new.text >= old.text]_draftVars

(***************************************************************************)
(* A draft a page gave up -- discarded, or turned into a file -- while no  *)
(* save of it was under way is not brought back by that page: the store    *)
(* would create it again for any save that names it.  It does for one that *)
(* was under way by then, which GoneStaysGone shows.                       *)
(***************************************************************************)
DiscardedStaysGone ==
  \A m \in wire : m.kind \in {"draft", "beacon"} => m.id \notin dropped[m.tab]

(***************************************************************************)
(* What a page knows of its draft is so: the text it takes for stored      *)
(* reached the store, and a draft it gave up, with no save of it under     *)
(* way, it does not bring back.                                            *)
(***************************************************************************)
DraftKnown == StoredIsStored /\ DiscardedStaysGone

(***************************************************************************)
(* What playground.js:141 says of a draft that is discarded: the text stays *)
(* in the editor "until you leave the page, and then it is gone".  A draft  *)
(* the store did not hold before has a new id.                             *)
(***************************************************************************)
GoneStaysGone ==
  [][\A d \in Range(drafts') :
       d.id > ids \/ \E old \in Range(drafts) : old.id = d.id]_draftVars

(***************************************************************************)
(* What playground.js:350 says of leaving the page: it "must not cost the  *)
(* buffer".  What the page holds is in the store, or on its way there.     *)
(***************************************************************************)
LeavingKeepsTheBuffer ==
  [][\A t \in Tabs : IsOpen(t) /\ tab'[t].at = "left" =>
       \/ tab[t].text \in everStored
       \/ \E m \in wire' : /\ m.tab = t /\ m.text = tab[t].text
                           /\ m.kind \in {"draft", "beacon", "file", "written"}]_draftVars
=============================================================================
