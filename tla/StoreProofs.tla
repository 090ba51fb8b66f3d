----------------------------- MODULE StoreProofs -----------------------------
(***************************************************************************)
(* Theorems about what is kept on disk.  Of Store: the versions of the     *)
(* configuration, for any number of tabs, keys, forms and versions; and    *)
(* the drafts, for any number of tabs, texts, drafts, messages and faults. *)
(* Of Library: the files, the library loaded from them and the revisions,  *)
(* for any files, documents, ids and requests.                             *)
(***************************************************************************)
EXTENDS Store, Library, SequenceTheorems, FiniteSetTheorems, WellFoundedInduction, TLAPS

Config == [key : Keys \union {NoKey}, form : Forms]

Requests ==
  {NoRequest}
  \union [at : {"save"}, key : Keys \union {NoKey}, clear : BOOLEAN, config : Config]

(***************************************************************************)
(* The inductive invariant.  That the version in force is the newest is    *)
(* what makes the number after it a new one.                               *)
(***************************************************************************)
SettingsInv ==
  /\ versions \in Seq(Config) /\ Len(versions) \in 1..MaxVersions
  /\ current = Len(versions)
  /\ request \in [Requesters -> Requests]

\* What one step does to the versions.
VersionsKept == IsPrefix(versions, versions') /\ current' = Len(versions')

-----------------------------------------------------------------------------
\* Nothing is lost by writing nothing, nor by writing one version more.
LEMMA PrefixOfLonger ==
  ASSUME NEW S, NEW s \in Seq(S), NEW x \in S
  PROVE  IsPrefix(s, s) /\ IsPrefix(s, Append(s, x))
  BY DEF IsPrefix

\* Laying a form over a configuration gives a configuration.
LEMMA OverlaidIsConfig ==
  ASSUME NEW config \in Config, NEW key \in Keys \union {NoKey}, NEW clear \in BOOLEAN,
         NEW form \in Forms
  PROVE  Overlay(config, key, clear, form) \in Config
  BY DEF Overlay, Config

\* The number after the one in force is written at the end.
LEMMA WrittenAtTheEnd ==
  ASSUME SettingsInv, NEW config \in Config, WriteVersion(current + 1, config)
  PROVE  /\ versions' = Append(versions, config)
         /\ versions' \in Seq(Config) /\ Len(versions') \in 1..MaxVersions
         /\ current' = Len(versions')
<1>1. ~ current + 1 <= Len(versions)
  BY DEF SettingsInv
<1>2. /\ versions' = Append(versions, config)
      /\ current' = current + 1 /\ current + 1 <= MaxVersions
  BY <1>1 DEF WriteVersion
<1> QED
  BY <1>2, SettingsAssumption DEF SettingsInv

\* A save writes one version more.
LEMMA SavesVersion ==
  ASSUME SettingsInv, NEW p \in Requesters, Save(p)
  PROVE  SettingsInv' /\ VersionsKept
<1>1. request[p].config \in Config
  BY DEF SettingsInv, Save, Requests, NoRequest
<1>2. WriteVersion(current + 1, request[p].config) /\ request' = [request EXCEPT ![p] = NoRequest]
  BY DEF Save
<1>3. request' \in [Requesters -> Requests]
  BY <1>2 DEF SettingsInv, Requests
<1>4. /\ versions' = Append(versions, request[p].config)
      /\ versions' \in Seq(Config) /\ Len(versions') \in 1..MaxVersions
      /\ current' = Len(versions')
  BY <1>1, <1>2, WrittenAtTheEnd
<1>5. IsPrefix(versions, versions')
  BY <1>1, <1>4, PrefixOfLonger DEF SettingsInv
<1> QED
  BY <1>3, <1>4, <1>5 DEF SettingsInv, VersionsKept

\* A restore copies an old version forward.
LEMMA RestoresVersion ==
  ASSUME SettingsInv, NEW p \in Requesters, Restore(p)
  PROVE  SettingsInv' /\ VersionsKept
<1>1. PICK old \in 1..Len(versions) : WriteVersion(current + 1, versions[old])
  BY DEF Restore
<1>2. versions[old] \in Config
  BY DEF SettingsInv
<1>3. UNCHANGED request
  BY DEF Restore
<1> QED
  BY <1>1, <1>2, <1>3, WrittenAtTheEnd, PrefixOfLonger DEF SettingsInv, VersionsKept

\* Reading and refusing change no version.
LEMMA RequestsOnly ==
  ASSUME SettingsInv, NEW p \in Requesters, BeginSave(p) \/ RefuseSave(p)
  PROVE  SettingsInv' /\ VersionsKept
<1>1. UNCHANGED <<versions, current>>
  BY DEF BeginSave, RefuseSave
<1>2. VersionsKept
  <2>1. IsPrefix(versions, versions)
    BY DEF SettingsInv, IsPrefix
  <2> QED
    BY <1>1, <2>1 DEF SettingsInv, VersionsKept
<1>3. request' \in [Requesters -> Requests]
  <2>1. CASE BeginSave(p)
    <3>1. PICK key \in Keys \union {NoKey}, clear \in BOOLEAN, form \in Forms :
            request' = [request EXCEPT ![p] =
              [at |-> "save", key |-> key, clear |-> clear,
               config |-> Overlay(versions[current], key, clear, form)]]
      BY <2>1 DEF BeginSave
    <3>2. versions[current] \in Config
      BY DEF SettingsInv
    <3>3. Overlay(versions[current], key, clear, form) \in Config
      BY <3>2, OverlaidIsConfig
    <3> QED
      BY <3>1, <3>3 DEF SettingsInv, Requests
  <2>2. CASE RefuseSave(p)
    BY <2>2 DEF RefuseSave, SettingsInv, Requests
  <2> QED
    BY <2>1, <2>2
<1> QED
  BY <1>1, <1>2, <1>3 DEF SettingsInv

\* Every step keeps the invariant, and the versions or everything about them.
LEMMA NextKeepsVersions ==
  ASSUME SettingsInv, [Next]_storeVars
  PROVE  SettingsInv' /\ (VersionsKept \/ UNCHANGED settingsVars)
<1>1. CASE Configure
  <2>1. PICK p \in Requesters : SettingsStep(p)
    BY <1>1, StoreAssumption DEF Configure
  <2> QED
    BY <2>1, SavesVersion, RestoresVersion, RequestsOnly DEF SettingsStep
<1>2. CASE UNCHANGED settingsVars
  BY <1>2 DEF settingsVars, SettingsInv
<1> QED
  BY <1>1, <1>2 DEF Next, Edit, storeVars

-----------------------------------------------------------------------------
\* The versions are numbered without a gap and the one in force is the newest,
\* whatever is saved and restored by however many tabs.
THEOREM SettingsInvariant == Spec => []SettingsInv
<1>1. Init => SettingsInv
  BY SettingsAssumption DEF Init, SettingsInit, SettingsInv, Config, Requests
<1>2. SettingsInv /\ [Next]_storeVars => SettingsInv'
  BY NextKeepsVersions
<1> QED
  BY <1>1, <1>2, PTL DEF Spec

\* No version is ever changed or lost.
THEOREM SettingsAreKept == Spec => SettingsKept
<1>1. SettingsInv /\ [Next]_storeVars =>
        [IsPrefix(versions, versions') /\ current' = Len(versions')]_settingsVars
  BY NextKeepsVersions DEF VersionsKept
<1> QED
  BY <1>1, SettingsInvariant, PTL DEF Spec, SettingsKept

-----------------------------------------------------------------------------
(***************************************************************************)
(* Drafts.  A page waits for the answer of a save before it sends another  *)
(* one, so of each page at most one save is under way, question or answer. *)
(* From this follows that a text never overtakes a later one, and that     *)
(* nothing under way names a draft its page has discarded.                 *)
(***************************************************************************)
Row == [id : Nat, text : Nat, by : Tabs, edits : BOOLEAN]

PageState ==
  [at : {"unopened", "open", "left"}, editing : BOOLEAN, text : Nat, saved : Nat, id : Nat,
   stored : Nat, timer : BOOLEAN, flight : BOOLEAN, saving : BOOLEAN]

Kinds == {"draft", "beacon", "discard", "file", "written"} \union Replies

Message == [kind : Kinds, tab : Tabs, id : Nat, text : Nat, edits : BOOLEAN]

DraftTypes ==
  /\ drafts \in Seq(Row) /\ wire \subseteq Message /\ tab \in [Tabs -> PageState]
  /\ file \in Nat /\ typed \in Nat /\ ids \in Nat
  /\ dropped \in [Tabs -> SUBSET Nat]

\* The bucket holds one draft under a key.
OneEach(rows) == \A j, k \in DOMAIN rows : rows[j].id = rows[k].id => j = k

\* A save that may still reach the store, and a save of which the page has not
\* heard: it, its answer, or what it leaves behind.
Saves(m) == m.kind \in {"draft", "beacon"}
UnderWay(m) == m.kind \in {"draft", "drafted", "undrafted", "beacon"}

OneUnderWay ==
  \A m, n \in wire : m.tab = n.tab /\ UnderWay(m) /\ UnderWay(n) => m = n

RowFits(d) == d.id \in 1..ids /\ d.text <= typed /\ d.text \in everStored

MessageFits(m) ==
  /\ m.id <= ids /\ m.text <= typed
  /\ m.kind = "drafted" => m.text \in everStored
  /\ UnderWay(m) /\ m.kind # "undrafted" => m.id \notin dropped[m.tab]
  /\ UnderWay(m) /\ IsOpen(m.tab) => tab[m.tab].flight
  /\ m.kind = "beacon" => ~ IsOpen(m.tab)
  /\ tab[m.tab].at # "unopened"
  /\ Saves(m) =>
       /\ \A d \in Stored : d.by = m.tab => d.text <= m.text
       /\ IsOpen(m.tab) /\ ~ PutBackToFile(m.tab) => m.text <= tab[m.tab].text

TabFits(t) ==
  /\ dropped[t] \subseteq 1..ids
  /\ tab[t].id <= ids /\ tab[t].text <= typed /\ tab[t].saved <= typed
  /\ tab[t].at = "unopened" => dropped[t] = {} /\ \A d \in Stored : d.by # t
  /\ IsOpen(t) =>
       /\ tab[t].id \notin dropped[t]
       /\ tab[t].stored # NoText => tab[t].stored \in everStored
       /\ ~ PutBackToFile(t) => \A d \in Stored : d.by = t => d.text <= tab[t].text

DraftsInv ==
  /\ DraftTypes /\ file <= typed
  /\ OneEach(drafts) /\ OneUnderWay
  /\ \A d \in Stored : RowFits(d)
  /\ \A m \in wire : MessageFits(m)
  /\ \A t \in Tabs : TabFits(t)

\* What one step does to the drafts of a page.
NotOlder ==
  \A old \in Range(drafts), new \in Range(drafts') :
    old.id = new.id /\ old.by = new.by => new.text >= old.text

-----------------------------------------------------------------------------
\* A sequence without one of its elements.
LEMMA RemovedAt ==
  ASSUME NEW S, NEW s \in Seq(S), NEW i \in 1..Len(s)
  PROVE  /\ RemoveAt(s, i) \in Seq(S) /\ Len(RemoveAt(s, i)) = Len(s) - 1
         /\ \A k \in 1..(Len(s) - 1) : RemoveAt(s, i)[k] = IF k < i THEN s[k] ELSE s[k + 1]
<1> DEFINE a == SubSeq(s, 1, i - 1)
           b == SubSeq(s, i + 1, Len(s))
<1>1. Len(s) \in Nat /\ \A k \in 1..Len(s) : s[k] \in S
  OBVIOUS
<1>2. /\ a \in Seq(S) /\ Len(a) = i - 1
      /\ \A k \in 1..(i - 1) : a[k] = s[k]
  <2>1. i - 1 \in Int /\ \A k \in 1..(i - 1) : s[k] \in S
    BY <1>1
  <2>2. /\ a \in Seq(S) /\ Len(a) = IF 1 <= i - 1 THEN i - 1 - 1 + 1 ELSE 0
        /\ \A k \in 1..(i - 1 - 1 + 1) : a[k] = s[1 + k - 1]
    BY <2>1, SubSeqProperties
  <2> HIDE DEF a
  <2>3. \A k \in 1..(i - 1) : a[k] = s[k]
    <3> SUFFICES ASSUME NEW k \in 1..(i - 1) PROVE a[k] = s[k]
      OBVIOUS
    <3>1. k \in 1..(i - 1 - 1 + 1) /\ 1 + k - 1 = k
      BY <1>1
    <3> QED
      BY <2>2, <3>1
  <2> QED
    BY <1>1, <2>2, <2>3
<1>3. /\ b \in Seq(S) /\ Len(b) = Len(s) - i
      /\ \A k \in 1..(Len(s) - i) : b[k] = s[i + k]
  <2>1. i + 1 \in Int /\ Len(s) \in Int /\ \A k \in (i + 1)..Len(s) : s[k] \in S
    BY <1>1
  <2>2. /\ b \in Seq(S) /\ Len(b) = IF i + 1 <= Len(s) THEN Len(s) - (i + 1) + 1 ELSE 0
        /\ \A k \in 1..(Len(s) - (i + 1) + 1) : b[k] = s[i + 1 + k - 1]
    BY <2>1, SubSeqProperties
  <2> HIDE DEF b
  <2>3. \A k \in 1..(Len(s) - i) : b[k] = s[i + k]
    <3> SUFFICES ASSUME NEW k \in 1..(Len(s) - i) PROVE b[k] = s[i + k]
      OBVIOUS
    <3>1. k \in 1..(Len(s) - (i + 1) + 1) /\ i + 1 + k - 1 = i + k
      BY <1>1
    <3> QED
      BY <2>2, <3>1
  <2> QED
    BY <1>1, <2>2, <2>3
<1> HIDE DEF a, b
<1>4. /\ a \o b \in Seq(S) /\ Len(a \o b) = Len(a) + Len(b)
      /\ \A k \in 1..(Len(a) + Len(b)) : (a \o b)[k] = IF k <= Len(a) THEN a[k] ELSE b[k - Len(a)]
  BY <1>2, <1>3, ConcatProperties
<1>5. Len(a) + Len(b) = Len(s) - 1
  BY <1>1, <1>2, <1>3
<1>6. \A k \in 1..(Len(s) - 1) : (a \o b)[k] = IF k < i THEN s[k] ELSE s[k + 1]
  <2> SUFFICES ASSUME NEW k \in 1..(Len(s) - 1)
               PROVE  (a \o b)[k] = IF k < i THEN s[k] ELSE s[k + 1]
    OBVIOUS
  <2>1. CASE k < i
    <3>1. k <= Len(a) /\ k \in 1..(i - 1) /\ k \in 1..(Len(a) + Len(b))
      BY <1>1, <1>2, <1>5, <2>1
    <3> QED
      BY <1>2, <1>4, <2>1, <3>1
  <2>2. CASE ~ (k < i)
    <3>1. /\ ~ (k <= Len(a)) /\ k - Len(a) \in 1..(Len(s) - i) /\ i + (k - Len(a)) = k + 1
          /\ k \in 1..(Len(a) + Len(b))
      BY <1>1, <1>2, <1>5, <2>2
    <3>2. b[k - Len(a)] = s[k + 1]
      BY <1>3, <3>1
    <3> QED
      BY <1>4, <2>2, <3>1, <3>2
  <2> QED
    BY <2>1, <2>2
<1>7. RemoveAt(s, i) = a \o b
  BY DEF RemoveAt, a, b
<1> QED
  BY <1>4, <1>5, <1>6, <1>7

\* Deleting leaves the other drafts, one each.
LEMMA WithoutIsRight ==
  ASSUME drafts \in Seq(Row), OneEach(drafts), NEW id
  PROVE  /\ Without(id) \in Seq(Row) /\ OneEach(Without(id))
         /\ Range(Without(id)) \subseteq Stored
         /\ \A d \in Range(Without(id)) : d.id # id
<1>1. DOMAIN drafts = 1..Len(drafts) /\ Len(drafts) \in Nat
  OBVIOUS
<1>2. CASE With(id) = {}
  BY <1>2 DEF Without, With, Stored
<1>3. CASE With(id) # {}
  <2> DEFINE i == CHOOSE k \in DOMAIN drafts : drafts[k].id = id
             rest == RemoveAt(drafts, i)
  <2>1. \E k \in DOMAIN drafts : drafts[k].id = id
    BY <1>3 DEF With, Stored, Range
  <2>2. i \in DOMAIN drafts /\ drafts[i].id = id
    BY <2>1
  <2> HIDE DEF i
  <2>3. /\ rest \in Seq(Row) /\ Len(rest) = Len(drafts) - 1
        /\ \A k \in 1..(Len(drafts) - 1) : rest[k] = IF k < i THEN drafts[k] ELSE drafts[k + 1]
    BY <1>1, <2>2, RemovedAt
  <2>4. Without(id) = rest
    BY <1>3 DEF Without, i
  <2> HIDE DEF rest
  <2>5. DOMAIN rest = 1..(Len(drafts) - 1)
    BY <1>1, <2>3
  <2>6. \A k \in DOMAIN rest :
          \E j \in DOMAIN drafts : j # i /\ rest[k] = drafts[j] /\ j = IF k < i THEN k ELSE k + 1
    <3> SUFFICES ASSUME NEW k \in 1..(Len(drafts) - 1)
                 PROVE  \E j \in DOMAIN drafts : /\ j # i /\ rest[k] = drafts[j]
                                                 /\ j = IF k < i THEN k ELSE k + 1
      BY <2>5
    <3>1. CASE k < i
      BY <1>1, <2>2, <2>3, <3>1
    <3>2. CASE ~ (k < i)
      BY <1>1, <2>2, <2>3, <3>2
    <3> QED
      BY <3>1, <3>2
  <2>7. OneEach(rest)
    <3> SUFFICES ASSUME NEW j \in DOMAIN rest, NEW k \in DOMAIN rest, rest[j].id = rest[k].id
                 PROVE  j = k
      BY DEF OneEach
    <3>1. PICK p \in DOMAIN drafts : rest[j] = drafts[p] /\ p = IF j < i THEN j ELSE j + 1
      BY <2>6
    <3>2. PICK q \in DOMAIN drafts : rest[k] = drafts[q] /\ q = IF k < i THEN k ELSE k + 1
      BY <2>6
    <3>3. p = q
      BY <3>1, <3>2 DEF OneEach
    <3> QED
      BY <1>1, <2>2, <2>5, <3>1, <3>2, <3>3
  <2>8. \A d \in Range(rest) : d \in Stored /\ d.id # id
    <3> SUFFICES ASSUME NEW k \in DOMAIN rest PROVE rest[k] \in Stored /\ rest[k].id # id
      BY DEF Range
    <3>1. PICK j \in DOMAIN drafts : j # i /\ rest[k] = drafts[j]
      BY <2>6
    <3> QED
      BY <2>2, <3>1 DEF OneEach, Stored, Range
  <2> QED
    BY <2>3, <2>4, <2>7, <2>8
<1> QED
  BY <1>2, <1>3

\* Saving puts the draft first and keeps of the others no more than before.
LEMMA SaveDraftIsRight ==
  ASSUME drafts \in Seq(Row), OneEach(drafts), NEW d \in Row
  PROVE  /\ SaveDraft(d.id, d) \in Seq(Row) /\ OneEach(SaveDraft(d.id, d))
         /\ Range(SaveDraft(d.id, d)) \subseteq {d} \union Stored
<1> DEFINE rest == Without(d.id)
           all == <<d>> \o rest
           n == IF Len(all) < MaxDrafts THEN Len(all) ELSE MaxDrafts
<1>1. /\ rest \in Seq(Row) /\ OneEach(rest) /\ Range(rest) \subseteq Stored
      /\ \A r \in Range(rest) : r.id # d.id
  BY WithoutIsRight
<1>2. [d EXCEPT !.id = d.id] = d
  BY DEF Row
<1>3. SaveDraft(d.id, d) = SubSeq(all, 1, n)
  BY <1>2 DEF SaveDraft, PruneDrafts
<1> HIDE DEF rest
<1>4. /\ all \in Seq(Row) /\ Len(all) = Len(rest) + 1
      /\ \A k \in 1..(Len(rest) + 1) : all[k] = IF k = 1 THEN d ELSE rest[k - 1]
  <2> DEFINE u == <<d>>
  <2>1. u \in Seq(Row) /\ Len(u) = 1 /\ u[1] = d
    OBVIOUS
  <2> HIDE DEF u
  <2>2. /\ u \o rest \in Seq(Row) /\ Len(u \o rest) = 1 + Len(rest)
        /\ \A k \in 1..(1 + Len(rest)) : (u \o rest)[k] = IF k <= 1 THEN u[k] ELSE rest[k - 1]
    <3>1. /\ u \o rest \in Seq(Row) /\ Len(u \o rest) = Len(u) + Len(rest)
          /\ \A k \in 1..(Len(u) + Len(rest)) :
               (u \o rest)[k] = IF k <= Len(u) THEN u[k] ELSE rest[k - Len(u)]
      BY <1>1, <2>1, ConcatProperties
    <3> QED
      BY <2>1, <3>1
  <2>3. Len(rest) \in Nat
    BY <1>1
  <2>4. \A k \in 1..(Len(rest) + 1) : (u \o rest)[k] = IF k = 1 THEN d ELSE rest[k - 1]
    BY <2>1, <2>2, <2>3
  <2> QED
    BY <2>2, <2>3, <2>4 DEF u
<1>5. Len(rest) \in Nat /\ DOMAIN rest = 1..Len(rest)
  BY <1>1
<1>6. n \in 0..Len(all) /\ Len(all) \in Nat
  BY <1>4, <1>5, DraftsAssumption
<1> HIDE DEF all, n
<1> DEFINE kept == SubSeq(all, 1, n)
<1>7. kept \in Seq(Row) /\ Len(kept) = n /\ \A k \in 1..n : kept[k] = all[k]
  <2>1. n \in Int /\ \A k \in 1..n : all[k] \in Row
    BY <1>4, <1>6
  <2>2. /\ kept \in Seq(Row) /\ Len(kept) = IF 1 <= n THEN n - 1 + 1 ELSE 0
        /\ \A k \in 1..(n - 1 + 1) : kept[k] = all[1 + k - 1]
    BY <2>1, SubSeqProperties
  <2> HIDE DEF kept
  <2>3. \A k \in 1..n : kept[k] = all[k]
    <3> SUFFICES ASSUME NEW k \in 1..n PROVE kept[k] = all[k]
      OBVIOUS
    <3>1. k \in 1..(n - 1 + 1) /\ 1 + k - 1 = k
      BY <1>6
    <3> QED
      BY <2>2, <3>1
  <2> QED
    BY <1>6, <2>2, <2>3
<1> HIDE DEF kept
<1>8. DOMAIN kept = 1..n
  BY <1>6, <1>7
<1>9. \A k \in 1..n : \/ k = 1 /\ kept[k] = d
                      \/ k # 1 /\ k - 1 \in DOMAIN rest /\ kept[k] = rest[k - 1]
  BY <1>4, <1>5, <1>6, <1>7
<1>10. \A k \in DOMAIN rest : rest[k].id # d.id /\ rest[k] \in Stored
  BY <1>1 DEF Range
<1>11. OneEach(kept)
  <2> SUFFICES ASSUME NEW j \in 1..n, NEW k \in 1..n, kept[j].id = kept[k].id
               PROVE  j = k
    BY <1>8 DEF OneEach
  <2>1. CASE j = 1 \/ k = 1
    BY <1>9, <1>10, <2>1
  <2>2. CASE j # 1 /\ k # 1
    <3>1. j - 1 = k - 1
      BY <1>1, <1>9, <2>2 DEF OneEach
    <3> QED
      BY <1>6, <3>1
  <2> QED
    BY <2>1, <2>2
<1>12. Range(kept) \subseteq {d} \union Stored
  BY <1>8, <1>9, <1>10 DEF Range
<1> QED
  BY <1>3, <1>7, <1>11, <1>12 DEF kept

-----------------------------------------------------------------------------
\* What is known of a draft, a message and a page lasts.
Grows == typed <= typed' /\ ids <= ids' /\ everStored \subseteq everStored'

\* A stored draft that fits goes on to while texts and ids only grow.
LEMMA RowStays ==
  ASSUME DraftTypes, DraftTypes', Grows, NEW d \in Row, RowFits(d)
  PROVE  RowFits(d)'
<1>1. d.id \in Nat /\ d.text \in Nat
  BY DEF Row
<1>2. typed \in Nat /\ typed' \in Nat /\ ids \in Nat /\ ids' \in Nat
  BY DEF DraftTypes
<1> QED
  BY <1>1, <1>2 DEF RowFits, Grows

\* A step that takes nothing from what is known of message m.
Harmless(m) ==
  /\ Saves(m) => \A d \in Range(drafts') : d.by = m.tab => d \in Stored
  /\ tab'[m.tab].at = "unopened" => tab[m.tab].at = "unopened"
  /\ tab'[m.tab].at = "open" => tab[m.tab].at = "open"
  /\ UnderWay(m) =>
       /\ dropped'[m.tab] = dropped[m.tab] \/ ~ tab[m.tab].flight
       /\ tab'[m.tab].at = "open" =>
            /\ tab[m.tab].flight => tab'[m.tab].flight
            /\ \/ PutBackToFile(m.tab)'
               \/ tab[m.tab].text < typed' /\ tab'[m.tab].text = typed'
               \/ ~ PutBackToFile(m.tab) /\ tab'[m.tab].text = tab[m.tab].text
       /\ dropped'[m.tab] = dropped[m.tab] \/ tab[m.tab].at = "open"

\* So does a message under way, when its page does it no harm.
LEMMA MessageStays ==
  ASSUME DraftTypes, DraftTypes', Grows, NEW m \in Message, MessageFits(m), Harmless(m)
  PROVE  MessageFits(m)'
<1>1. m.id \in Nat /\ m.text \in Nat /\ m.tab \in Tabs
  BY DEF Message
<1>2. /\ typed \in Nat /\ typed' \in Nat /\ ids \in Nat /\ ids' \in Nat
      /\ tab[m.tab] \in PageState /\ tab'[m.tab] \in PageState
  BY <1>1 DEF DraftTypes
<1>3. tab[m.tab].text \in Nat /\ tab'[m.tab].text \in Nat
  BY <1>2 DEF PageState
<1>4. m.id <= ids' /\ m.text <= typed' /\ (m.kind = "drafted" => m.text \in everStored')
  BY <1>1, <1>2 DEF MessageFits, Grows
<1>5. UnderWay(m) /\ m.kind # "undrafted" => m.id \notin dropped'[m.tab]
  BY DEF MessageFits, Harmless, IsOpen
<1>6. /\ UnderWay(m) /\ tab'[m.tab].at = "open" => tab'[m.tab].flight
      /\ m.kind = "beacon" => ~ (tab'[m.tab].at = "open")
      /\ tab'[m.tab].at # "unopened"
  BY DEF MessageFits, Harmless, IsOpen
<1>7. ASSUME Saves(m)
      PROVE  /\ \A d \in Range(drafts') : d.by = m.tab => d.text <= m.text
             /\ tab'[m.tab].at = "open" /\ ~ PutBackToFile(m.tab)' => m.text <= tab'[m.tab].text
  <2>1. \A d \in Stored : d.by = m.tab => d.text <= m.text
    BY <1>7 DEF MessageFits
  <2>2. UnderWay(m)
    BY <1>7 DEF Saves, UnderWay
  <2>3. tab[m.tab].at = "open" /\ ~ PutBackToFile(m.tab) => m.text <= tab[m.tab].text
    BY <1>7 DEF MessageFits, IsOpen
  <2>4. ASSUME tab'[m.tab].at = "open", ~ PutBackToFile(m.tab)'
        PROVE  m.text <= tab'[m.tab].text
    <3>1. tab[m.tab].at = "open"
      BY <2>4 DEF Harmless
    <3>2. CASE tab[m.tab].text < typed' /\ tab'[m.tab].text = typed'
      BY <1>4, <3>2
    <3>3. CASE ~ PutBackToFile(m.tab) /\ tab'[m.tab].text = tab[m.tab].text
      BY <2>3, <3>1, <3>3
    <3> QED
      BY <2>2, <2>4, <3>2, <3>3 DEF Harmless
  <2> QED
    BY <1>7, <2>1, <2>4 DEF Harmless
<1> QED
  BY <1>4, <1>5, <1>6, <1>7 DEF MessageFits, IsOpen, Stored

\* A step that leaves a page alone.
LeavesAlone(t) ==
  /\ tab'[t] = tab[t] /\ dropped'[t] = dropped[t]
  /\ \A d \in Range(drafts') : d.by = t => d \in Stored

\* So does a page that the step leaves alone.
LEMMA TabStays ==
  ASSUME DraftTypes, DraftTypes', Grows, NEW t \in Tabs, TabFits(t), LeavesAlone(t)
  PROVE  TabFits(t)'
<1>1. /\ tab[t].id \in Nat /\ tab[t].text \in Nat /\ tab[t].saved \in Nat
      /\ typed \in Nat /\ typed' \in Nat /\ ids \in Nat /\ ids' \in Nat /\ dropped[t] \subseteq Nat
  BY DEF DraftTypes, PageState
<1>2. /\ dropped[t] \subseteq 1..ids' /\ tab[t].id <= ids' /\ tab[t].text <= typed'
      /\ tab[t].saved <= typed'
  BY <1>1 DEF TabFits, Grows
<1>3. PutBackToFile(t)' <=> PutBackToFile(t)
  BY DEF LeavesAlone, PutBackToFile
<1>4. IsOpen(t)' <=> IsOpen(t)
  BY DEF LeavesAlone, IsOpen
<1>5. tab[t].stored \in everStored => tab[t].stored \in everStored'
  BY DEF Grows
<1> QED
  BY <1>2, <1>3, <1>4, <1>5 DEF TabFits, LeavesAlone, Stored

\* A step that leaves a message's page alone does the message no harm.
LEMMA MessageLeftAlone ==
  ASSUME NEW m, LeavesAlone(m.tab)
  PROVE  Harmless(m)
<1>1. PutBackToFile(m.tab)' <=> PutBackToFile(m.tab)
  BY DEF LeavesAlone, PutBackToFile
<1> QED
  BY <1>1 DEF LeavesAlone, Harmless

\* Where no draft is added none is replaced.
LEMMA NothingReplaced ==
  ASSUME DraftTypes, OneEach(drafts), Range(drafts') \subseteq Stored
  PROVE  NotOlder
<1> SUFFICES ASSUME NEW old \in Stored, NEW new \in Stored, old.id = new.id
             PROVE  new.text >= old.text
  BY DEF NotOlder, Stored
<1>1. old = new
  BY DEF Stored, Range, OneEach
<1>2. old.text \in Nat
  <2>1. PICK k \in DOMAIN drafts : old = drafts[k]
    BY DEF Stored, Range
  <2>2. old \in Row
    BY <2>1 DEF DraftTypes
  <2> QED
    BY <2>2 DEF Row
<1> QED
  BY <1>1, <1>2

\* A step of one page.
LEMMA PageStepKeeps ==
  ASSUME DraftsInv, NEW t \in Tabs, UNCHANGED <<drafts, file, ids, everStored>>,
         typed <= typed', DraftTypes', TabFits(t)', OneUnderWay',
         \A u \in Tabs : u # t => tab'[u] = tab[u] /\ dropped'[u] = dropped[u],
         \A m \in wire \intersect wire' : m.tab = t => Harmless(m),
         \A m \in wire' : m \notin wire => MessageFits(m)'
  PROVE  DraftsInv' /\ NotOlder
<1>1. /\ DraftTypes /\ Grows /\ file <= typed' /\ OneEach(drafts') /\ file' = file
      /\ Range(drafts') = Stored
  <2>1. DraftTypes /\ file <= typed /\ OneEach(drafts)
    BY DEF DraftsInv
  <2>2. file \in Nat /\ typed \in Nat /\ typed' \in Nat /\ ids \in Nat
    BY <2>1 DEF DraftTypes
  <2> QED
    BY <2>1, <2>2 DEF Grows, Stored
<1>2. ASSUME NEW d \in Range(drafts') PROVE RowFits(d)'
  <2>1. d \in Row /\ RowFits(d)
    BY <1>1 DEF DraftsInv, DraftTypes, Stored, Range
  <2> QED
    BY <1>1, <2>1, RowStays
<1>3. ASSUME NEW u \in Tabs, u # t PROVE LeavesAlone(u) /\ TabFits(u)'
  <2>1. LeavesAlone(u)
    BY <1>1, <1>3 DEF LeavesAlone
  <2> QED
    BY <1>1, <2>1, TabStays DEF DraftsInv
<1>4. ASSUME NEW m \in wire' PROVE MessageFits(m)'
  <2>1. CASE m \notin wire
    BY <2>1
  <2>2. CASE m \in wire
    <3>1. MessageFits(m) /\ m \in Message /\ m.tab \in Tabs
      BY <2>2 DEF DraftsInv, DraftTypes, Message
    <3>2. Harmless(m)
      <4>1. CASE m.tab = t
        BY <2>2, <4>1
      <4>2. CASE m.tab # t
        BY <1>3, <3>1, <4>2, MessageLeftAlone
      <4> QED
        BY <4>1, <4>2
    <3> QED
      BY <1>1, <3>1, <3>2, MessageStays
  <2> QED
    BY <2>1, <2>2
<1>5. NotOlder
  BY <1>1, NothingReplaced DEF DraftsInv
<1> QED
  BY <1>1, <1>2, <1>3, <1>4, <1>5 DEF DraftsInv, Stored

\* What a page's step is known to keep of the types.
LEMMA PageTypes ==
  ASSUME DraftTypes, NEW t \in Tabs, UNCHANGED <<drafts, file, ids>>, typed' \in Nat,
         NEW after \in PageState, tab' = [tab EXCEPT ![t] = after],
         wire' \subseteq Message,
         dropped' = dropped \/ dropped' = [dropped EXCEPT ![t] = @ \union {tab[t].id}]
  PROVE  /\ DraftTypes' /\ tab'[t] = after
         /\ \A u \in Tabs : u # t => tab'[u] = tab[u] /\ dropped'[u] = dropped[u]
<1>1. tab \in [Tabs -> PageState] /\ dropped \in [Tabs -> SUBSET Nat]
  BY DEF DraftTypes
<1>2. tab[t].id \in Nat
  BY <1>1 DEF PageState
<1>3. dropped' \in [Tabs -> SUBSET Nat] /\ \A u \in Tabs : u # t => dropped'[u] = dropped[u]
  BY <1>1, <1>2
<1>4. tab' \in [Tabs -> PageState] /\ tab'[t] = after /\ \A u \in Tabs : u # t => tab'[u] = tab[u]
  BY <1>1
<1> QED
  BY <1>3, <1>4 DEF DraftTypes

\* What a page shows when it is opened fits.
LEMMA ShowKeeps ==
  ASSUME DraftsInv, NEW t \in Tabs, NEW editing \in BOOLEAN, NEW text \in Nat, NEW saved \in Nat,
         NEW id \in Nat, NEW stored \in Nat, Show(t, editing, text, saved, id, stored),
         text <= typed, saved <= typed, id <= ids, stored # NoText => stored \in everStored
  PROVE  DraftsInv' /\ NotOlder
<1> DEFINE after == [Unopened EXCEPT !.at = "open", !.editing = editing, !.text = text,
                                     !.saved = saved, !.id = id, !.stored = stored]
<1>1. /\ tab[t].at = "unopened" /\ tab' = [tab EXCEPT ![t] = after]
      /\ UNCHANGED <<drafts, file, wire, typed, ids, everStored, dropped>>
  BY DEF Show
<1>2. /\ after \in PageState /\ after.at = "open" /\ after.text = text /\ after.saved = saved
      /\ after.id = id /\ after.stored = stored
  BY DraftsAssumption DEF Unopened, PageState, NoDraft, NoText
<1> HIDE DEF after
<1>3. DraftTypes /\ TabFits(t) /\ OneUnderWay /\ \A m \in wire : MessageFits(m)
  BY DEF DraftsInv
<1>4. typed \in Nat /\ wire \subseteq Message /\ tab[t] \in PageState
  BY <1>3 DEF DraftTypes
<1>5. /\ DraftTypes' /\ tab'[t] = after
      /\ \A u \in Tabs : u # t => tab'[u] = tab[u] /\ dropped'[u] = dropped[u]
  BY <1>1, <1>2, <1>3, <1>4, PageTypes
<1>6. TabFits(t)'
  <2>1. dropped[t] = {} /\ \A d \in Stored : d.by # t
    BY <1>1, <1>3 DEF TabFits
  <2> QED
    BY <1>1, <1>2, <1>5, <2>1 DEF TabFits, IsOpen, Stored
<1>7. \A m \in wire : m.tab # t
  BY <1>1, <1>3 DEF MessageFits
<1>8. OneUnderWay'
  BY <1>1, <1>3 DEF OneUnderWay
<1> QED
  BY <1>1, <1>4, <1>5, <1>6, <1>7, <1>8, PageStepKeeps

\* Opening a page, of the scenario or of a draft.
LEMMA OpensKeep ==
  ASSUME DraftsInv, NEW t \in Tabs, OpenPlayground(t) \/ OpenDraft(t) \/ OpenEdit(t)
  PROVE  DraftsInv' /\ NotOlder
<1>1. file \in Nat /\ file <= typed /\ NoText \in Nat /\ typed \in Nat /\ ids \in Nat
      /\ NoDraft = 0
  BY DraftsAssumption DEF DraftsInv, DraftTypes, NoText, NoDraft
<1>2. \A d \in Stored : d \in Row /\ d.id \in Nat /\ d.id <= ids /\ d.text \in Nat
                        /\ d.text <= typed /\ d.text \in everStored /\ d.edits \in BOOLEAN
  <2> SUFFICES ASSUME NEW d \in Stored
               PROVE  d \in Row /\ d.id \in Nat /\ d.id <= ids /\ d.text \in Nat
                      /\ d.text <= typed /\ d.text \in everStored /\ d.edits \in BOOLEAN
    OBVIOUS
  <2>1. PICK k \in DOMAIN drafts : d = drafts[k]
    BY DEF Stored, Range
  <2>2. drafts \in Seq(Row) /\ RowFits(d)
    BY DEF DraftsInv, DraftTypes
  <2>3. d \in Row
    BY <2>1, <2>2
  <2>4. d.id \in 1..ids
    BY <2>2 DEF RowFits
  <2> QED
    BY <1>1, <2>2, <2>3, <2>4 DEF RowFits, Row
<1>3. CASE OpenPlayground(t)
  <2>1. Show(t, FALSE, 0, 0, NoDraft, NoText)
    BY <1>3 DEF OpenPlayground
  <2>2. 0 \in Nat /\ 0 <= typed /\ NoDraft \in Nat /\ NoDraft <= ids /\ FALSE \in BOOLEAN
    BY <1>1
  <2> QED
    BY <1>1, <2>1, <2>2, ShowKeeps
<1>4. CASE OpenDraft(t)
  <2>1. PICK d \in Stored :
          Show(t, d.edits, d.text, IF d.edits THEN file ELSE d.text, d.id, d.text)
    BY <1>4 DEF OpenDraft
  <2>2. (IF d.edits THEN file ELSE d.text) \in Nat /\ (IF d.edits THEN file ELSE d.text) <= typed
    BY <1>1, <1>2
  <2> QED
    BY <1>2, <2>1, <2>2, ShowKeeps
<1>5. CASE OpenEdit(t)
  <2>1. CASE Show(t, TRUE, file, file, NoDraft, NoText)
    <3>1. NoDraft \in Nat /\ NoDraft <= ids /\ TRUE \in BOOLEAN
      BY <1>1
    <3> QED
      BY <1>1, <2>1, <3>1, ShowKeeps
  <2>2. CASE \E d \in DraftForScenario : Show(t, TRUE, d.text, file, d.id, d.text)
    <3>1. PICK d \in Stored : Show(t, TRUE, d.text, file, d.id, d.text)
      BY <2>2 DEF DraftForScenario
    <3> QED
      BY <1>1, <1>2, <3>1, ShowKeeps
  <2> QED
    BY <1>5, <2>1, <2>2 DEF OpenEdit
<1> QED
  BY <1>3, <1>4, <1>5

\* Typing makes a newer text; putting back shows the file's again.
LEMMA TypingKeeps ==
  ASSUME DraftsInv, NEW t \in Tabs, Type(t) \/ PutBack(t)
  PROVE  DraftsInv' /\ NotOlder
<1>1. /\ IsOpen(t) /\ typed' = typed + 1
      /\ UNCHANGED <<drafts, file, wire, ids, everStored, dropped>>
      /\ \/ tab' = [tab EXCEPT ![t].text = typed + 1, ![t].timer = TRUE]
         \/ tab' = [tab EXCEPT ![t].text = tab[t].saved, ![t].timer = TRUE] /\ tab[t].editing
  BY DEF Type, PutBack
<1>2. DraftTypes /\ TabFits(t) /\ OneUnderWay
  BY DEF DraftsInv
<1>3. typed \in Nat /\ wire \subseteq Message /\ tab[t] \in PageState /\ tab \in [Tabs -> PageState]
      /\ ids \in Nat
  BY <1>2 DEF DraftTypes
<1>4. PICK new \in Nat :
        /\ tab' = [tab EXCEPT ![t] = [tab[t] EXCEPT !.text = new, !.timer = TRUE]]
        /\ \/ new = typed + 1
           \/ new = tab[t].saved /\ tab[t].editing
  <2>1. typed + 1 \in Nat /\ tab[t].saved \in Nat
    BY <1>3 DEF PageState
  <2>2. CASE tab' = [tab EXCEPT ![t].text = typed + 1, ![t].timer = TRUE]
    BY <1>3, <2>1, <2>2
  <2>3. CASE tab' = [tab EXCEPT ![t].text = tab[t].saved, ![t].timer = TRUE] /\ tab[t].editing
    BY <1>3, <2>1, <2>3
  <2> QED
    BY <1>1, <2>2, <2>3
<1> DEFINE after == [tab[t] EXCEPT !.text = new, !.timer = TRUE]
<1>5. /\ after \in PageState /\ after.text = new
      /\ after.at = tab[t].at /\ after.editing = tab[t].editing /\ after.saved = tab[t].saved
      /\ after.id = tab[t].id /\ after.stored = tab[t].stored /\ after.flight = tab[t].flight
  BY <1>3 DEF PageState
<1> HIDE DEF after
<1>6. /\ DraftTypes' /\ tab'[t] = after
      /\ \A u \in Tabs : u # t => tab'[u] = tab[u] /\ dropped'[u] = dropped[u]
  <2>1. typed' \in Nat /\ tab' = [tab EXCEPT ![t] = after]
    BY <1>1, <1>3, <1>4 DEF after
  <2> QED
    BY <1>1, <1>2, <1>3, <1>5, <2>1, PageTypes
<1>7. new <= typed' /\ tab[t].text < typed' /\ tab[t].saved <= typed'
      /\ (new = typed' \/ PutBackToFile(t)')
  <2>1. tab[t].saved \in Nat /\ tab[t].text \in Nat
    BY <1>3 DEF PageState
  <2>2. tab[t].saved <= typed /\ tab[t].text <= typed
    BY <1>2 DEF TabFits
  <2>3. new = tab[t].saved /\ tab[t].editing => PutBackToFile(t)'
    BY <1>5, <1>6 DEF PutBackToFile
  <2> QED
    BY <1>1, <1>3, <1>4, <2>1, <2>2, <2>3
<1>8. TabFits(t)'
  <2>1. ASSUME NEW d \in Stored PROVE d.text <= typed'
    <3>1. PICK k \in DOMAIN drafts : d = drafts[k]
      BY DEF Stored, Range
    <3>2. d \in Row
      BY <1>2, <3>1 DEF DraftTypes
    <3>3. d.text \in Nat /\ d.text <= typed
      BY <3>2 DEF DraftsInv, RowFits, Row
    <3> QED
      BY <1>1, <1>3, <3>3
  <2>2. ~ PutBackToFile(t)' => \A d \in Stored : d.by = t => d.text <= tab'[t].text
    BY <1>5, <1>6, <1>7, <2>1
  <2> QED
    BY <1>1, <1>2, <1>5, <1>6, <1>7, <2>2 DEF TabFits, IsOpen, Stored
<1>9. ASSUME NEW m \in wire, m.tab = t PROVE Harmless(m)
  BY <1>1, <1>5, <1>6, <1>7, <1>9 DEF Harmless, IsOpen, Stored
<1>10. OneUnderWay'
  BY <1>1, <1>2 DEF OneUnderWay
<1>11. typed <= typed'
  BY <1>1, <1>3
<1> QED
  BY <1>1, <1>6, <1>8, <1>9, <1>10, <1>11, PageStepKeeps

\* A page that differs in nothing that matters to what is under way.
SamePage(after, before) ==
  /\ after.at = before.at /\ after.editing = before.editing /\ after.text = before.text
  /\ after.saved = before.saved /\ after.id = before.id /\ after.stored = before.stored

\* A request is a message with its page's draft and text.
LEMMA RequestTyped ==
  ASSUME NEW t \in Tabs, DraftTypes, TabFits(t), NEW kind \in Kinds
  PROVE  LET m == Request(t, kind) IN
           /\ m \in Message /\ m.kind = kind /\ m.tab = t /\ m.id = tab[t].id
           /\ m.text = tab[t].text /\ m.id <= ids /\ m.text <= typed
<1>1. tab[t] \in PageState
  BY DEF DraftTypes
<1> QED
  BY <1>1 DEF Request, Message, PageState, TabFits

\* A page that discards its draft forgets its id.
LEMMA DiscardedKeeps ==
  ASSUME DraftsInv, NEW t \in Tabs, IsOpen(t), tab[t].id # NoDraft,
         NEW after \in PageState, SamePage(after, tab[t]), after.flight = tab[t].flight,
         Discarded(t, after), UNCHANGED <<drafts, file, typed, ids, everStored>>
  PROVE  DraftsInv' /\ NotOlder
<1> DEFINE next == [after EXCEPT !.id = NoDraft, !.stored = NoText]
<1>1. /\ wire' = wire \union {Request(t, "discard")} /\ tab' = [tab EXCEPT ![t] = next]
      /\ dropped' = IF tab[t].flight THEN dropped
                    ELSE [dropped EXCEPT ![t] = @ \union {tab[t].id}]
  BY DEF Discarded
<1>2. DraftTypes /\ TabFits(t) /\ OneUnderWay
  BY DEF DraftsInv
<1>3. /\ wire \subseteq Message /\ tab[t] \in PageState /\ typed \in Nat /\ ids \in Nat
      /\ dropped \in [Tabs -> SUBSET Nat] /\ NoDraft = 0 /\ tab[t].id \in Nat
  BY <1>2 DEF DraftTypes, PageState, NoDraft
<1>4. PICK new \in Message :
        /\ new = Request(t, "discard") /\ new.kind = "discard" /\ new.tab = t
        /\ new.id <= ids /\ new.text <= typed
  <2>1. "discard" \in Kinds
    BY DEF Kinds
  <2> QED
    BY <1>2, <2>1, RequestTyped
<1>5. /\ next \in PageState /\ next.id = 0 /\ next.stored = NoText /\ next.at = tab[t].at
      /\ next.editing = tab[t].editing /\ next.text = tab[t].text
      /\ next.saved = tab[t].saved /\ next.flight = tab[t].flight
  <2>1. NoDraft = 0 /\ NoDraft \in Nat /\ NoText \in Nat
    BY DraftsAssumption DEF NoDraft, NoText
  <2> QED
    BY <2>1 DEF SamePage, PageState
<1> HIDE DEF next
<1>6. wire' \subseteq Message
  BY <1>1, <1>3, <1>4
<1>7. /\ DraftTypes' /\ tab'[t] = next
      /\ \A u \in Tabs : u # t => tab'[u] = tab[u] /\ dropped'[u] = dropped[u]
  BY <1>1, <1>2, <1>3, <1>5, <1>6, PageTypes
<1>8. /\ dropped'[t] \subseteq dropped[t] \union {tab[t].id}
      /\ dropped'[t] = dropped[t] \/ ~ tab[t].flight
  BY <1>1, <1>3
<1>9. PutBackToFile(t)' <=> PutBackToFile(t)
  BY <1>5, <1>7 DEF PutBackToFile
<1>10. TabFits(t)'
  <2>1. dropped'[t] \subseteq 1..ids /\ 0 \notin dropped'[t]
    BY <1>2, <1>3, <1>8 DEF TabFits
  <2> QED
    BY <1>2, <1>3, <1>5, <1>7, <1>9, <2>1 DEF TabFits, IsOpen, Stored
<1>11. ASSUME NEW m \in wire, m.tab = t PROVE Harmless(m)
  BY <1>5, <1>7, <1>8, <1>9, <1>11 DEF Harmless, IsOpen, Stored
<1>12. ~ UnderWay(new) /\ ~ Saves(new)
  BY <1>4 DEF UnderWay, Saves
<1>13. OneUnderWay'
  BY <1>1, <1>2, <1>4, <1>12 DEF OneUnderWay
<1>14. MessageFits(new)'
  BY <1>4, <1>5, <1>7, <1>12 DEF MessageFits, IsOpen
<1> QED
  BY <1>1, <1>3, <1>4, <1>7, <1>10, <1>11, <1>13, <1>14, PageStepKeeps

\* A page's timer runs out, a save of its text or of the file leaves.
LEMMA SendingKeeps ==
  ASSUME DraftsInv, NEW t \in Tabs, IsOpen(t),
         NEW after \in PageState, SamePage(after, tab[t]), tab' = [tab EXCEPT ![t] = after],
         UNCHANGED <<drafts, file, typed, ids, everStored, dropped>>,
         \/ wire' = wire /\ after.flight = tab[t].flight
         \/ wire' = wire \union {Request(t, "file")} /\ after.flight = tab[t].flight
         \/ /\ wire' = wire \union {Request(t, "draft")} /\ after.flight
            /\ ~ tab[t].flight /\ ~ PutBackToFile(t)
  PROVE  DraftsInv' /\ NotOlder
<1>1. DraftTypes /\ TabFits(t) /\ OneUnderWay /\ \A m \in wire : MessageFits(m)
  BY DEF DraftsInv
<1>2. /\ wire \subseteq Message /\ tab[t] \in PageState /\ typed \in Nat /\ ids \in Nat
      /\ {"file", "draft"} \subseteq Kinds
  BY <1>1 DEF DraftTypes, Kinds
<1>3. \A kind \in {"file", "draft"} :
        LET m == Request(t, kind) IN
           /\ m \in Message /\ m.kind = kind /\ m.tab = t /\ m.id = tab[t].id
           /\ m.text = tab[t].text /\ m.id <= ids /\ m.text <= typed
  BY <1>1, <1>2, RequestTyped
<1>4. wire' \subseteq Message
  BY <1>2, <1>3
<1>5. /\ DraftTypes' /\ tab'[t] = after
      /\ \A u \in Tabs : u # t => tab'[u] = tab[u] /\ dropped'[u] = dropped[u]
  BY <1>1, <1>2, <1>4, PageTypes
<1>6. PutBackToFile(t)' <=> PutBackToFile(t)
  BY <1>5 DEF PutBackToFile, SamePage
<1>7. TabFits(t)'
  BY <1>1, <1>5, <1>6 DEF TabFits, IsOpen, Stored, SamePage
<1>8. ASSUME NEW m \in wire, m.tab = t PROVE Harmless(m)
  <2>1. tab[t].flight => after.flight
    OBVIOUS
  <2> QED
    BY <1>5, <1>6, <1>8, <2>1 DEF Harmless, IsOpen, Stored, SamePage
<1>9. CASE wire' = wire
  <2>1. OneUnderWay'
    BY <1>1, <1>9 DEF OneUnderWay
  <2> QED
    BY <1>2, <1>5, <1>7, <1>8, <1>9, <2>1, PageStepKeeps
<1>10. CASE wire' = wire \union {Request(t, "file")}
  <2>1. PICK new \in Message :
          /\ new = Request(t, "file") /\ new.kind = "file" /\ new.tab = t
          /\ new.id <= ids /\ new.text <= typed
    BY <1>3
  <2>2. ~ UnderWay(new) /\ ~ Saves(new)
    BY <2>1 DEF UnderWay, Saves
  <2>3. wire' = wire \union {new}
    BY <1>10, <2>1
  <2>4. OneUnderWay'
    BY <1>1, <2>2, <2>3 DEF OneUnderWay
  <2>5. MessageFits(new)'
    BY <1>5, <2>1, <2>2 DEF MessageFits, IsOpen, SamePage
  <2> QED
    BY <1>2, <1>5, <1>7, <1>8, <2>3, <2>4, <2>5, PageStepKeeps
<1>11. CASE /\ wire' = wire \union {Request(t, "draft")} /\ after.flight
            /\ ~ tab[t].flight /\ ~ PutBackToFile(t)
  <2>1. PICK new \in Message :
          /\ new = Request(t, "draft") /\ new.kind = "draft" /\ new.tab = t
          /\ new.id <= ids /\ new.text <= typed /\ new.id = tab[t].id
          /\ new.text = tab[t].text /\ tab[t].text \in Nat
    BY <1>2, <1>3 DEF PageState
  <2>2. wire' = wire \union {new}
    BY <1>11, <2>1
  <2>3. \A m \in wire : m.tab = t => ~ UnderWay(m)
    BY <1>1, <1>11 DEF MessageFits
  <2>4. OneUnderWay'
    BY <1>1, <2>1, <2>2, <2>3 DEF OneUnderWay
  <2>5. tab[t].id \notin dropped[t] /\ \A d \in Stored : d.by = t => d.text <= tab[t].text
    BY <1>1, <1>11 DEF TabFits
  <2>6. MessageFits(new)'
    BY <1>5, <1>11, <2>1, <2>5 DEF MessageFits, IsOpen, SamePage, Stored
  <2> QED
    BY <1>2, <1>5, <1>7, <1>8, <2>2, <2>4, <2>6, PageStepKeeps
<1> QED
  BY <1>9, <1>10, <1>11

\* A page sends: its autosave, a discard, a save of the file.
LEMMA AutosaveKeeps ==
  ASSUME DraftsInv, NEW t \in Tabs, Autosave(t) \/ DiscardDraft(t) \/ SaveFile(t)
  PROVE  DraftsInv' /\ NotOlder
<1> DEFINE quiet == [tab[t] EXCEPT !.timer = FALSE]
<1>1. tab[t] \in PageState /\ tab \in [Tabs -> PageState]
  BY DEF DraftsInv, DraftTypes
<1>2. /\ quiet \in PageState /\ SamePage(quiet, tab[t]) /\ quiet.flight = tab[t].flight
      /\ SamePage(tab[t], tab[t])
  BY <1>1 DEF PageState, SamePage
<1>3. CASE DiscardDraft(t)
  BY <1>1, <1>2, <1>3, DiscardedKeeps DEF DiscardDraft
<1>4. CASE SaveFile(t)
  <2> DEFINE after == [tab[t] EXCEPT !.saving = TRUE]
  <2>1. after \in PageState /\ SamePage(after, tab[t]) /\ after.flight = tab[t].flight
    BY <1>1 DEF PageState, SamePage
  <2>2. tab' = [tab EXCEPT ![t] = after]
    BY <1>1, <1>4 DEF SaveFile
  <2> HIDE DEF after
  <2> QED
    BY <1>4, <2>1, <2>2, SendingKeeps DEF SaveFile
<1>5. CASE Autosave(t)
  <2>1. IsOpen(t) /\ UNCHANGED <<drafts, file, typed, ids, everStored>>
    BY <1>5 DEF Autosave
  <2>2. CASE tab' = [tab EXCEPT ![t] = quiet] /\ UNCHANGED <<wire, dropped>>
    <3> HIDE DEF quiet
    <3> QED
      BY <1>2, <2>1, <2>2, SendingKeeps
  <2>3. CASE tab[t].id # NoDraft /\ Discarded(t, quiet)
    <3> HIDE DEF quiet
    <3> QED
      BY <1>2, <2>1, <2>3, DiscardedKeeps
  <2>4. CASE /\ MaySave(t) /\ ~ PutBackToFile(t) /\ wire' = wire \union {Request(t, "draft")}
             /\ tab' = [tab EXCEPT ![t] = [quiet EXCEPT !.flight = TRUE]] /\ UNCHANGED dropped
    <3> DEFINE after == [quiet EXCEPT !.flight = TRUE]
    <3>1. after \in PageState /\ SamePage(after, tab[t]) /\ after.flight
      BY <1>1 DEF PageState, SamePage
    <3>2. ~ tab[t].flight
      BY <2>4 DEF MaySave
    <3> HIDE DEF after
    <3>3. tab' = [tab EXCEPT ![t] = after]
      BY <2>4 DEF after
    <3> QED
      BY <2>1, <2>4, <3>1, <3>2, <3>3, SendingKeeps
  <2> QED
    BY <1>5, <2>2, <2>3, <2>4 DEF Autosave
<1> QED
  BY <1>3, <1>4, <1>5

\* Leaving, with the beacon it may send.
LEMMA LeaveKeeps ==
  ASSUME DraftsInv, NEW t \in Tabs, Leave(t)
  PROVE  DraftsInv' /\ NotOlder
<1> DEFINE after == [Unopened EXCEPT !.at = "left"]
           heard == {m \in wire : m.tab # t \/ m.kind \notin Replies}
<1>1. /\ IsOpen(t) /\ tab' = [tab EXCEPT ![t] = after]
      /\ UNCHANGED <<drafts, file, typed, ids, everStored, dropped>>
      /\ \/ wire' = heard
         \/ wire' = heard \union {Request(t, "beacon")} /\ MaySave(t) /\ ~ PutBackToFile(t)
  BY DEF Leave
<1>2. DraftTypes /\ TabFits(t) /\ OneUnderWay /\ \A m \in wire : MessageFits(m)
  BY DEF DraftsInv
<1>3. /\ wire \subseteq Message /\ tab[t] \in PageState /\ typed \in Nat /\ ids \in Nat
      /\ "beacon" \in Kinds
  BY <1>2 DEF DraftTypes, Kinds
<1>4. PICK new \in Message :
        /\ new = Request(t, "beacon") /\ new.kind = "beacon" /\ new.tab = t
        /\ new.id = tab[t].id /\ new.text = tab[t].text /\ new.id <= ids /\ new.text <= typed
  BY <1>2, <1>3, RequestTyped
<1>5. after \in PageState /\ after.at = "left" /\ after.id = 0 /\ after.text = 0 /\ after.saved = 0
  <2>1. NoDraft = 0 /\ NoText \in Nat
    BY DraftsAssumption DEF NoDraft, NoText
  <2> QED
    BY <2>1 DEF PageState, Unopened
<1> HIDE DEF after
<1>6. wire' \subseteq Message
  BY <1>1, <1>3, <1>4
<1>7. /\ DraftTypes' /\ tab'[t] = after
      /\ \A u \in Tabs : u # t => tab'[u] = tab[u] /\ dropped'[u] = dropped[u]
  BY <1>1, <1>2, <1>3, <1>5, <1>6, PageTypes
<1>8. TabFits(t)'
  BY <1>1, <1>2, <1>3, <1>5, <1>7 DEF TabFits, IsOpen
<1>9. ASSUME NEW m \in wire, m.tab = t PROVE Harmless(m)
  BY <1>1, <1>5, <1>7, <1>9 DEF Harmless, IsOpen, Stored
<1>10. CASE wire' = heard
  <2>1. OneUnderWay'
    BY <1>2, <1>10 DEF OneUnderWay
  <2>2. \A m \in wire' : m \in wire
    BY <1>10
  <2> QED
    BY <1>1, <1>3, <1>7, <1>8, <1>9, <2>1, <2>2, PageStepKeeps
<1>11. CASE wire' = heard \union {new} /\ MaySave(t) /\ ~ PutBackToFile(t)
  <2>1. \A m \in wire : m.tab = t => ~ UnderWay(m)
    BY <1>1, <1>2, <1>11 DEF MessageFits, MaySave
  <2>2. OneUnderWay'
    BY <1>2, <1>4, <1>11, <2>1 DEF OneUnderWay
  <2>3. tab[t].id \notin dropped[t] /\ \A d \in Stored : d.by = t => d.text <= tab[t].text
    BY <1>1, <1>2, <1>11 DEF TabFits
  <2>4. MessageFits(new)'
    BY <1>1, <1>4, <1>5, <1>7, <2>3 DEF MessageFits, IsOpen, Stored
  <2>5. \A m \in wire' : m \in wire \/ m = new
    BY <1>11
  <2> QED
    BY <1>1, <1>3, <1>7, <1>8, <1>9, <2>2, <2>4, <2>5, PageStepKeeps
<1> QED
  BY <1>1, <1>4, <1>10, <1>11

-----------------------------------------------------------------------------
\* A step of the server that adds no draft.
LEMMA HandlerKeeps ==
  ASSUME DraftsInv, UNCHANGED <<tab, dropped, typed, ids>>, everStored \subseteq everStored',
         DraftTypes', file' <= typed, OneEach(drafts'), Range(drafts') \subseteq Stored,
         OneUnderWay', \A m \in wire' : m \notin wire => MessageFits(m)'
  PROVE  DraftsInv' /\ NotOlder
<1>1. DraftTypes /\ OneEach(drafts) /\ typed \in Nat /\ ids \in Nat
  BY DEF DraftsInv, DraftTypes
<1>2. Grows
  BY <1>1 DEF Grows
<1>3. ASSUME NEW d \in Range(drafts') PROVE RowFits(d)'
  <2>1. d \in Stored
    OBVIOUS
  <2>2. PICK k \in DOMAIN drafts : d = drafts[k]
    BY <2>1 DEF Stored, Range
  <2>3. d \in Row /\ RowFits(d)
    BY <1>1, <2>1, <2>2 DEF DraftsInv, DraftTypes
  <2> QED
    BY <1>1, <1>2, <2>3, RowStays
<1>4. ASSUME NEW t \in Tabs PROVE LeavesAlone(t) /\ TabFits(t)'
  <2>1. LeavesAlone(t)
    BY DEF LeavesAlone
  <2> QED
    BY <1>1, <1>2, <2>1, TabStays DEF DraftsInv
<1>5. ASSUME NEW m \in wire' PROVE MessageFits(m)'
  <2>1. CASE m \notin wire
    BY <2>1
  <2>2. CASE m \in wire
    <3>1. MessageFits(m) /\ m \in Message /\ m.tab \in Tabs
      BY <2>2 DEF DraftsInv, DraftTypes, Message
    <3>2. Harmless(m)
      BY <1>4, <3>1, MessageLeftAlone
    <3> QED
      BY <1>1, <1>2, <3>1, <3>2, MessageStays
  <2> QED
    BY <2>1, <2>2
<1>6. NotOlder
  BY <1>1, NothingReplaced
<1> QED
  BY <1>3, <1>4, <1>5, <1>6 DEF DraftsInv, Stored

\* What takes a message's place on the wire is of the same page, and is under way
\* only where the message was.
LEMMA OneTakesItsPlace ==
  ASSUME OneUnderWay, NEW m \in wire, NEW n, n.tab = m.tab, UnderWay(n) => UnderWay(m),
         wire' \subseteq (wire \ {m}) \union {n}
  PROVE  OneUnderWay'
<1> SUFFICES ASSUME NEW a \in wire', NEW b \in wire', a.tab = b.tab, UnderWay(a), UnderWay(b)
             PROVE  a = b
  BY DEF OneUnderWay, UnderWay
<1>1. CASE a \in wire \ {m} /\ b \in wire \ {m}
  BY <1>1 DEF OneUnderWay
<1>2. CASE a = n /\ b \in wire \ {m}
  BY <1>2 DEF OneUnderWay
<1>3. CASE b = n /\ a \in wire \ {m}
  BY <1>3 DEF OneUnderWay
<1> QED
  BY <1>1, <1>2, <1>3

\* The server answers a request, or the request gets no further.
LEMMA ReplyKeeps ==
  ASSUME DraftsInv, NEW m \in wire, NEW kind \in {"written", "filed", "undrafted", "unfiled"},
         kind = "undrafted" => UnderWay(m),
         wire' \subseteq (wire \ {m}) \union {[m EXCEPT !.kind = kind]},
         UNCHANGED <<tab, dropped, typed, ids>>, everStored \subseteq everStored',
         file' \in Nat, file' <= typed,
         drafts' \in Seq(Row), OneEach(drafts'), Range(drafts') \subseteq Stored
  PROVE  DraftsInv' /\ NotOlder
<1>1. /\ m \in Message /\ wire \subseteq Message /\ kind \in Kinds /\ MessageFits(m)
      /\ OneUnderWay
  BY DEF DraftsInv, DraftTypes, Kinds, Replies
<1>2. PICK n \in Message : /\ n = [m EXCEPT !.kind = kind] /\ n.kind = kind /\ n.tab = m.tab
                           /\ n.id = m.id /\ n.text = m.text
  BY <1>1 DEF Message
<1>3. DraftTypes'
  BY <1>1, <1>2 DEF DraftsInv, DraftTypes
<1>4. UnderWay(n) => UnderWay(m) /\ n.kind = "undrafted"
  BY <1>2 DEF UnderWay
<1>5. OneUnderWay'
  BY <1>1, <1>2, <1>4, OneTakesItsPlace
<1>6. MessageFits(n)'
  BY <1>1, <1>2, <1>4 DEF MessageFits, IsOpen, Saves
<1> QED
  BY <1>2, <1>3, <1>5, <1>6, HandlerKeeps

\* Every step of the server but the storing of a draft.
LEMMA HandlersKeep ==
  ASSUME DraftsInv,
         \/ \E m \in wire : HandleDiscardDraft(m) \/ HandleSave(m) \/ HandleSaved(m) \/ Fail(m)
         \/ \E id \in Ids : DiscardFromList(id)
  PROVE  DraftsInv' /\ NotOlder
<1>1. /\ drafts \in Seq(Row) /\ OneEach(drafts) /\ file \in Nat /\ file <= typed
      /\ wire \subseteq Message /\ OneUnderWay /\ \A m \in wire : MessageFits(m)
      /\ Range(drafts) = Stored
  BY DEF DraftsInv, DraftTypes, Stored
<1>2. \A id : /\ Without(id) \in Seq(Row) /\ OneEach(Without(id))
              /\ Range(Without(id)) \subseteq Stored
  BY <1>1, WithoutIsRight
<1>3. CASE \E id \in Ids : DiscardFromList(id)
  <2>1. PICK id \in Ids : DiscardFromList(id)
    BY <1>3
  <2>2. /\ drafts' = Without(id)
        /\ UNCHANGED <<file, tab, wire, typed, ids, faults, everStored, dropped>>
    BY <2>1 DEF DiscardFromList
  <2>3. DraftTypes' /\ OneUnderWay'
    BY <1>1, <1>2, <2>2 DEF DraftsInv, DraftTypes, OneUnderWay
  <2> QED
    BY <1>1, <1>2, <2>2, <2>3, HandlerKeeps
<1>4. ASSUME NEW m \in wire, HandleDiscardDraft(m) PROVE DraftsInv' /\ NotOlder
  <2>1. /\ drafts' = Without(m.id) /\ wire' = wire \ {m}
        /\ UNCHANGED <<file, tab, typed, ids, everStored, dropped>>
    BY <1>4 DEF HandleDiscardDraft
  <2>2. wire' \subseteq (wire \ {m}) \union {[m EXCEPT !.kind = "written"]}
    BY <2>1
  <2> QED
    BY <1>1, <1>2, <2>1, <2>2, ReplyKeeps
<1>5. ASSUME NEW m \in wire, HandleSave(m) PROVE DraftsInv' /\ NotOlder
  <2>1. /\ wire' = (wire \ {m}) \union {[m EXCEPT !.kind = "written"]}
        /\ UNCHANGED <<drafts, tab, typed, ids, dropped>> /\ everStored \subseteq everStored'
        /\ file' = m.text \/ file' = file
    BY <1>5 DEF HandleSave
  <2>2. file' \in Nat /\ file' <= typed
    BY <1>1, <2>1 DEF Message, MessageFits
  <2> QED
    BY <1>1, <2>1, <2>2, ReplyKeeps
<1>6. ASSUME NEW m \in wire, HandleSaved(m) PROVE DraftsInv' /\ NotOlder
  <2>1. /\ drafts' = Without(m.id) /\ UNCHANGED <<file, tab, typed, ids, everStored, dropped>>
        /\ wire' \subseteq (wire \ {m}) \union {[m EXCEPT !.kind = "filed"]}
    BY <1>6 DEF HandleSaved, Answer
  <2> QED
    BY <1>1, <1>2, <2>1, ReplyKeeps
<1>7. ASSUME NEW m \in wire, Fail(m) PROVE DraftsInv' /\ NotOlder
  <2>1. UNCHANGED <<drafts, file, tab, typed, ids, everStored, dropped>>
    BY <1>7 DEF Fail
  <2>2. PICK kind \in {"undrafted", "unfiled"} :
          /\ wire' \subseteq (wire \ {m}) \union {[m EXCEPT !.kind = kind]}
          /\ kind = "undrafted" => m.kind \in {"draft", "drafted"}
    BY <1>7 DEF Fail, Answer
  <2>3. kind = "undrafted" => UnderWay(m)
    BY <2>2 DEF UnderWay
  <2> QED
    BY <1>1, <2>1, <2>2, <2>3, ReplyKeeps
<1> QED
  BY <1>3, <1>4, <1>5, <1>6, <1>7

\* The server saves a draft.
LEMMA SavingKeeps ==
  ASSUME DraftsInv, NEW m \in wire, HandleSaveDraft(m)
  PROVE  DraftsInv' /\ NotOlder
<1> DEFINE id == IF m.id = NoDraft THEN ids + 1 ELSE m.id
           d == [id |-> id, text |-> m.text, by |-> m.tab, edits |-> m.edits]
<1>1. /\ m.kind \in {"draft", "beacon"} /\ id \in Ids
      /\ ids' = IF m.id = NoDraft THEN id ELSE ids
      /\ drafts' = SaveDraft(id, d)
      /\ everStored' = everStored \union {m.text}
      /\ wire' = (wire \ {m}) \union
           (IF IsOpen(m.tab) /\ m.kind = "draft" THEN {[m EXCEPT !.kind = "drafted", !.id = id]}
            ELSE {})
      /\ UNCHANGED <<file, tab, typed, dropped>>
  BY DEF HandleSaveDraft
<1>2. /\ DraftTypes /\ OneEach(drafts) /\ OneUnderWay /\ MessageFits(m) /\ m \in Message
      /\ file <= typed /\ Saves(m) /\ UnderWay(m)
  BY <1>1 DEF DraftsInv, DraftTypes, Saves, UnderWay
<1>3. /\ m.id \in Nat /\ m.text \in Nat /\ m.tab \in Tabs /\ m.edits \in BOOLEAN
      /\ ids \in Nat /\ typed \in Nat /\ NoDraft = 0 /\ wire \subseteq Message
      /\ drafts \in Seq(Row)
  BY <1>2 DEF Message, DraftTypes, NoDraft
<1>4. TabFits(m.tab)
  BY <1>3 DEF DraftsInv
<1>5. /\ id \in Nat /\ id \in 1..ids' /\ ids' \in Nat /\ ids <= ids'
      /\ id \notin dropped[m.tab]
  <2>1. id \in Nat /\ id >= 1
    BY <1>1, DraftsAssumption DEF Ids
  <2>2. CASE m.id = NoDraft
    <3>1. id = ids + 1 /\ ids' = ids + 1 /\ dropped[m.tab] \subseteq 1..ids
      BY <1>1, <1>4, <2>2 DEF TabFits
    <3> QED
      BY <1>3, <2>1, <3>1
  <2>3. CASE m.id # NoDraft
    <3>1. id = m.id /\ ids' = ids /\ m.id <= ids /\ m.id \notin dropped[m.tab]
      BY <1>1, <1>2, <2>3 DEF MessageFits, Saves
    <3> QED
      BY <1>3, <2>1, <3>1
  <2> QED
    BY <2>2, <2>3
<1> HIDE DEF id
<1>6. /\ d \in Row /\ d.id = id /\ d.text = m.text /\ d.by = m.tab
  BY <1>3, <1>5 DEF Row
<1> HIDE DEF d
<1>7. PICK e \in Row : e = d
  BY <1>6
<1>8. PICK n \in Message : n = [m EXCEPT !.kind = "drafted", !.id = id] /\ n.kind = "drafted"
                           /\ n.tab = m.tab /\ n.id = id /\ n.text = m.text
  <2> DEFINE answer == [m EXCEPT !.kind = "drafted", !.id = id]
  <2>1. "drafted" \in Kinds
    BY DEF Kinds, Replies
  <2>2. /\ answer \in Message /\ answer.kind = "drafted" /\ answer.tab = m.tab
        /\ answer.id = id /\ answer.text = m.text
    BY <1>2, <1>5, <2>1 DEF Message
  <2> HIDE DEF answer
  <2>3. answer = [m EXCEPT !.kind = "drafted", !.id = id]
    BY DEF answer
  <2> QED
    BY <2>2, <2>3
<1>9. /\ wire' \subseteq (wire \ {m}) \union {n}
      /\ n \in wire' => IsOpen(m.tab) \/ n \in wire
  BY <1>1, <1>8
<1>10. /\ drafts' \in Seq(Row) /\ OneEach(drafts') /\ Range(drafts') \subseteq {e} \union Stored
  BY <1>1, <1>2, <1>3, <1>6, <1>7, SaveDraftIsRight
<1>11. DraftTypes' /\ Grows
  BY <1>1, <1>2, <1>3, <1>5, <1>9, <1>10 DEF DraftTypes, Grows
<1>12. e.id = id /\ e.text = m.text /\ e.by = m.tab
  BY <1>6, <1>7
<1>13. ASSUME NEW r \in Range(drafts') PROVE RowFits(r)'
  <2>1. CASE r = e
    BY <1>1, <1>2, <1>5, <1>12, <2>1 DEF RowFits, MessageFits
  <2>2. CASE r \in Stored
    <3>1. PICK k \in DOMAIN drafts : r = drafts[k]
      BY <2>2 DEF Stored, Range
    <3>2. r \in Row /\ RowFits(r)
      BY <1>3, <2>2, <3>1 DEF DraftsInv
    <3> QED
      BY <1>2, <1>11, <3>2, RowStays
  <2> QED
    BY <1>10, <2>1, <2>2
<1>14. \A r \in Stored : r.by = m.tab => r.text <= m.text
  BY <1>2 DEF MessageFits
<1>15. ASSUME NEW t \in Tabs PROVE TabFits(t)'
  <2>1. CASE t # m.tab
    <3>1. LeavesAlone(t)
      BY <1>1, <1>10, <1>12, <2>1 DEF LeavesAlone
    <3> QED
      BY <1>2, <1>11, <3>1, TabStays DEF DraftsInv
  <2>2. CASE t = m.tab
    <3>1. /\ tab[t].id \in Nat /\ dropped[t] \subseteq 1..ids /\ tab[t].id <= ids
          /\ tab[t].at # "unopened"
      BY <1>2, <1>4, <2>2 DEF TabFits, MessageFits, DraftTypes, PageState
    <3>2. dropped[t] \subseteq 1..ids' /\ tab[t].id <= ids'
      BY <1>3, <1>5, <3>1
    <3>3. PutBackToFile(t)' <=> PutBackToFile(t)
      BY <1>1 DEF PutBackToFile
    <3>4. IsOpen(t) /\ ~ PutBackToFile(t) =>
            \A r \in Range(drafts') : r.by = t => r.text <= tab[t].text
      BY <1>2, <1>4, <1>10, <1>12, <2>2 DEF TabFits, MessageFits
    <3> QED
      BY <1>1, <1>4, <2>2, <3>1, <3>2, <3>3, <3>4 DEF TabFits, IsOpen, Stored
  <2> QED
    BY <2>1, <2>2
<1>16. MessageFits(n)' \/ n \notin wire'
  <2>1. ~ Saves(n)
    BY <1>8 DEF Saves
  <2>2. CASE IsOpen(m.tab)
    BY <1>1, <1>2, <1>5, <1>8, <2>1, <2>2 DEF MessageFits, IsOpen
  <2>3. CASE ~ IsOpen(m.tab)
    BY <1>1, <1>2, <1>5, <1>8, <2>1, <2>3 DEF MessageFits, IsOpen
  <2> QED
    BY <2>2, <2>3
<1>17. ASSUME NEW o \in wire' PROVE MessageFits(o)'
  <2>1. CASE o = n
    BY <1>16, <2>1
  <2>2. CASE o \in wire /\ o # m
    <3>1. MessageFits(o) /\ o \in Message /\ o.tab \in Tabs
      BY <1>3, <2>2 DEF DraftsInv, Message
    <3>2. Harmless(o)
      <4>1. CASE o.tab # m.tab
        <5>1. LeavesAlone(o.tab)
          BY <1>1, <1>10, <1>12, <4>1 DEF LeavesAlone
        <5> QED
          BY <5>1, MessageLeftAlone
      <4>2. CASE o.tab = m.tab
        <5>1. ~ UnderWay(o) /\ ~ Saves(o)
          BY <1>2, <2>2, <4>2 DEF OneUnderWay, UnderWay, Saves
        <5> QED
          BY <1>1, <5>1 DEF Harmless
      <4> QED
        BY <4>1, <4>2
    <3> QED
      BY <1>2, <1>11, <3>1, <3>2, MessageStays
  <2> QED
    BY <1>9, <2>1, <2>2
<1>18. OneUnderWay'
  BY <1>2, <1>8, <1>9, OneTakesItsPlace
<1>19. NotOlder
  <2> SUFFICES ASSUME NEW old \in Stored, NEW new \in Range(drafts'),
                      old.id = new.id, old.by = new.by
               PROVE  new.text >= old.text
    BY DEF NotOlder, Stored
  <2>1. PICK k \in DOMAIN drafts : old = drafts[k]
    BY DEF Stored, Range
  <2>2. old.text \in Nat
    <3>1. old \in Row
      BY <1>3, <2>1
    <3> QED
      BY <3>1 DEF Row
  <2>3. CASE new = e
    BY <1>3, <1>12, <1>14, <2>2, <2>3
  <2>4. CASE new \in Stored
    <3>1. old = new
      BY <1>2, <2>4 DEF Stored, Range, OneEach
    <3> QED
      BY <2>2, <3>1
  <2> QED
    BY <1>10, <2>3, <2>4
<1>20. file' <= typed'
  BY <1>1, <1>2
<1> QED
  BY <1>10, <1>11, <1>13, <1>15, <1>17, <1>18, <1>19, <1>20 DEF DraftsInv, Stored

\* An answer arrives.
LEMMA ReceiveKeeps ==
  ASSUME DraftsInv, NEW m \in wire, Receive(m)
  PROVE  DraftsInv' /\ NotOlder
<1> DEFINE t == m.tab
<1>1. /\ m.kind \in Replies /\ wire' = wire \ {m}
      /\ UNCHANGED <<drafts, file, typed, ids, everStored>>
      /\ \/ dropped' = dropped
         \/ /\ dropped' = [dropped EXCEPT ![t] = @ \union {tab[t].id}]
            /\ m.kind = "filed" /\ IsOpen(t) /\ tab[t].id # NoDraft /\ ~ tab[t].flight
  BY DEF Receive
<1>2. /\ DraftTypes /\ OneUnderWay /\ MessageFits(m) /\ m \in Message
  BY DEF DraftsInv, DraftTypes
<1>3. /\ m.id \in Nat /\ m.text \in Nat /\ m.tab \in Tabs /\ typed \in Nat /\ ids \in Nat
      /\ tab \in [Tabs -> PageState] /\ wire \subseteq Message /\ NoDraft = 0
      /\ NoText \in Nat
  BY <1>2, DraftsAssumption DEF Message, DraftTypes, NoDraft, NoText
<1>4. TabFits(t) /\ tab[t] \in PageState
  BY <1>3 DEF DraftsInv
<1>5. PICK after \in PageState :
        /\ tab' = [tab EXCEPT ![t] = after]
        /\ after.at = tab[t].at /\ after.editing = tab[t].editing /\ after.text = tab[t].text
        /\ \/ /\ m.kind = "drafted" /\ after.saved = tab[t].saved
              /\ after.id = m.id /\ after.stored = m.text
           \/ /\ m.kind = "filed" /\ after.saved = tab[t].text /\ after.flight = tab[t].flight
              /\ after.id = 0 /\ after.stored = NoText
           \/ /\ m.kind = "undrafted" /\ after.saved = tab[t].saved
              /\ after.id = tab[t].id /\ after.stored = tab[t].stored
           \/ /\ m.kind = "unfiled" /\ after.saved = tab[t].saved /\ after.flight = tab[t].flight
              /\ after.id = tab[t].id /\ after.stored = tab[t].stored
  <2>1. CASE m.kind = "drafted"
    <3> DEFINE after == SavedDraft(tab[t], m)
    <3>1. tab' = [tab EXCEPT ![t] = after]
      BY <1>3, <2>1 DEF Receive
    <3>2. /\ after \in PageState /\ after.at = tab[t].at /\ after.editing = tab[t].editing
          /\ after.text = tab[t].text /\ after.saved = tab[t].saved
          /\ after.id = m.id /\ after.stored = m.text
      BY <1>3, <1>4 DEF SavedDraft, PageState
    <3> HIDE DEF after
    <3> QED
      BY <2>1, <3>1, <3>2
  <2>2. CASE m.kind = "filed"
    <3> DEFINE after == SavedFile(tab[t])
    <3>1. tab' = [tab EXCEPT ![t] = after]
      BY <1>3, <2>2 DEF Receive
    <3>2. /\ after \in PageState /\ after.at = tab[t].at /\ after.editing = tab[t].editing
          /\ after.text = tab[t].text /\ after.saved = tab[t].text
          /\ after.flight = tab[t].flight /\ after.id = 0 /\ after.stored = NoText
      BY <1>3, <1>4 DEF SavedFile, PageState
    <3> HIDE DEF after
    <3> QED
      BY <2>2, <3>1, <3>2
  <2>3. CASE m.kind = "undrafted"
    <3> DEFINE after == [tab[t] EXCEPT !.flight = FALSE]
    <3>1. tab' = [tab EXCEPT ![t] = after]
      BY <1>3, <2>3 DEF Receive
    <3>2. /\ after \in PageState /\ after.at = tab[t].at /\ after.editing = tab[t].editing
          /\ after.text = tab[t].text /\ after.saved = tab[t].saved
          /\ after.id = tab[t].id /\ after.stored = tab[t].stored
      BY <1>4 DEF PageState
    <3> HIDE DEF after
    <3> QED
      BY <2>3, <3>1, <3>2
  <2>4. CASE m.kind = "unfiled"
    <3> DEFINE after == [tab[t] EXCEPT !.saving = FALSE]
    <3>1. tab' = [tab EXCEPT ![t] = after]
      BY <1>3, <2>4 DEF Receive
    <3>2. /\ after \in PageState /\ after.at = tab[t].at /\ after.editing = tab[t].editing
          /\ after.text = tab[t].text /\ after.saved = tab[t].saved
          /\ after.flight = tab[t].flight /\ after.id = tab[t].id /\ after.stored = tab[t].stored
      BY <1>4 DEF PageState
    <3> HIDE DEF after
    <3> QED
      BY <2>4, <3>1, <3>2
  <2> QED
    BY <1>1, <2>1, <2>2, <2>3, <2>4 DEF Replies
<1> HIDE DEF t
<1>6. /\ DraftTypes' /\ tab'[t] = after
      /\ \A u \in Tabs : u # t => tab'[u] = tab[u] /\ dropped'[u] = dropped[u]
  <2>1. wire' \subseteq Message /\ typed' \in Nat /\ t \in Tabs
    BY <1>1, <1>3 DEF t
  <2> QED
    BY <1>1, <1>2, <1>5, <2>1, PageTypes
<1>12. /\ dropped'[t] \subseteq dropped[t] \union {tab[t].id}
       /\ dropped'[t] = dropped[t] \/ (IsOpen(t) /\ ~ tab[t].flight)
       /\ dropped'[t] = dropped[t] \/ (m.kind = "filed" /\ tab[t].id # 0)
       /\ 0 \notin dropped'[t] /\ dropped'[t] \subseteq 1..ids
  <2>1. dropped \in [Tabs -> SUBSET Nat] /\ t \in Tabs
    BY <1>2, <1>3 DEF DraftTypes, t
  <2>2. dropped[t] \subseteq 1..ids /\ tab[t].id <= ids /\ tab[t].id \in Nat
    BY <1>4 DEF TabFits, PageState
  <2> QED
    BY <1>1, <1>3, <2>1, <2>2
<1>7. \/ /\ after.saved = tab[t].saved /\ PutBackToFile(t)' <=> PutBackToFile(t)
      \/ /\ after.saved = tab[t].text /\ tab[t].editing /\ PutBackToFile(t)'
      \/ /\ after.saved = tab[t].text /\ ~ PutBackToFile(t)' /\ ~ PutBackToFile(t)
  <2>1. CASE after.saved = tab[t].saved
    BY <1>5, <1>6, <2>1 DEF PutBackToFile
  <2>2. CASE after.saved = tab[t].text
    <3>1. PutBackToFile(t)' <=> tab[t].editing
      BY <1>5, <1>6, <2>2 DEF PutBackToFile
    <3>2. PutBackToFile(t) => tab[t].editing
      BY DEF PutBackToFile
    <3>3. tab[t].editing \in BOOLEAN
      BY <1>4 DEF PageState
    <3> QED
      BY <2>2, <3>1, <3>2, <3>3
  <2> QED
    BY <1>5, <2>1, <2>2
<1>8. TabFits(t)'
  <2>1. after.id <= ids /\ after.saved <= typed /\ after.text <= typed
    BY <1>2, <1>3, <1>4, <1>5 DEF TabFits, MessageFits
  <2>2. IsOpen(t) => after.id \notin dropped'[t]
    <3>1. m.kind = "drafted" => m.id \notin dropped[t]
      BY <1>2 DEF MessageFits, UnderWay, t
    <3>2. m.kind # "filed" => dropped'[t] = dropped[t]
      BY <1>12
    <3> QED
      BY <1>4, <1>5, <1>12, <3>1, <3>2 DEF TabFits
  <2>3. IsOpen(t) /\ after.stored # NoText => after.stored \in everStored
    BY <1>2, <1>4, <1>5 DEF TabFits, MessageFits
  <2>4. IsOpen(t) /\ ~ PutBackToFile(t)' => \A d \in Stored : d.by = t => d.text <= after.text
    BY <1>4, <1>5, <1>7 DEF TabFits
  <2> QED
    BY <1>1, <1>4, <1>5, <1>6, <1>12, <2>1, <2>2, <2>3, <2>4 DEF TabFits, IsOpen, Stored
<1>9. ASSUME NEW n \in wire', n.tab = t PROVE Harmless(n)
  <2>1. n \in wire /\ n # m
    BY <1>1
  <2>2. UnderWay(m) => ~ UnderWay(n)
    BY <1>2, <1>9, <2>1 DEF OneUnderWay, t
  <2>3. UnderWay(n) => after.flight = tab[t].flight
    BY <1>5, <2>2 DEF UnderWay
  <2> QED
    BY <1>1, <1>5, <1>6, <1>7, <1>9, <1>12, <2>3 DEF Harmless, Stored, IsOpen
<1>10. OneUnderWay'
  BY <1>1, <1>2 DEF OneUnderWay
<1>11. t \in Tabs /\ typed <= typed' /\ \A n \in wire' : n \in wire
  BY <1>1, <1>3 DEF t
<1> QED
  BY <1>1, <1>6, <1>8, <1>9, <1>10, <1>11, PageStepKeeps

-----------------------------------------------------------------------------
\* At the start there is no draft.
LEMMA DraftsStart ==
  ASSUME Init
  PROVE  DraftsInv
<1>1. /\ drafts = <<>> /\ file = 0 /\ wire = {} /\ tab = [t \in Tabs |-> Unopened]
      /\ typed = 0 /\ ids = 0 /\ everStored = {0} /\ dropped = [t \in Tabs |-> {}]
  BY DEF Init, DraftsInit
<1>2. Unopened \in PageState /\ Unopened.id = 0 /\ Unopened.text = 0 /\ Unopened.saved = 0
      /\ Unopened.at = "unopened"
  BY DraftsAssumption DEF Unopened, PageState, NoDraft, NoText
<1>3. DraftTypes
  BY <1>1, <1>2 DEF DraftTypes
<1>4. Stored = {} /\ OneEach(drafts) /\ OneUnderWay
  BY <1>1 DEF Stored, Range, OneEach, OneUnderWay
<1>5. ASSUME NEW t \in Tabs PROVE TabFits(t)
  BY <1>1, <1>2, <1>4 DEF TabFits, IsOpen
<1> QED
  BY <1>1, <1>3, <1>4, <1>5 DEF DraftsInv

\* A step that leaves the drafts, the pages and the wire as they are.
LEMMA NothingOfDrafts ==
  ASSUME DraftsInv, UNCHANGED draftVars
  PROVE  DraftsInv' /\ NotOlder
<1>1. UNCHANGED <<drafts, file, tab, wire, typed, ids, everStored, dropped>>
  BY DEF draftVars
<1>2. DraftTypes' /\ OneUnderWay' /\ file' <= typed /\ OneEach(drafts') /\ Range(drafts') = Stored
  BY <1>1 DEF DraftsInv, DraftTypes, OneUnderWay, Stored
<1> QED
  BY <1>1, <1>2, HandlerKeeps

\* Every step of the store keeps the invariant of the drafts.
LEMMA NextKeepsDrafts ==
  ASSUME DraftsInv, [Next]_storeVars
  PROVE  DraftsInv' /\ NotOlder
<1>1. CASE UNCHANGED draftVars
  BY <1>1, NothingOfDrafts
<1>2. CASE \E t \in Tabs : Page(t)
  <2>1. PICK t \in Tabs : Page(t)
    BY <1>2
  <2>2. CASE OpenPlayground(t) \/ OpenDraft(t) \/ OpenEdit(t)
    BY <2>2, OpensKeep
  <2>3. CASE Type(t) \/ PutBack(t)
    BY <2>3, TypingKeeps
  <2>4. CASE Autosave(t) \/ DiscardDraft(t) \/ SaveFile(t)
    BY <2>4, AutosaveKeeps
  <2>5. CASE Leave(t)
    BY <2>5, LeaveKeeps
  <2> QED
    BY <2>1, <2>2, <2>3, <2>4, <2>5 DEF Page
<1>3. CASE Traffic
  <2>1. PICK m \in wire : \/ HandleSaveDraft(m) \/ HandleDiscardDraft(m) \/ HandleSave(m)
                          \/ HandleSaved(m) \/ Fail(m) \/ Receive(m)
    BY <1>3 DEF Traffic
  <2>2. CASE HandleSaveDraft(m)
    BY <2>2, SavingKeeps
  <2>3. CASE Receive(m)
    BY <2>3, ReceiveKeeps
  <2>4. CASE HandleDiscardDraft(m) \/ HandleSave(m) \/ HandleSaved(m) \/ Fail(m)
    BY <2>4, HandlersKeep
  <2> QED
    BY <2>1, <2>2, <2>3, <2>4
<1>4. CASE \E id \in Ids : DiscardFromList(id)
  BY <1>4, HandlersKeep
<1> QED
  BY <1>1, <1>2, <1>3, <1>4 DEF Next, Edit, Configure, storeVars

\* The invariant says of each page what the property does.
LEMMA DraftsAreKnown ==
  ASSUME DraftsInv
  PROVE  DraftKnown
<1>1. StoredIsStored
  BY DEF DraftsInv, TabFits, StoredIsStored
<1>2. DiscardedStaysGone
  BY DEF DraftsInv, MessageFits, UnderWay, DiscardedStaysGone
<1> QED
  BY <1>1, <1>2 DEF DraftKnown

(***************************************************************************)
(* What a page knows of its draft is so, however requests and answers      *)
(* overtake each other, are refused or are lost: a text it takes for       *)
(* stored reached the store, and a draft it gave up -- discarded, or saved *)
(* to its file -- while no save of it was under way is not created again   *)
(* by a save of its own (saveDraft, discardDraft, save, handleSaveDraft).  *)
(* A save that was under way by then does create it again (SaveDraft).     *)
(***************************************************************************)
THEOREM DraftsAreKnownAlways == Spec => []DraftKnown
<1>1. Init => DraftsInv
  BY DraftsStart
<1>2. DraftsInv /\ [Next]_storeVars => DraftsInv'
  BY NextKeepsDrafts
<1>3. DraftsInv => DraftKnown
  BY DraftsAreKnown
<1> QED
  BY <1>1, <1>2, <1>3, PTL DEF Spec

(***************************************************************************)
(* A page's older text never replaces a newer one of its own in the        *)
(* database, for its saves are one at a time and its beacon stays behind   *)
(* when one is under way (draftInFlight, pagehide).                        *)
(***************************************************************************)
THEOREM NoOlderText == Spec => NeverOlder
<1>1. Init => DraftsInv
  BY DraftsStart
<1>2. DraftsInv /\ [Next]_storeVars => DraftsInv'
  BY NextKeepsDrafts
<1>3. DraftsInv /\ [Next]_storeVars => [NotOlder]_draftVars
  BY NextKeepsDrafts
<1>4. NeverOlder <=> [][NotOlder]_draftVars
  BY DEF NeverOlder, NotOlder
<1> QED
  BY <1>1, <1>2, <1>3, <1>4, PTL DEF Spec

-----------------------------------------------------------------------------
(***************************************************************************)
(* The library and its revisions.  First the shapes of files and cases,    *)
(* and of what a request is doing.                                         *)
(***************************************************************************)
Files == [Paths -> Documents \union {Absent, Torn}]
Case == [path : Paths, doc : Documents]
Cases == [CaseIds -> Case \union {None}]
Found == [cases : Cases, broken : SUBSET Paths]

\* What is left of a walk after its first n files.
From(n) == SubSeq(Walk, n + 1, Len(Walk))

Work ==
  [at : {"walk", "write", "fill", "remove", "lookup", "record"},
   kind : {"list", "seed", "remove", "save", "import"},
   path : Paths, doc : Documents,
   todo : {From(n) : n \in 0..Len(Walk)}, found : Found,
   clean : BOOLEAN, changed : SUBSET Paths, disturbed : BOOLEAN, free : BOOLEAN,
   keeps : Cases, id : CaseIds \union {NoId}]

\* How many files a walk has read.
Seen(j) == Len(Walk) - Len(j.todo)

\* A revision does not repeat the one before it.
NoneRepeated(s) == \A n \in 2..Len(s) : s[n] # s[n - 1]

LibraryTypes ==
  /\ disk \in Files
  /\ cases \in Cases /\ broken \in SUBSET Paths
  /\ revs \in [CaseIds -> Seq(Documents)]
  /\ job \in [Procs -> Work \union {Idle}]
  /\ fresh \in BOOLEAN
  /\ \A i \in CaseIds : NoneRepeated(revs[i])

(***************************************************************************)
(* What a walk has made of the first n files: the first with an id has it, *)
(* every id some document of them has is given, and the rest is broken.    *)
(***************************************************************************)
Id(files, k) == IdIn(Walk[k], files[Walk[k]])
CaseAt(files, k) == [path |-> Walk[k], doc |-> files[Walk[k]]]

Loaded(files, found, n) ==
  /\ \A k \in 1..n : IsDoc(files[Walk[k]]) => found.cases[Id(files, k)] # None
  /\ \A i \in CaseIds : found.cases[i] # None =>
       \E k \in 1..n : /\ Loadable(files, Walk[k]) /\ i = Id(files, k)
                       /\ found.cases[i] = CaseAt(files, k)
  /\ found.broken = {path \in Unloadable(files) : \E k \in 1..n : path = Walk[k]}

\* No file is loaded under two ids.
OncePerPath(cs) ==
  \A i, k \in CaseIds :
    (cs[i] # None /\ cs[k] # None /\ cs[i].path = cs[k].path) => i = k

-----------------------------------------------------------------------------
(***************************************************************************)
(* What holds of a request under way, given the files, what is installed   *)
(* and whether that is fresh.                                              *)
(***************************************************************************)
Unstarted(j) ==
  j.todo = Walk /\ j.found = [cases |-> NoCases, broken |-> {}] /\ j.clean

\* What a request does at a place, and before it walks it has found nothing.
InPlace(j) ==
  /\ j.at \in {"write", "fill"} => j.kind \in {"save", "import", "seed"}
  /\ j.at = "remove" => j.kind = "remove"
  /\ j.at \in {"lookup", "record"} => j.kind \in {"save", "import"}
  /\ j.at \in {"write", "fill", "remove"} => Unstarted(j)
  /\ j.at \in {"write", "remove"} => j.changed = {}

\* A walk has found only files it has read, each once, and a clean one is right
\* about all of them.
WalksRight(files, j) ==
  j.at = "walk" =>
    /\ OncePerPath(j.found.cases)
    /\ \A i \in CaseIds : j.found.cases[i] # None =>
         \E k \in 1..Seen(j) : j.found.cases[i].path = Walk[k]
    /\ j.clean => j.changed = {} /\ Loaded(files, j.found, Seen(j))

Writes(j) == j.kind \in {"save", "import"} /\ ~ j.disturbed

\* An undisturbed writer finds in its file what it wrote, and the walk that comes
\* after the write takes it up, or calls the file broken.  No file was removed
\* during that walk.
WriteStands(files, j) ==
  (Writes(j) /\ j.at = "walk") =>
    /\ files[j.path] = j.doc /\ j.path \notin j.changed
    /\ \A x \in j.changed : files[x] # Absent
    /\ \A k \in 1..Seen(j) : Walk[k] = j.path =>
         \/ j.path \in j.found.broken
         \/ j.found.cases[IdIn(j.path, j.doc)] = [path |-> j.path, doc |-> j.doc]

\* It is what is installed, and the id looked up is its id.
WriteKnown(cs, j) ==
  (Writes(j) /\ j.path \notin j.found.broken) =>
    /\ j.at = "lookup" => cs[IdIn(j.path, j.doc)] = [path |-> j.path, doc |-> j.doc]
    /\ j.at = "record" => j.id = IdIn(j.path, j.doc)

\* An undisturbed import to a path that was free is alone: its walk is clean and
\* what it installed fresh.
\* No file but its own has the id of its path, and what the library held before
\* is first among the other files.
KeptAt(files, j, i, k) ==
  /\ j.keeps[i] = CaseAt(files, k) /\ Walk[k] # j.path
  /\ IsDoc(files[Walk[k]]) /\ i = Id(files, k)
  /\ \A m \in 1..(k - 1) :
       (Walk[m] # j.path /\ IsDoc(files[Walk[m]])) => Id(files, m) # i

ImportsAlone(files, fr, j) ==
  (j.kind = "import" /\ ~ j.disturbed /\ j.free) =>
    /\ j.at = "walk" => j.clean
    /\ j.at \in {"lookup", "record"} => fr /\ files[j.path] = j.doc
    /\ \A k \in 1..Len(Walk) :
         (Walk[k] # j.path /\ IsDoc(files[Walk[k]])) => Id(files, k) # IdOf[j.path]
    /\ \A i \in CaseIds : j.keeps[i] # None =>
         i # IdOf[j.path] /\ \E k \in 1..Len(Walk) : KeptAt(files, j, i, k)

Fits(files, cs, fr, j) ==
  j # Idle =>
    /\ InPlace(j) /\ WalksRight(files, j) /\ WriteStands(files, j)
    /\ WriteKnown(cs, j) /\ ImportsAlone(files, fr, j)

LibraryInv ==
  /\ LibraryTypes
  /\ OncePerPath(cases)
  /\ fresh => Loaded(disk, [cases |-> cases, broken |-> broken], Len(Walk))
  /\ \A p \in Procs : Fits(disk, cases, fresh, job[p])

-----------------------------------------------------------------------------
\* The walk's positions: every path is at one of them, and only there.
LEMMA PathsHavePlaces ==
  /\ Len(Walk) \in Nat /\ DOMAIN Walk = 1..Len(Walk)
  /\ \A k \in 1..Len(Walk) : Walk[k] \in Paths
  /\ \A path \in Paths : \E k \in 1..Len(Walk) : Walk[k] = path
  /\ \A k, n \in 1..Len(Walk) : Walk[k] = Walk[n] => k = n
<1>1. Walk \in Seq(Paths) /\ IsInjective(Walk)
  BY LibraryAssumption
<1>2. Len(Walk) \in Nat /\ DOMAIN Walk = 1..Len(Walk)
  BY <1>1
<1>3. Paths = {Walk[k] : k \in DOMAIN Walk}
  BY DEF Paths, Range
<1> QED
  BY <1>1, <1>2, <1>3 DEF IsInjective

\* What is left of the walk, file by file.
LEMMA WalkGoesOn ==
  ASSUME NEW n \in 0..Len(Walk)
  PROVE  /\ From(n) \in Seq(Paths) /\ Len(From(n)) = Len(Walk) - n
         /\ From(0) = Walk /\ From(Len(Walk)) = <<>>
         /\ From(n) = <<>> => n = Len(Walk)
         /\ n < Len(Walk) => /\ From(n) # <<>>
                             /\ Head(From(n)) = Walk[n + 1]
                             /\ Tail(From(n)) = From(n + 1)
<1>1. Walk \in Seq(Paths) /\ Len(Walk) \in Nat
  BY LibraryAssumption
<1>2. From(n) \in Seq(Paths) /\ Len(From(n)) = Len(Walk) - n
  BY <1>1 DEF From
<1>3. \A k \in 1..(Len(Walk) - n) : From(n)[k] = Walk[n + k]
  BY <1>1 DEF From
<1>4. From(0) = Walk
  BY <1>1 DEF From
<1>5. From(Len(Walk)) = <<>>
  BY <1>1 DEF From
<1>6. ASSUME n < Len(Walk) PROVE Tail(From(n)) = From(n + 1)
  <2>1. From(n + 1) \in Seq(Paths) /\ Len(From(n + 1)) = Len(Walk) - (n + 1)
    BY <1>1, <1>6 DEF From
  <2>2. \A k \in 1..(Len(Walk) - (n + 1)) : From(n + 1)[k] = Walk[n + 1 + k]
    BY <1>1, <1>6 DEF From
  <2>3. From(n) # <<>>
    BY <1>1, <1>2, <1>6
  <2>4. Tail(From(n)) \in Seq(Paths) /\ Len(Tail(From(n))) = Len(From(n)) - 1
    BY <1>2, <2>3
  <2>5. \A k \in 1..Len(Tail(From(n))) : Tail(From(n))[k] = From(n)[k + 1]
    BY <1>2, <2>3
  <2>6. Len(Tail(From(n))) = Len(From(n + 1))
    BY <1>1, <1>2, <1>6, <2>1, <2>4
  <2>7. ASSUME NEW k \in 1..Len(Tail(From(n))) PROVE Tail(From(n))[k] = From(n + 1)[k]
    <3>1. k \in 1..(Len(Walk) - (n + 1)) /\ k + 1 \in 1..(Len(Walk) - n)
      BY <1>1, <1>2, <1>6, <2>4
    <3>2. From(n)[k + 1] = Walk[n + (k + 1)]
      BY <3>1, <1>3
    <3>3. From(n + 1)[k] = Walk[n + 1 + k]
      BY <3>1, <2>2
    <3>4. n + (k + 1) = n + 1 + k
      BY <1>1, <3>1
    <3> QED
      BY <2>5, <3>2, <3>3, <3>4
  <2> DEFINE s == Tail(From(n))
             t == From(n + 1)
  <2>8. /\ s \in Seq(Paths) /\ t \in Seq(Paths) /\ Len(s) = Len(t)
        /\ \A k \in 1..Len(s) : s[k] = t[k]
    BY <2>1, <2>4, <2>6, <2>7
  <2>9. s = t
    <3> HIDE DEF s, t
    <3> QED
      BY <2>8, SeqEqual
  <2> QED
    BY <2>9
<1> QED
  BY <1>1, <1>2, <1>3, <1>4, <1>5, <1>6

\* Every file has an id, and a document is neither missing nor torn.
LEMMA DocumentsHaveIds ==
  /\ Absent # Torn
  /\ \A d \in Documents : IsDoc(d)
  /\ \A path \in Paths, d \in Documents : IdIn(path, d) \in CaseIds
  /\ \A path \in Paths : IdOf[path] \in CaseIds
  /\ Docs \subseteq Documents
  /\ \A cs \in Cases, i \in CaseIds : cs[i] # None => cs[i] \in Case
  /\ \A c \in Case : c # None
  /\ None \notin Case
  /\ \A j \in Work : j # Idle
<1>1. Absent # Torn
  BY DEF Absent, Torn
<1>2. \A d \in Docs : IsDoc(d)
  BY LibraryAssumption
<1>3. \A files \in Begun : Torn \notin Range(files)
  BY LibraryAssumption
<1>4. \A d \in Documents : IsDoc(d)
  BY <1>2, <1>3 DEF Documents, IsDoc
<1>5. \A path \in Paths : IdOf[path] \in CaseIds
  BY LibraryAssumption DEF CaseIds, Range
<1>6. \A path \in Paths, d \in Documents : IdIn(path, d) \in CaseIds
  BY <1>5 DEF IdIn, CaseIds
<1>7. Docs \subseteq Documents
  BY <1>2 DEF Documents, IsDoc
<1>8. \A c \in Case : c # None
  BY <1>4 DEF Case, None, IsDoc
<1>9. \A j \in Work : j # Idle
  BY DEF Work, Idle
<1> QED
  BY <1>1, <1>4, <1>5, <1>6, <1>7, <1>8, <1>9 DEF Cases

\* No walk has found anything of nothing.
LEMMA NothingFound ==
  ASSUME NEW files
  PROVE  /\ [cases |-> NoCases, broken |-> {}] \in Found /\ NoCases \in Cases
         /\ OncePerPath(NoCases)
         /\ \A i \in CaseIds : NoCases[i] = None
         /\ Loaded(files, [cases |-> NoCases, broken |-> {}], 0)
<1>1. NoCases \in Cases /\ \A i \in CaseIds : NoCases[i] = None
  BY DEF NoCases, Cases
<1>2. \A k \in 1..0 : FALSE
  OBVIOUS
<1> QED
  BY <1>1, <1>2 DEF Found, OncePerPath, Loaded

-----------------------------------------------------------------------------
\* Every set of numbers that has a member has a least one.
LEMMA LeastNumber ==
  ASSUME NEW T, T \subseteq Nat, T # {}
  PROVE  \E x \in T : \A y \in T : x <= y
<1> DEFINE I == {1..n : n \in T}
           R == StrictSubsetOrdering(Nat)
<1>1. IsWellFoundedOn(R, FiniteSubsetsOf(Nat))
  BY FS_StrictSubsetOrderingWellFounded
<1>2. I \subseteq FiniteSubsetsOf(Nat)
  <2> SUFFICES ASSUME NEW n \in T PROVE 1..n \in FiniteSubsetsOf(Nat)
    OBVIOUS
  <2>1. IsFiniteSet(1..n)
    BY FS_Interval
  <2> QED
    BY <2>1 DEF FiniteSubsetsOf
<1>3. I # {}
  OBVIOUS
<1>4. PICK J \in I : \A y \in I : ~ (<<y, J>> \in R)
  <2> HIDE DEF R, I
  <2> QED
    BY <1>1, <1>2, <1>3, WFMin
<1>5. PICK x \in T : J = 1..x
  BY <1>4
<1>6. ASSUME NEW y \in T, y < x PROVE FALSE
  <2>1. <<1..y, 1..x>> \in R
    BY <1>6 DEF StrictSubsetOrdering
  <2> QED
    BY <2>1, <1>4, <1>5
<1> QED
  BY <1>5, <1>6

\* A file is first when none before it has its id.
LEMMA FirstAt ==
  ASSUME NEW files, NEW n \in 1..Len(Walk)
  PROVE  First(files, Walk[n]) <=>
           \A k \in 1..(n - 1) : IsDoc(files[Walk[k]]) => Id(files, k) # Id(files, n)
<1>1. ASSUME First(files, Walk[n]), NEW k \in 1..(n - 1), IsDoc(files[Walk[k]])
      PROVE  Id(files, k) # Id(files, n)
  BY <1>1, PathsHavePlaces DEF First, Id
<1>2. ASSUME \A k \in 1..(n - 1) : IsDoc(files[Walk[k]]) => Id(files, k) # Id(files, n)
      PROVE  First(files, Walk[n])
  <2> SUFFICES ASSUME NEW k \in DOMAIN Walk, NEW m \in DOMAIN Walk,
                      Walk[m] = Walk[n], k < m, IsDoc(files[Walk[k]])
               PROVE  IdIn(Walk[k], files[Walk[k]]) # IdIn(Walk[n], files[Walk[n]])
    BY DEF First
  <2>1. m = n /\ k \in 1..(n - 1)
    BY PathsHavePlaces
  <2> QED
    BY <2>1, <1>2 DEF Id
<1> QED
  BY <1>1, <1>2

\* Of the documents with one id, one is first.
LEMMA SomeoneIsFirst ==
  ASSUME NEW files, NEW n \in 1..Len(Walk), IsDoc(files[Walk[n]])
  PROVE  \E k \in 1..n : Loadable(files, Walk[k]) /\ Id(files, k) = Id(files, n)
<1> DEFINE T == {k \in 1..n : IsDoc(files[Walk[k]]) /\ Id(files, k) = Id(files, n)}
<1>1. n \in T /\ T \subseteq Nat
  BY PathsHavePlaces
<1>2. PICK k \in T : \A m \in T : k <= m
  <2> HIDE DEF T
  <2> QED
    BY <1>1, LeastNumber
<1>3. k \in 1..Len(Walk)
  BY PathsHavePlaces
<1>4. \A m \in 1..(k - 1) : IsDoc(files[Walk[m]]) => Id(files, m) # Id(files, k)
  BY <1>2, PathsHavePlaces
<1>5. First(files, Walk[k])
  BY <1>3, <1>4, FirstAt
<1> QED
  BY <1>5 DEF Loadable

\* Two files that are first with one id are the same.
LEMMA FirstIsOne ==
  ASSUME NEW files, NEW k \in 1..Len(Walk), NEW n \in 1..Len(Walk),
         Loadable(files, Walk[k]), Loadable(files, Walk[n]), Id(files, k) = Id(files, n)
  PROVE  k = n
<1>1. Len(Walk) \in Nat
  BY PathsHavePlaces
<1>2. CASE k < n
  BY <1>1, <1>2, FirstAt DEF Loadable
<1>3. CASE n < k
  BY <1>1, <1>3, FirstAt DEF Loadable
<1> QED
  BY <1>1, <1>2, <1>3

\* Where there is no file, nothing is found.
LEMMA ReadFileSkips ==
  ASSUME NEW found, NEW path PROVE ReadFile(found, path, Absent) = found
BY DocumentsHaveIds DEF ReadFile, IsDoc

\* A file that does not parse or repeats an id is broken, and nothing else changes.
LEMMA ReadFileRefuses ==
  ASSUME NEW found \in Found, NEW path \in Paths, NEW content,
         content = Torn \/ (IsDoc(content) /\ found.cases[IdIn(path, content)] # None)
  PROVE  /\ ReadFile(found, path, content).cases = found.cases
         /\ ReadFile(found, path, content).broken = found.broken \union {path}
<1>1. ReadFile(found, path, content) = [found EXCEPT !.broken = @ \union {path}]
  BY DocumentsHaveIds DEF ReadFile, IsDoc
<1>2. found \in [cases : Cases, broken : SUBSET Paths]
  BY DEF Found
<1> QED
  BY <1>1, <1>2

-----------------------------------------------------------------------------
\* What reading one file does to what a walk has found.
LEMMA ReadFileDoes ==
  ASSUME NEW found \in Found, NEW path \in Paths,
         NEW content \in Documents \union {Absent, Torn}
  PROVE  LET r == ReadFile(found, path, content)
             i == IdIn(path, content)
         IN /\ r \in Found
            /\ content = Absent => r = found
            /\ (content = Torn \/ (IsDoc(content) /\ found.cases[i] # None)) =>
                 r.cases = found.cases /\ r.broken = found.broken \union {path}
            /\ (IsDoc(content) /\ found.cases[i] = None) =>
                 /\ i \in CaseIds /\ content \in Documents
                 /\ r.broken = found.broken
                 /\ r.cases = [found.cases EXCEPT ![i] = [path |-> path, doc |-> content]]
<1> DEFINE r == ReadFile(found, path, content)
           i == IdIn(path, content)
<1>1. found.cases \in Cases /\ found.broken \in SUBSET Paths
  BY DEF Found
<1>2. CASE content = Absent
  <2>1. r = found
    BY <1>2, DocumentsHaveIds DEF ReadFile, IsDoc
  <2> QED
    BY <2>1, <1>2, DocumentsHaveIds DEF IsDoc
<1>3. CASE content = Torn
  <2>1. r = [found EXCEPT !.broken = @ \union {path}]
    BY <1>3, DocumentsHaveIds DEF ReadFile, IsDoc
  <2>2. r.cases = found.cases /\ r.broken = found.broken \union {path} /\ r \in Found
    BY <2>1, <1>1 DEF Found
  <2> QED
    BY <2>2, <1>3, DocumentsHaveIds DEF IsDoc
<1>4. CASE IsDoc(content) /\ found.cases[i] # None
  <2>1. r = [found EXCEPT !.broken = @ \union {path}]
    BY <1>4 DEF ReadFile, IsDoc
  <2>2. r.cases = found.cases /\ r.broken = found.broken \union {path} /\ r \in Found
    BY <2>1, <1>1 DEF Found
  <2> QED
    BY <2>2, <1>4 DEF IsDoc
<1>5. CASE IsDoc(content) /\ found.cases[i] = None
  <2>1. r = [found EXCEPT !.cases[i] = [path |-> path, doc |-> content]]
    BY <1>5 DEF ReadFile, IsDoc
  <2>2. content \in Documents /\ i \in CaseIds
    BY <1>5, DocumentsHaveIds DEF IsDoc
  <2>3. /\ r.broken = found.broken
        /\ r.cases = [found.cases EXCEPT ![i] = [path |-> path, doc |-> content]]
        /\ r = [cases |-> r.cases, broken |-> r.broken]
    BY <2>1 DEF Found
  <2>4. r.cases \in Cases
    BY <1>1, <2>2, <2>3 DEF Cases, Case
  <2>5. r \in Found
    BY <1>1, <2>3, <2>4 DEF Found
  <2> QED
    BY <2>2, <2>3, <2>5, <1>5 DEF IsDoc
<1>6. content = Absent \/ content = Torn \/ IsDoc(content)
  BY DEF IsDoc
<1> HIDE DEF r, i
<1> QED
  BY <1>2, <1>3, <1>4, <1>5, <1>6 DEF r, i

\* A document whose id nobody has is taken up.
LEMMA ReadFileTakes ==
  ASSUME NEW found \in Found, NEW path \in Paths,
         NEW content \in Documents \union {Absent, Torn},
         IsDoc(content), found.cases[IdIn(path, content)] = None
  PROVE  /\ IdIn(path, content) \in CaseIds /\ content \in Documents
         /\ ReadFile(found, path, content).broken = found.broken
         /\ ReadFile(found, path, content).cases =
              [found.cases EXCEPT ![IdIn(path, content)] = [path |-> path, doc |-> content]]
BY ReadFileDoes

\* A walk that has been right goes on to be.
LEMMA WalkStaysRight ==
  ASSUME NEW files \in Files, NEW found \in Found, NEW n \in Nat, n < Len(Walk),
         Loaded(files, found, n)
  PROVE  Loaded(files, ReadFile(found, Walk[n + 1], files[Walk[n + 1]]), n + 1)
<1> DEFINE path == Walk[n + 1]
           content == files[path]
           id == IdIn(path, content)
           r == ReadFile(found, path, content)
<1>1. /\ n + 1 \in 1..Len(Walk) /\ path \in Paths /\ Len(Walk) \in Nat
      /\ \A k \in 1..n : k \in 1..Len(Walk) /\ Walk[k] \in Paths
      /\ \A k \in 1..(n + 1) : k \in 1..n \/ k = n + 1
      /\ \A k \in 1..n : k \in 1..(n + 1)
  BY PathsHavePlaces
<1>2. content \in Documents \union {Absent, Torn}
  BY <1>1 DEF Files
<1>3. found.cases \in Cases
  BY DEF Found
<1>4. First(files, path) <=> \A k \in 1..n : IsDoc(files[Walk[k]]) => Id(files, k) # id
  <2>1. First(files, Walk[n + 1]) <=>
          \A k \in 1..(n + 1 - 1) : IsDoc(files[Walk[k]]) => Id(files, k) # Id(files, n + 1)
    <3> DEFINE m == n + 1
    <3>1. m \in 1..Len(Walk)
      BY <1>1
    <3>2. First(files, Walk[m]) <=>
            \A k \in 1..(m - 1) : IsDoc(files[Walk[k]]) => Id(files, k) # Id(files, m)
      <4> HIDE DEF m
      <4> QED
        BY <3>1, FirstAt
    <3> QED
      BY <3>2
  <2>2. n + 1 - 1 = n /\ Id(files, n + 1) = id
    BY DEF Id
  <2> QED
    BY <2>1, <2>2
<1>5. /\ \A k \in 1..n : IsDoc(files[Walk[k]]) => found.cases[Id(files, k)] # None
      /\ \A i \in CaseIds : found.cases[i] # None =>
           \E k \in 1..n : /\ Loadable(files, Walk[k]) /\ i = Id(files, k)
                           /\ found.cases[i] = CaseAt(files, k)
      /\ found.broken = {x \in Unloadable(files) : \E k \in 1..n : x = Walk[k]}
  BY DEF Loaded
<1>6. path \in Unloadable(files) <=> content # Absent /\ ~ Loadable(files, path)
  BY <1>1 DEF Unloadable
<1>7. {x \in Unloadable(files) : \E k \in 1..(n + 1) : x = Walk[k]}
        = found.broken \union (IF path \in Unloadable(files) THEN {path} ELSE {})
  <2> HIDE DEF path, content, id, r
  <2>1. path = Walk[n + 1]
    BY DEF path
  <2> QED
    BY <1>1, <1>5, <2>1
<1>8. CASE content = Absent
  <2>1. r = found /\ ~ IsDoc(content) /\ path \notin Unloadable(files)
    BY <1>6, <1>8, ReadFileSkips DEF IsDoc
  <2>2. \A k \in 1..(n + 1) : IsDoc(files[Walk[k]]) => r.cases[Id(files, k)] # None
    BY <1>1, <1>5, <2>1
  <2>3. r.broken = {x \in Unloadable(files) : \E k \in 1..(n + 1) : x = Walk[k]}
    BY <1>7, <2>1
  <2>4. \A i \in CaseIds : r.cases[i] # None =>
          \E k \in 1..(n + 1) : /\ Loadable(files, Walk[k]) /\ i = Id(files, k)
                                /\ r.cases[i] = CaseAt(files, k)
    <3> HIDE DEF path, content, id, r
    <3> QED
      BY <1>1, <1>5, <2>1
  <2> QED
    BY <2>2, <2>3, <2>4 DEF Loaded
<1>9. CASE content = Torn \/ (IsDoc(content) /\ found.cases[id] # None)
  <2>1. r.cases = found.cases /\ r.broken = found.broken \union {path}
    <3> HIDE DEF path, content
    <3> QED
      BY <1>1, <1>2, <1>9, ReadFileRefuses
  <2>2. path \in Unloadable(files)
    <3>1. CASE content = Torn
      BY <1>6, <3>1, DocumentsHaveIds DEF Loadable, IsDoc
    <3>2. CASE IsDoc(content) /\ found.cases[id] # None
      <4>1. id \in CaseIds
        BY <1>1, <1>2, <3>2, DocumentsHaveIds DEF IsDoc
      <4>2. PICK k \in 1..n : Loadable(files, Walk[k]) /\ id = Id(files, k)
        BY <1>5, <3>2, <4>1
      <4>3. ~ First(files, path)
        BY <1>4, <4>2 DEF Loadable
      <4> QED
        BY <1>6, <4>3, <3>2 DEF Loadable, IsDoc
    <3> QED
      BY <1>9, <3>1, <3>2
  <2>3. r.broken = {x \in Unloadable(files) : \E k \in 1..(n + 1) : x = Walk[k]}
    BY <1>7, <2>1, <2>2
  <2>4. \A k \in 1..(n + 1) : IsDoc(files[Walk[k]]) => r.cases[Id(files, k)] # None
    BY <1>1, <1>5, <1>9, <2>1, DocumentsHaveIds DEF IsDoc, Id
  <2>5. \A i \in CaseIds : r.cases[i] # None =>
          \E k \in 1..(n + 1) : /\ Loadable(files, Walk[k]) /\ i = Id(files, k)
                                /\ r.cases[i] = CaseAt(files, k)
    <3> HIDE DEF path, content, id, r
    <3> QED
      BY <1>1, <1>5, <2>1
  <2> QED
    BY <2>3, <2>4, <2>5 DEF Loaded
<1>10. CASE IsDoc(content) /\ found.cases[id] = None
  <2>1. /\ id \in CaseIds /\ content \in Documents
        /\ r.broken = found.broken
        /\ r.cases = [found.cases EXCEPT ![id] = [path |-> path, doc |-> content]]
    <3> HIDE DEF path, content
    <3> QED
      BY <1>1, <1>2, <1>10, ReadFileTakes
  <2>2. /\ r.cases[id] = CaseAt(files, n + 1)
        /\ \A i \in CaseIds : i # id => r.cases[i] = found.cases[i]
    BY <2>1, <1>3 DEF Cases, CaseAt
  <2>3. CaseAt(files, n + 1) # None
    BY <2>1, <1>1, DocumentsHaveIds DEF CaseAt, Case
  <2>4. First(files, path)
    BY <1>4, <1>5, <1>10
  <2>5. Loadable(files, path) /\ path \notin Unloadable(files)
    BY <1>6, <1>10, <2>4 DEF Loadable
  <2>6. r.broken = {x \in Unloadable(files) : \E k \in 1..(n + 1) : x = Walk[k]}
    BY <1>7, <2>1, <2>5
  <2>7. id = Id(files, n + 1)
    BY DEF Id
  <2>8. \A k \in 1..(n + 1) : IsDoc(files[Walk[k]]) => r.cases[Id(files, k)] # None
    <3> SUFFICES ASSUME NEW k \in 1..(n + 1), IsDoc(files[Walk[k]])
                 PROVE  r.cases[Id(files, k)] # None
      OBVIOUS
    <3>1. CASE k = n + 1
      BY <3>1, <2>2, <2>3, <2>7
    <3>2. CASE k \in 1..n
      <4>1. found.cases[Id(files, k)] # None
        BY <1>5, <3>2
      <4>2. files[Walk[k]] \in Documents
        BY <1>1, <3>2 DEF Files, IsDoc
      <4>3. Id(files, k) \in CaseIds
        BY <1>1, <3>2, <4>2, DocumentsHaveIds DEF Id
      <4> QED
        BY <4>1, <4>3, <2>2, <2>3
    <3> QED
      BY <1>1, <3>1, <3>2
  <2>9. \A i \in CaseIds : r.cases[i] # None =>
          \E k \in 1..(n + 1) : /\ Loadable(files, Walk[k]) /\ i = Id(files, k)
                                /\ r.cases[i] = CaseAt(files, k)
    <3>1. n + 1 \in 1..(n + 1) /\ Loadable(files, Walk[n + 1])
      BY <2>5
    <3> HIDE DEF path, content, id, r
    <3> QED
      BY <1>1, <1>5, <2>2, <2>7, <3>1
  <2> QED
    BY <2>6, <2>8, <2>9 DEF Loaded
<1>11. content = Absent \/ content = Torn \/ IsDoc(content)
  BY DEF IsDoc
<1> QED
  BY <1>8, <1>9, <1>10, <1>11

\* Reading on, no file is found twice.
LEMMA FoundOnce ==
  ASSUME NEW found \in Found, NEW n \in Nat, n < Len(Walk),
         NEW content \in Documents \union {Absent, Torn},
         OncePerPath(found.cases),
         \A i \in CaseIds : found.cases[i] # None =>
           \E k \in 1..n : found.cases[i].path = Walk[k]
  PROVE  LET r == ReadFile(found, Walk[n + 1], content)
         IN /\ OncePerPath(r.cases)
            /\ \A i \in CaseIds : r.cases[i] # None =>
                 \E k \in 1..(n + 1) : r.cases[i].path = Walk[k]
<1> DEFINE path == Walk[n + 1]
           id == IdIn(path, content)
           r == ReadFile(found, path, content)
<1>1. /\ n + 1 \in 1..Len(Walk) /\ path \in Paths /\ Len(Walk) \in Nat
      /\ \A k \in 1..n : k \in 1..(n + 1) /\ Walk[k] # path
  BY PathsHavePlaces
<1>2. content \in Documents \union {Absent, Torn}
  OBVIOUS
<1>3. CASE r.cases = found.cases
  BY <1>1, <1>3
<1>4. CASE IsDoc(content) /\ found.cases[id] = None
  <2>1. /\ id \in CaseIds /\ r.cases = [found.cases EXCEPT ![id] = [path |-> path, doc |-> content]]
    <3> HIDE DEF path
    <3> QED
      BY <1>1, <1>2, <1>4, ReadFileTakes
  <2>2. /\ r.cases[id] = [path |-> path, doc |-> content]
        /\ \A i \in CaseIds : i # id => r.cases[i] = found.cases[i]
    BY <2>1 DEF Found, Cases
  <2>3. r.cases[id].path = path
    BY <2>2
  <2>4. n + 1 \in 1..(n + 1) /\ path = Walk[n + 1]
    OBVIOUS
  <2> HIDE DEF path, id, r
  <2>5. \A i \in CaseIds : i # id /\ r.cases[i] # None => r.cases[i].path # path
    BY <1>1, <2>2
  <2>6. OncePerPath(r.cases)
    BY <2>2, <2>3, <2>5 DEF OncePerPath
  <2>7. \A i \in CaseIds : r.cases[i] # None => \E k \in 1..(n + 1) : r.cases[i].path = Walk[k]
    BY <1>1, <2>2, <2>3, <2>4
  <2> QED
    BY <2>6, <2>7 DEF r, path
<1>5. r.cases = found.cases \/ (IsDoc(content) /\ found.cases[id] = None)
  <2> HIDE DEF path
  <2>1. CASE content = Absent
    BY <2>1, ReadFileSkips
  <2>2. CASE content = Torn \/ (IsDoc(content) /\ found.cases[id] # None)
    BY <1>1, <1>2, <2>2, ReadFileRefuses
  <2> QED
    BY <2>1, <2>2 DEF IsDoc
<1> QED
  BY <1>3, <1>4, <1>5

\* What a walk knows of a file, it keeps.
LEMMA FoundStays ==
  ASSUME NEW found \in Found, NEW path \in Paths, NEW content \in Documents \union {Absent, Torn}
  PROVE  LET r == ReadFile(found, path, content)
         IN /\ found.broken \subseteq r.broken
            /\ \A i \in CaseIds : found.cases[i] # None => r.cases[i] = found.cases[i]
            /\ IsDoc(content) => \/ path \in r.broken
                                 \/ r.cases[IdIn(path, content)] = [path |-> path, doc |-> content]
<1> DEFINE id == IdIn(path, content)
           r == ReadFile(found, path, content)
<1>1. CASE IsDoc(content) /\ found.cases[id] = None
  <2>1. /\ id \in CaseIds /\ r.broken = found.broken
        /\ r.cases = [found.cases EXCEPT ![id] = [path |-> path, doc |-> content]]
    BY <1>1, ReadFileDoes
  <2>2. /\ r.cases[id] = [path |-> path, doc |-> content]
        /\ \A i \in CaseIds : i # id => r.cases[i] = found.cases[i]
    BY <2>1 DEF Found, Cases
  <2> HIDE DEF id, r
  <2>3. \A i \in CaseIds : found.cases[i] # None => r.cases[i] = found.cases[i]
    BY <1>1, <2>2
  <2> QED
    BY <2>1, <2>2, <2>3 DEF id, r
<1>2. CASE content = Torn \/ (IsDoc(content) /\ found.cases[id] # None)
  <2>1. r.cases = found.cases /\ r.broken = found.broken \union {path}
    BY <1>2, ReadFileRefuses
  <2> QED
    BY <2>1
<1>3. CASE content = Absent
  <2>1. r = found /\ ~ IsDoc(content)
    BY <1>3, ReadFileSkips DEF IsDoc
  <2> QED
    BY <2>1
<1> QED
  BY <1>1, <1>2, <1>3 DEF IsDoc

-----------------------------------------------------------------------------
\* The catalogue: every file that is first has its entry, and there is no other.
LEMMA CatalogueEntries ==
  ASSUME NEW files \in Files
  PROVE  /\ Catalogue(files) \in Cases
         /\ \A k \in 1..Len(Walk) : Loadable(files, Walk[k]) =>
              Catalogue(files)[Id(files, k)] = CaseAt(files, k)
         /\ \A i \in CaseIds : Catalogue(files)[i] # None =>
              \E k \in 1..Len(Walk) : /\ Loadable(files, Walk[k]) /\ i = Id(files, k)
                                      /\ Catalogue(files)[i] = CaseAt(files, k)
<1> DEFINE held(i) ==
             {path \in Paths : Loadable(files, path) /\ IdIn(path, files[path]) = i}
           entry(x) == [path |-> x, doc |-> files[x]]
<1>1. \A i \in CaseIds : /\ held(i) = {} => Catalogue(files)[i] = None
                         /\ held(i) # {} => \E x \in held(i) : Catalogue(files)[i] = entry(x)
  <2> SUFFICES ASSUME NEW i \in CaseIds
               PROVE  /\ held(i) = {} => Catalogue(files)[i] = None
                      /\ held(i) # {} => \E x \in held(i) : Catalogue(files)[i] = entry(x)
    OBVIOUS
  <2>1. Catalogue(files)[i] = IF held(i) = {} THEN None ELSE entry(CHOOSE x \in held(i) : TRUE)
    BY DEF Catalogue
  <2>2. held(i) # {} => (CHOOSE x \in held(i) : TRUE) \in held(i)
    OBVIOUS
  <2> HIDE DEF held, entry
  <2> QED
    BY <2>1, <2>2
<1>2. \A x \in Paths : Loadable(files, x) => files[x] \in Documents /\ entry(x) \in Case
  BY DEF Loadable, IsDoc, Files, Case
<1>3. \A i \in CaseIds : Catalogue(files)[i] \in Case \union {None}
  BY <1>1, <1>2
<1>4. Catalogue(files) \in Cases
  BY <1>3 DEF Catalogue, Cases
<1>5. ASSUME NEW k \in 1..Len(Walk), Loadable(files, Walk[k])
      PROVE  Catalogue(files)[Id(files, k)] = CaseAt(files, k)
  <2> DEFINE i == Id(files, k)
  <2>1. Walk[k] \in held(i) /\ i \in CaseIds
    BY <1>2, <1>5, PathsHavePlaces, DocumentsHaveIds DEF Id
  <2>2. PICK x \in held(i) : Catalogue(files)[i] = entry(x)
    BY <1>1, <2>1
  <2>3. PICK n \in 1..Len(Walk) : Walk[n] = x
    BY PathsHavePlaces
  <2>4. Loadable(files, Walk[n]) /\ Id(files, n) = i
    BY <2>2, <2>3 DEF Id
  <2>5. n = k
    BY <1>5, <2>4, FirstIsOne
  <2> QED
    BY <2>2, <2>3, <2>5 DEF CaseAt
<1>6. ASSUME NEW i \in CaseIds, Catalogue(files)[i] # None
      PROVE  \E k \in 1..Len(Walk) : /\ Loadable(files, Walk[k]) /\ i = Id(files, k)
                                     /\ Catalogue(files)[i] = CaseAt(files, k)
  <2>1. PICK x \in held(i) : Catalogue(files)[i] = entry(x)
    BY <1>1, <1>6
  <2>2. PICK n \in 1..Len(Walk) : Walk[n] = x
    BY PathsHavePlaces
  <2> QED
    BY <2>1, <2>2 DEF CaseAt, Id
<1> QED
  BY <1>4, <1>5, <1>6

\* What is right about all the files is the catalogue.
LEMMA LoadedIsTheCatalogue ==
  ASSUME NEW files \in Files, NEW found \in Found, Loaded(files, found, Len(Walk))
  PROVE  found.cases = Catalogue(files) /\ found.broken = Unloadable(files)
<1>1. found.cases \in Cases
  BY DEF Found
<1>2. \A i \in CaseIds : found.cases[i] = Catalogue(files)[i]
  <2> SUFFICES ASSUME NEW i \in CaseIds PROVE found.cases[i] = Catalogue(files)[i]
    OBVIOUS
  <2>1. CASE found.cases[i] # None
    <3>1. PICK k \in 1..Len(Walk) : /\ Loadable(files, Walk[k]) /\ i = Id(files, k)
                                    /\ found.cases[i] = CaseAt(files, k)
      BY <2>1 DEF Loaded
    <3> QED
      BY <3>1, CatalogueEntries
  <2>2. CASE found.cases[i] = None
    <3>1. ASSUME Catalogue(files)[i] # None PROVE FALSE
      <4>1. PICK k \in 1..Len(Walk) : Loadable(files, Walk[k]) /\ i = Id(files, k)
        BY <3>1, CatalogueEntries
      <4> QED
        BY <4>1, <2>2 DEF Loaded, Loadable
    <3> QED
      BY <3>1, <2>2
  <2> QED
    BY <2>1, <2>2
<1>3. found.cases = Catalogue(files)
  BY <1>1, <1>2, CatalogueEntries DEF Cases
<1>4. \A path \in Unloadable(files) : \E k \in 1..Len(Walk) : path = Walk[k]
  BY PathsHavePlaces DEF Unloadable
<1>5. found.broken = Unloadable(files)
  BY <1>4 DEF Loaded
<1> QED
  BY <1>3, <1>5

\* And the catalogue is right about all the files.
LEMMA TheCatalogueIsLoaded ==
  ASSUME NEW files \in Files
  PROVE  Loaded(files, [cases |-> Catalogue(files), broken |-> Unloadable(files)], Len(Walk))
<1> DEFINE found == [cases |-> Catalogue(files), broken |-> Unloadable(files)]
<1>1. ASSUME NEW n \in 1..Len(Walk), IsDoc(files[Walk[n]])
      PROVE  Catalogue(files)[Id(files, n)] # None
  <2>1. PICK k \in 1..n : Loadable(files, Walk[k]) /\ Id(files, k) = Id(files, n)
    BY <1>1, SomeoneIsFirst
  <2>2. k \in 1..Len(Walk)
    BY PathsHavePlaces
  <2>3. Catalogue(files)[Id(files, n)] = CaseAt(files, k)
    BY <2>1, <2>2, CatalogueEntries
  <2>4. CaseAt(files, k) \in Case
    BY <2>1, <2>2, PathsHavePlaces DEF Loadable, IsDoc, Files, Case, CaseAt
  <2> QED
    BY <2>3, <2>4, DocumentsHaveIds
<1>2. \A path \in Unloadable(files) : \E k \in 1..Len(Walk) : path = Walk[k]
  BY PathsHavePlaces DEF Unloadable
<1>3. found.broken = {path \in Unloadable(files) : \E k \in 1..Len(Walk) : path = Walk[k]}
  BY <1>2
<1>4. \A i \in CaseIds : found.cases[i] # None =>
        \E k \in 1..Len(Walk) : /\ Loadable(files, Walk[k]) /\ i = Id(files, k)
                                /\ found.cases[i] = CaseAt(files, k)
  BY CatalogueEntries
<1>5. \A k \in 1..Len(Walk) : IsDoc(files[Walk[k]]) => found.cases[Id(files, k)] # None
  BY <1>1
<1> HIDE DEF found
<1>6. Loaded(files, found, Len(Walk))
  BY <1>3, <1>4, <1>5 DEF Loaded
<1> QED
  BY <1>6 DEF found

\* A right catalogue lists no file twice.
LEMMA LoadedOnce ==
  ASSUME NEW files, NEW found, Loaded(files, found, Len(Walk))
  PROVE  OncePerPath(found.cases)
<1> SUFFICES ASSUME NEW i \in CaseIds, NEW k \in CaseIds,
                    found.cases[i] # None, found.cases[k] # None,
                    found.cases[i].path = found.cases[k].path
             PROVE  i = k
  BY DEF OncePerPath
<1>1. PICK n \in 1..Len(Walk) : i = Id(files, n) /\ found.cases[i] = CaseAt(files, n)
  BY DEF Loaded
<1>2. PICK m \in 1..Len(Walk) : k = Id(files, m) /\ found.cases[k] = CaseAt(files, m)
  BY DEF Loaded
<1>3. Walk[n] = Walk[m]
  BY <1>1, <1>2 DEF CaseAt
<1> QED
  BY <1>1, <1>2, <1>3, PathsHavePlaces

-----------------------------------------------------------------------------
\* The library as it is loaded at the start, with its first revisions.
LEMMA LibraryStarts == LibraryInit => LibraryInv
<1> SUFFICES ASSUME LibraryInit PROVE LibraryInv
  OBVIOUS
<1>1. disk \in Files
  <2>1. disk \in Begun /\ disk \in [Paths -> Range(disk)]
    BY LibraryAssumption DEF LibraryInit
  <2>2. \A path \in Paths : disk[path] \in Range(disk)
    BY <2>1 DEF Range
  <2>3. \A path \in Paths : disk[path] \in Documents \union {Absent}
    BY <2>1, <2>2 DEF Documents
  <2> QED
    BY <2>1, <2>3 DEF Files
<1>2. cases = Catalogue(disk) /\ broken = Unloadable(disk)
  BY DEF LibraryInit
<1>3. cases \in Cases /\ broken \in SUBSET Paths
  BY <1>1, <1>2, CatalogueEntries DEF Unloadable
<1>4. Loaded(disk, [cases |-> cases, broken |-> broken], Len(Walk))
  BY <1>1, <1>2, TheCatalogueIsLoaded
<1>5. OncePerPath(cases)
  <2> DEFINE found == [cases |-> cases, broken |-> broken]
  <2>1. found.cases = cases
    OBVIOUS
  <2> HIDE DEF found
  <2> QED
    BY <1>4, <2>1, LoadedOnce DEF found
<1>6. revs \in [CaseIds -> Seq(Documents)] /\ \A i \in CaseIds : NoneRepeated(revs[i])
  <2>1. \A i \in CaseIds : cases[i] # None => cases[i].doc \in Documents
    BY <1>3, DocumentsHaveIds DEF Case
  <2>2. revs = [i \in CaseIds |->
                 IF i = NoId \/ cases[i] = None THEN <<>> ELSE <<cases[i].doc>>]
    BY DEF LibraryInit
  <2>3. \A i \in CaseIds : revs[i] \in Seq(Documents) /\ Len(revs[i]) \in 0..1
    BY <2>1, <2>2
  <2> QED
    BY <2>2, <2>3 DEF NoneRepeated
<1>7. job \in [Procs -> Work \union {Idle}] /\ fresh \in BOOLEAN
  BY DEF LibraryInit
<1>8. \A p \in Procs : Fits(disk, cases, fresh, job[p])
  BY DEF LibraryInit, Fits
<1> QED
  BY <1>1, <1>3, <1>4, <1>5, <1>6, <1>7, <1>8 DEF LibraryInv, LibraryTypes

-----------------------------------------------------------------------------
\* Whoever is somewhere is at work.
LEMMA BusyAreAtWork ==
  ASSUME LibraryInv, NEW p \in Procs
  PROVE  /\ job[p] \in Work \/ job[p] = Idle
         /\ Busy(p) <=> job[p] \in Work
         /\ job[p].at # "idle" => job[p] \in Work /\ Fits(disk, cases, fresh, job[p])
         /\ job[p] \in Work <=> job[p] # Idle
<1>1. job[p] \in Work \/ job[p] = Idle
  BY DEF LibraryInv, LibraryTypes
<1>2. \A j \in Work : j.at # "idle"
  BY DEF Work
<1>3. Idle.at = "idle"
  BY DEF Idle
<1> QED
  BY <1>1, <1>2, <1>3 DEF LibraryInv, Busy

\* The step of one request that moves neither files nor what is installed.
LEMMA OneMoves ==
  ASSUME LibraryInv, NEW p \in Procs, NEW j \in Work \union {Idle},
         job' = [job EXCEPT ![p] = j], Fits(disk, cases, fresh, j),
         UNCHANGED <<disk, cases, broken, fresh>>,
         revs' \in [CaseIds -> Seq(Documents)], \A i \in CaseIds : NoneRepeated(revs'[i])
  PROVE  LibraryInv'
<1>1. job' \in [Procs -> Work \union {Idle}]
  BY DEF LibraryInv, LibraryTypes
<1>2. \A q \in Procs : job'[q] = job[q] \/ job'[q] = j
  BY DEF LibraryInv, LibraryTypes
<1>3. \A q \in Procs : Fits(disk', cases', fresh', job'[q])
  BY <1>2 DEF LibraryInv
<1>4. OncePerPath(cases')
  BY DEF LibraryInv
<1>5. fresh' => Loaded(disk', [cases |-> cases', broken |-> broken'], Len(Walk))
  BY DEF LibraryInv
<1>6. /\ disk' \in Files /\ cases' \in Cases /\ broken' \in SUBSET Paths
      /\ fresh' \in BOOLEAN
  BY DEF LibraryInv, LibraryTypes
<1> QED
  BY <1>1, <1>3, <1>4, <1>5, <1>6 DEF LibraryInv, LibraryTypes

\* The same, when it does not record.
LEMMA OneMovesOn ==
  ASSUME LibraryInv, NEW p \in Procs, NEW j \in Work \union {Idle},
         job' = [job EXCEPT ![p] = j], Fits(disk, cases, fresh, j),
         UNCHANGED <<disk, cases, broken, revs, fresh>>
  PROVE  LibraryInv'
<1>1. revs' \in [CaseIds -> Seq(Documents)] /\ \A i \in CaseIds : NoneRepeated(revs'[i])
  BY DEF LibraryInv, LibraryTypes
<1> QED
  BY <1>1, OneMoves

\* A walk or a write about to begin.
LEMMA RequestsBegin ==
  ASSUME NEW kind \in {"list", "seed", "remove", "save", "import"}, NEW path \in Paths,
         NEW doc \in Documents, NEW keeps \in Cases
  PROVE  /\ Walking(kind, path, doc) \in Work /\ Writing(kind, path, doc, keeps) \in Work
         /\ Unstarted(Walking(kind, path, doc)) /\ Unstarted(Writing(kind, path, doc, keeps))
         /\ Walking(kind, path, doc).changed = {} /\ Writing(kind, path, doc, keeps).changed = {}
<1>1. From(0) = Walk /\ 0 \in 0..Len(Walk)
  <2>1. 0 \in 0..Len(Walk)
    BY PathsHavePlaces
  <2> QED
    BY <2>1, WalkGoesOn
<1>2. Walk \in {From(n) : n \in 0..Len(Walk)}
  BY <1>1
<1>3. [cases |-> NoCases, broken |-> {}] \in Found /\ NoCases \in Cases
  BY NothingFound
<1>4. Walking(kind, path, doc) \in Work
  BY <1>2, <1>3 DEF Walking, Work
<1>5. Writing(kind, path, doc, keeps) \in Work
  BY <1>2, <1>3 DEF Walking, Writing, Work
<1> QED
  BY <1>4, <1>5 DEF Walking, Writing, Unstarted

\* A walk that has not begun is right about no file.
LEMMA UnstartedIsRight ==
  ASSUME NEW files, NEW j \in Work, Unstarted(j), j.changed = {}
  PROVE  WalksRight(files, j) /\ Seen(j) = 0 /\ (\A k \in 1..Seen(j) : FALSE)
<1>1. Seen(j) = 0
  BY PathsHavePlaces DEF Unstarted, Seen
<1>2. j.found = [cases |-> NoCases, broken |-> {}]
  BY DEF Unstarted
<1>3. OncePerPath(j.found.cases) /\ \A i \in CaseIds : j.found.cases[i] = None
  BY <1>2, NothingFound
<1>4. Loaded(files, j.found, Seen(j))
  BY <1>1, <1>2, NothingFound
<1> QED
  BY <1>1, <1>3, <1>4 DEF WalksRight

\* What begins as a walk for its own sake fits.
LEMMA WalksFit ==
  ASSUME NEW files, NEW cs, NEW fr, NEW j \in Work, Unstarted(j), j.changed = {},
         j.at = "walk", j.kind \in {"list", "seed", "remove"}
  PROVE  Fits(files, cs, fr, j)
<1>1. InPlace(j)
  BY DEF InPlace
<1>2. WalksRight(files, j)
  BY UnstartedIsRight
<1>3. ~ Writes(j) /\ j.kind # "import" /\ j.at # "lookup" /\ j.at # "record"
  BY DEF Writes
<1> QED
  BY <1>1, <1>2, <1>3 DEF Fits, WriteStands, WriteKnown, ImportsAlone

\* What begins as a write, and is no import, fits.
LEMMA WritesFit ==
  ASSUME NEW files, NEW cs, NEW fr, NEW j \in Work, Unstarted(j), j.changed = {},
         \/ j.at \in {"write", "fill"} /\ j.kind \in {"save", "seed"}
         \/ j.at = "remove" /\ j.kind = "remove"
  PROVE  Fits(files, cs, fr, j)
<1>1. InPlace(j)
  BY DEF InPlace
<1>2. j.at # "walk" /\ j.kind # "import" /\ j.at # "lookup" /\ j.at # "record"
  OBVIOUS
<1> QED
  BY <1>1, <1>2 DEF Fits, WalksRight, WriteStands, WriteKnown, ImportsAlone

-----------------------------------------------------------------------------
\* Loading for a page.
LEMMA BeginsList ==
  ASSUME LibraryInv, NEW p \in Procs, List(p)
  PROVE  LibraryInv'
<1> DEFINE j == Walking("list", Suggested, Shipped)
<1>1. Suggested \in Paths /\ Shipped \in Documents
  BY LibraryAssumption, DocumentsHaveIds
<1>2. j \in Work /\ Unstarted(j) /\ j.changed = {} /\ j.at = "walk" /\ j.kind = "list"
  BY <1>1, RequestsBegin, NothingFound DEF Walking
<1>3. job' = [job EXCEPT ![p] = j] /\ UNCHANGED <<disk, cases, broken, revs, fresh>>
  BY DEF List, Begins
<1> HIDE DEF j
<1>4. Fits(disk, cases, fresh, j)
  BY <1>2, WalksFit
<1> QED
  BY <1>2, <1>3, <1>4, OneMovesOn

\* Whoever saves a document to a path begins as a write.
LEMMA SavingBegins ==
  ASSUME LibraryInv, NEW p \in Procs, NEW path \in Paths, NEW d \in Documents,
         job' = [job EXCEPT ![p] = Writing("save", path, d, NoCases)],
         UNCHANGED <<disk, cases, broken, revs, fresh>>
  PROVE  LibraryInv'
<1> DEFINE j == Writing("save", path, d, NoCases)
<1>1. j \in Work /\ Unstarted(j) /\ j.changed = {}
  BY RequestsBegin, NothingFound
<1>2. j.at = "write" /\ j.kind = "save"
  BY DEF Writing, Walking
<1>3. job' = [job EXCEPT ![p] = j]
  OBVIOUS
<1> HIDE DEF j
<1>4. Fits(disk, cases, fresh, j)
  BY <1>1, <1>2, WritesFit
<1> QED
  BY <1>1, <1>3, <1>4, OneMovesOn

\* Saving from the editor.
LEMMA BeginsSave ==
  ASSUME LibraryInv, NEW p \in Procs, SaveScenario(p)
  PROVE  LibraryInv'
<1>1. PICK path \in Paths, d \in Docs : job' = [job EXCEPT ![p] = Writing("save", path, d, NoCases)]
  BY DEF SaveScenario
<1>2. UNCHANGED <<disk, cases, broken, revs, fresh>> /\ d \in Documents
  BY DocumentsHaveIds DEF SaveScenario, Begins
<1> QED
  BY <1>1, <1>2, SavingBegins

\* Updating by id, to the path that was loaded for it.
LEMMA BeginsUpdate ==
  ASSUME LibraryInv, NEW p \in Procs, Update(p)
  PROVE  LibraryInv'
<1>1. PICK i \in CaseIds, d \in Docs :
        cases[i] # None /\ job' = [job EXCEPT ![p] = Writing("save", cases[i].path, d, NoCases)]
  BY DEF Update
<1>2. UNCHANGED <<disk, cases, broken, revs, fresh>> /\ d \in Documents
  BY DocumentsHaveIds DEF Update, Begins
<1>3. cases[i].path \in Paths
  BY <1>1, DocumentsHaveIds DEF LibraryInv, LibraryTypes, Case
<1> QED
  BY <1>1, <1>2, <1>3, SavingBegins

\* Restoring a revision that was kept.
LEMMA BeginsRestore ==
  ASSUME LibraryInv, NEW p \in Procs, RestoreRevision(p)
  PROVE  LibraryInv'
<1>1. PICK i \in CaseIds :
        /\ cases[i] # None
        /\ \E d \in Range(revs[i]) \ {cases[i].doc} :
             job' = [job EXCEPT ![p] = Writing("save", cases[i].path, d, NoCases)]
  BY DEF RestoreRevision
<1>2. PICK d \in Range(revs[i]) :
        job' = [job EXCEPT ![p] = Writing("save", cases[i].path, d, NoCases)]
  BY <1>1
<1>3. UNCHANGED <<disk, cases, broken, revs, fresh>>
  BY DEF RestoreRevision, Begins
<1>4. cases[i].path \in Paths
  BY <1>1, DocumentsHaveIds DEF LibraryInv, LibraryTypes, Case
<1>5. d \in Documents
  <2>1. revs[i] \in Seq(Documents)
    BY DEF LibraryInv, LibraryTypes
  <2> QED
    BY <2>1, <1>2 DEF Range
<1> QED
  BY <1>2, <1>3, <1>4, <1>5, SavingBegins

\* Seeding: a walk if the file is there, else a write.
LEMMA BeginsSeed ==
  ASSUME LibraryInv, NEW p \in Procs, Seed(p)
  PROVE  LibraryInv'
<1> DEFINE j == IF Exists(BuiltIn) THEN Walking("seed", BuiltIn, Shipped)
                ELSE Writing("seed", BuiltIn, Shipped, NoCases)
<1>1. BuiltIn \in Paths /\ Shipped \in Documents
  BY LibraryAssumption, DocumentsHaveIds
<1>2. /\ Walking("seed", BuiltIn, Shipped) \in Work
      /\ Writing("seed", BuiltIn, Shipped, NoCases) \in Work
      /\ Unstarted(Walking("seed", BuiltIn, Shipped))
      /\ Unstarted(Writing("seed", BuiltIn, Shipped, NoCases))
      /\ Walking("seed", BuiltIn, Shipped).changed = {}
      /\ Writing("seed", BuiltIn, Shipped, NoCases).changed = {}
  BY <1>1, RequestsBegin, NothingFound
<1>3. /\ Walking("seed", BuiltIn, Shipped).at = "walk"
      /\ Walking("seed", BuiltIn, Shipped).kind = "seed"
      /\ Writing("seed", BuiltIn, Shipped, NoCases).at = "write"
      /\ Writing("seed", BuiltIn, Shipped, NoCases).kind = "seed"
  BY DEF Walking, Writing
<1>4. j \in Work
  BY <1>2
<1>5. job' = [job EXCEPT ![p] = j] /\ UNCHANGED <<disk, cases, broken, revs, fresh>>
  BY DEF Seed, Begins
<1>6. Fits(disk, cases, fresh, j)
  <2>1. Fits(disk, cases, fresh, Walking("seed", BuiltIn, Shipped))
    BY <1>2, <1>3, WalksFit
  <2>2. Fits(disk, cases, fresh, Writing("seed", BuiltIn, Shipped, NoCases))
    BY <1>2, <1>3, WritesFit
  <2> QED
    BY <2>1, <2>2
<1> HIDE DEF j
<1> QED
  BY <1>4, <1>5, <1>6, OneMovesOn

\* Removing what ships with the program, if it is still the same.
LEMMA BeginsRemove ==
  ASSUME LibraryInv, NEW p \in Procs, RemoveBuiltIns(p)
  PROVE  LibraryInv'
<1> DEFINE w == Walking("remove", BuiltIn, Shipped)
           j == [w EXCEPT !.at = IF disk[BuiltIn] = Shipped THEN "remove" ELSE "walk"]
<1>1. BuiltIn \in Paths /\ Shipped \in Documents
  BY LibraryAssumption, DocumentsHaveIds
<1>2. w \in Work /\ Unstarted(w) /\ w.changed = {} /\ w.kind = "remove"
  BY <1>1, RequestsBegin, NothingFound DEF Walking
<1>3. job' = [job EXCEPT ![p] = j] /\ UNCHANGED <<disk, cases, broken, revs, fresh>>
  BY DEF RemoveBuiltIns, Begins
<1> HIDE DEF w
<1>4. /\ j \in Work /\ j.at \in {"remove", "walk"} /\ j.kind = "remove"
      /\ j.todo = w.todo /\ j.found = w.found /\ j.clean = w.clean /\ j.changed = {}
  BY <1>2 DEF Work
<1> HIDE DEF j
<1>5. Unstarted(j)
  BY <1>2, <1>4 DEF Unstarted
<1>6. Fits(disk, cases, fresh, j)
  <2>1. CASE j.at = "walk"
    BY <2>1, <1>4, <1>5, WalksFit
  <2>2. CASE j.at = "remove"
    BY <2>2, <1>4, <1>5, WritesFit
  <2> QED
    BY <2>1, <2>2, <1>4
<1> QED
  BY <1>3, <1>4, <1>6, OneMovesOn

\* An import begins alone, or disturbed.
LEMMA BeginsImport ==
  ASSUME LibraryInv, NEW p \in Procs, Import(p)
  PROVE  LibraryInv'
<1> DEFINE alone == fresh /\ \A q \in Procs : ~ Busy(q)
           keeps == IF alone THEN cases ELSE NoCases
           w(path, d) == Writing("import", path, d, keeps)
<1>1. PICK d \in Docs, path \in FreePath :
        job' = [job EXCEPT ![p] = [w(path, d) EXCEPT !.disturbed = ~ alone,
                                                     !.free = Free(path)]]
  BY DEF Import
<1>2. UNCHANGED <<disk, cases, broken, revs, fresh>> /\ d \in Documents
  BY DocumentsHaveIds DEF Import, Begins
<1>3. path \in Paths
  <2>1. \A k \in DOMAIN Copies : Copies[k] \in Paths
    BY LibraryAssumption
  <2> QED
    BY <2>1, LibraryAssumption DEF FreePath
<1>13. Free(path) => disk[path] = Absent /\ cases[IdOf[path]] = None
  BY DEF Free, Exists
<1>4. cases \in Cases /\ keeps \in Cases
  BY NothingFound DEF LibraryInv, LibraryTypes
<1> DEFINE free == Free(path)
           j == [w(path, d) EXCEPT !.disturbed = ~ alone, !.free = free]
<1>5. w(path, d) \in Work /\ Unstarted(w(path, d)) /\ w(path, d).changed = {}
  <2> HIDE DEF keeps
  <2> QED
    BY <1>2, <1>3, <1>4, RequestsBegin
<1>6. /\ w(path, d).at = "write" /\ w(path, d).kind = "import" /\ w(path, d).path = path
      /\ w(path, d).keeps = keeps
  BY DEF Writing, Walking
<1>7. job' = [job EXCEPT ![p] = j]
  BY <1>1
<1>8. alone \in BOOLEAN /\ free \in BOOLEAN
  BY DEF LibraryInv, LibraryTypes, Free
<1> HIDE DEF w
<1>9. /\ j \in Work /\ j.at = "write" /\ j.kind = "import" /\ j.path = path /\ j.keeps = keeps
      /\ j.todo = w(path, d).todo /\ j.found = w(path, d).found
      /\ j.clean = w(path, d).clean /\ j.changed = {}
      /\ j.disturbed = ~ alone /\ j.free = free
  <2> HIDE DEF alone, keeps, free
  <2> QED
    BY <1>5, <1>6, <1>8 DEF Work
<1> HIDE DEF j
<1>10. Unstarted(j)
  BY <1>5, <1>9 DEF Unstarted
<1>11. ImportsAlone(disk, fresh, j)
  <2>1. SUFFICES ASSUME alone, free
                 PROVE  /\ \A k \in 1..Len(Walk) :
                             (Walk[k] # path /\ IsDoc(disk[Walk[k]])) => Id(disk, k) # IdOf[path]
                        /\ \A i \in CaseIds : cases[i] # None =>
                             i # IdOf[path] /\ \E k \in 1..Len(Walk) : KeptAt(disk, j, i, k)
    BY <1>9 DEF ImportsAlone
  <2> DEFINE found == [cases |-> cases, broken |-> broken]
  <2>2. Loaded(disk, found, Len(Walk)) /\ found.cases = cases
    BY <2>1 DEF LibraryInv
  <2> HIDE DEF found
  <2>3. \A k \in 1..Len(Walk) : IsDoc(disk[Walk[k]]) => cases[Id(disk, k)] # None
    BY <2>2 DEF Loaded
  <2>4. \A k \in 1..Len(Walk) : IsDoc(disk[Walk[k]]) => Id(disk, k) # IdOf[path]
    BY <1>13, <2>1, <2>3
  <2>5. ASSUME NEW i \in CaseIds, cases[i] # None
        PROVE  i # IdOf[path] /\ \E k \in 1..Len(Walk) : KeptAt(disk, j, i, k)
    <3>1. PICK k \in 1..Len(Walk) : /\ Loadable(disk, Walk[k]) /\ i = Id(disk, k)
                                    /\ cases[i] = CaseAt(disk, k)
      BY <2>2, <2>5 DEF Loaded
    <3>2. IsDoc(disk[Walk[k]]) /\ Walk[k] # path
      BY <1>13, <2>1, <3>1 DEF Loadable, IsDoc
    <3>3. \A m \in 1..(k - 1) : IsDoc(disk[Walk[m]]) => Id(disk, m) # i
      BY <3>1, FirstAt DEF Loadable
    <3>4. j.keeps[i] = cases[i]
      BY <1>9, <2>1
    <3>5. KeptAt(disk, j, i, k)
      BY <1>9, <3>1, <3>2, <3>3, <3>4 DEF KeptAt
    <3> QED
      BY <1>13, <2>1, <2>5, <3>5
  <2> QED
    BY <2>4, <2>5
<1>12. Fits(disk, cases, fresh, j)
  BY <1>9, <1>10, <1>11 DEF Fits, InPlace, WalksRight, WriteStands, WriteKnown
<1> QED
  BY <1>2, <1>7, <1>9, <1>12, OneMovesOn

-----------------------------------------------------------------------------
\* How far a walk has come.
LEMMA WalkIsAt ==
  ASSUME NEW j \in Work
  PROVE  /\ Seen(j) \in 0..Len(Walk) /\ j.todo = From(Seen(j))
         /\ j.todo = <<>> <=> Seen(j) = Len(Walk)
         /\ Len(Walk) \in Nat
<1>1. PICK n \in 0..Len(Walk) : j.todo = From(n)
  BY DEF Work
<1>2. Len(From(n)) = Len(Walk) - n /\ From(Len(Walk)) = <<>> /\ (From(n) = <<>> => n = Len(Walk))
  BY WalkGoesOn
<1>3. Len(Walk) \in Nat
  BY PathsHavePlaces
<1>4. Seen(j) = n
  BY <1>1, <1>2, <1>3 DEF Seen
<1> QED
  BY <1>1, <1>2, <1>3, <1>4

\* Reading a file, the walk still fits.
LEMMA WalkFileKeeps ==
  ASSUME LibraryInv, NEW p \in Procs, WalkFile(p)
  PROVE  LibraryInv'
<1> DEFINE j == job[p]
           n == Seen(j)
           path == Walk[n + 1]
<1>1. j \in Work /\ j.at = "walk" /\ j.todo # <<>> /\ Fits(disk, cases, fresh, j)
  BY BusyAreAtWork DEF WalkFile
<1>2. n \in 0..Len(Walk) /\ j.todo = From(n) /\ n < Len(Walk) /\ Len(Walk) \in Nat
  BY <1>1, WalkIsAt
<1>3. Head(j.todo) = path /\ Tail(j.todo) = From(n + 1) /\ n + 1 \in 0..Len(Walk)
  <2> HIDE DEF j, n
  <2> QED
    BY <1>2, WalkGoesOn
<1>17. PICK content \in Meets(p, path) :
         job' = [job EXCEPT ![p].todo = Tail(@), ![p].found = ReadFile(@, path, content)]
  BY <1>3 DEF WalkFile
<1> DEFINE r == ReadFile(j.found, path, content)
           j2 == [j EXCEPT !.todo = Tail(@), !.found = r]
<1>4. job' = [job EXCEPT ![p] = j2] /\ UNCHANGED <<disk, cases, broken, revs, fresh>>
  BY <1>17 DEF WalkFile, LibraryInv, LibraryTypes
<1>5. /\ path \in Paths /\ disk \in Files /\ j.found \in Found
      /\ content \in Documents \union {Absent, Torn}
  <2>1. path \in Paths /\ j.found \in Found
    BY <1>1, <1>2, PathsHavePlaces DEF Work
  <2> QED
    BY <2>1 DEF Files, LibraryInv, LibraryTypes, Meets
<1>18. path \notin j.changed => content = disk[path]
  BY DEF Meets
<1> HIDE DEF j, path
<1>6. r \in Found
  BY <1>5, ReadFileDoes
<1> HIDE DEF r
<1>7. /\ j2 \in Work /\ j2.at = "walk" /\ j2.todo = From(n + 1) /\ j2.found = r
      /\ j2.kind = j.kind /\ j2.path = j.path /\ j2.doc = j.doc /\ j2.clean = j.clean
      /\ j2.changed = j.changed /\ j2.disturbed = j.disturbed /\ j2.free = j.free
      /\ j2.keeps = j.keeps /\ j2.id = j.id
  <2>1. From(n + 1) \in {From(k) : k \in 0..Len(Walk)}
    BY <1>3
  <2> QED
    BY <1>1, <1>3, <1>6, <2>1 DEF Work
<1>8. Seen(j2) = n + 1
  <2>1. Len(From(n + 1)) = Len(Walk) - (n + 1)
    BY <1>3, WalkGoesOn
  <2> HIDE DEF j2, n
  <2> QED
    BY <1>2, <1>7, <2>1 DEF Seen
<1> HIDE DEF j2, n
<1>9. WalksRight(disk, j) /\ WriteStands(disk, j) /\ ImportsAlone(disk, fresh, j) /\ n = Seen(j)
  BY <1>1, DocumentsHaveIds DEF Fits, n
<1>10. path = Walk[n + 1] /\ r = ReadFile(j.found, path, content)
  BY DEF path, r
<1>11. InPlace(j2)
  BY <1>7 DEF InPlace
<1>12. WalksRight(disk, j2)
  <2>1. /\ OncePerPath(j.found.cases)
        /\ \A i \in CaseIds : j.found.cases[i] # None =>
             \E k \in 1..n : j.found.cases[i].path = Walk[k]
    BY <1>1, <1>9 DEF WalksRight
  <2>2. /\ OncePerPath(r.cases)
        /\ \A i \in CaseIds : r.cases[i] # None =>
             \E k \in 1..(n + 1) : r.cases[i].path = Walk[k]
    <3> DEFINE f == j.found
    <3>1. /\ f \in Found /\ n \in Nat /\ n < Len(Walk)
          /\ content \in Documents \union {Absent, Torn}
          /\ OncePerPath(f.cases)
          /\ \A i \in CaseIds : f.cases[i] # None => \E k \in 1..n : f.cases[i].path = Walk[k]
          /\ r = ReadFile(f, Walk[n + 1], content)
      BY <1>2, <1>5, <1>10, <2>1
    <3> HIDE DEF f
    <3> QED
      BY <3>1, FoundOnce
  <2>3. j.clean => Loaded(disk, r, n + 1)
    <3>1. SUFFICES ASSUME j.clean PROVE Loaded(disk, r, n + 1)
      OBVIOUS
    <3>2. Loaded(disk, j.found, n) /\ j.changed = {}
      BY <1>1, <1>9, <3>1 DEF WalksRight
    <3>3. content = disk[Walk[n + 1]]
      BY <1>10, <1>18, <3>2
    <3> QED
      BY <1>2, <1>5, <1>10, <3>2, <3>3, WalkStaysRight
  <2>4. j.clean => j.changed = {}
    BY <1>1, <1>9 DEF WalksRight
  <2> QED
    BY <1>7, <1>8, <2>2, <2>3, <2>4 DEF WalksRight
<1>13. WriteStands(disk, j2)
  <2>1. SUFFICES ASSUME Writes(j)
                 PROVE  /\ disk[j.path] = j.doc /\ j.path \notin j.changed
                        /\ \A x \in j.changed : disk[x] # Absent
                        /\ \A k \in 1..(n + 1) : Walk[k] = j.path =>
                             \/ j.path \in r.broken
                             \/ r.cases[IdIn(j.path, j.doc)] = [path |-> j.path, doc |-> j.doc]
    BY <1>7, <1>8 DEF WriteStands, Writes
  <2>2. /\ disk[j.path] = j.doc /\ j.path \notin j.changed
        /\ \A x \in j.changed : disk[x] # Absent
        /\ \A k \in 1..n : Walk[k] = j.path =>
             \/ j.path \in j.found.broken
             \/ j.found.cases[IdIn(j.path, j.doc)] = [path |-> j.path, doc |-> j.doc]
    BY <1>1, <1>9, <2>1 DEF WriteStands
  <2>3. /\ j.path \in Paths /\ j.doc \in Documents /\ IdIn(j.path, j.doc) \in CaseIds
        /\ [path |-> j.path, doc |-> j.doc] # None
    BY <1>1, DocumentsHaveIds DEF Work, Case
  <2>4. /\ j.found.broken \subseteq r.broken
        /\ \A i \in CaseIds : j.found.cases[i] # None => r.cases[i] = j.found.cases[i]
        /\ IsDoc(content) =>
             \/ path \in r.broken
             \/ r.cases[IdIn(path, content)] = [path |-> path, doc |-> content]
    BY <1>5, <1>10, FoundStays
  <2>5. ASSUME NEW k \in 1..(n + 1), Walk[k] = j.path
        PROVE  \/ j.path \in r.broken
               \/ r.cases[IdIn(j.path, j.doc)] = [path |-> j.path, doc |-> j.doc]
    <3>1. CASE k \in 1..n
      BY <2>2, <2>3, <2>4, <2>5, <3>1
    <3>2. CASE k = n + 1
      <4>1. path = j.path /\ content = j.doc /\ IsDoc(content)
        BY <1>10, <1>18, <2>2, <2>3, <2>5, <3>2, DocumentsHaveIds
      <4> QED
        BY <2>4, <4>1
    <3> QED
      BY <1>2, <3>1, <3>2
  <2> QED
    BY <2>2, <2>5
<1>14. WriteKnown(cases, j2)
  BY <1>7 DEF WriteKnown
<1>15. ImportsAlone(disk, fresh, j2)
  BY <1>1, <1>7, <1>9 DEF ImportsAlone, KeptAt
<1>16. Fits(disk, cases, fresh, j2)
  BY <1>11, <1>12, <1>13, <1>14, <1>15 DEF Fits
<1> QED
  BY <1>4, <1>7, <1>16, OneMovesOn

\* A walk cut short is not clean.
LEMMA WalkStopsKeeps ==
  ASSUME LibraryInv, NEW p \in Procs, WalkStops(p)
  PROVE  LibraryInv'
<1> DEFINE j == job[p]
           j2 == [j EXCEPT !.todo = <<>>, !.clean = FALSE]
<1>1. /\ j \in Work /\ j.at = "walk" /\ Fits(disk, cases, fresh, j)
      /\ \E x \in j.changed : disk[x] = Absent
  BY BusyAreAtWork DEF WalkStops, Exists
<1>2. job' = [job EXCEPT ![p] = j2] /\ UNCHANGED <<disk, cases, broken, revs, fresh>>
  BY DEF WalkStops, LibraryInv, LibraryTypes
<1> HIDE DEF j
<1>3. Len(Walk) \in 0..Len(Walk) /\ From(Len(Walk)) = <<>> /\ Len(Walk) \in Nat
  <2>1. Len(Walk) \in 0..Len(Walk) /\ Len(Walk) \in Nat
    BY PathsHavePlaces
  <2> QED
    BY <2>1, WalkGoesOn
<1>4. /\ j2 \in Work /\ j2.at = "walk" /\ j2.todo = <<>> /\ j2.found = j.found
      /\ j2.kind = j.kind /\ j2.path = j.path /\ j2.clean = FALSE
      /\ j2.changed = j.changed /\ j2.disturbed = j.disturbed
  <2>1. <<>> \in {From(k) : k \in 0..Len(Walk)}
    BY <1>3
  <2> QED
    BY <1>1, <2>1 DEF Work
<1>5. Seen(j2) = Len(Walk) /\ Seen(j) \in 0..Len(Walk)
  BY <1>1, <1>3, <1>4, WalkIsAt
<1> HIDE DEF j2
<1>6. ~ Writes(j)
  BY <1>1, DocumentsHaveIds DEF Fits, WriteStands
<1>7. WalksRight(disk, j2)
  BY <1>1, <1>3, <1>4, <1>5, DocumentsHaveIds DEF Fits, WalksRight
<1>8. InPlace(j2) /\ WriteStands(disk, j2) /\ WriteKnown(cases, j2)
  BY <1>4, <1>6 DEF InPlace, WriteStands, WriteKnown, Writes
<1>9. ~ (j2.kind = "import" /\ ~ j2.disturbed)
  BY <1>4, <1>6 DEF Writes
<1>10. Fits(disk, cases, fresh, j2)
  BY <1>7, <1>8, <1>9 DEF Fits, ImportsAlone
<1> QED
  BY <1>2, <1>4, <1>10, OneMovesOn

-----------------------------------------------------------------------------
\* What the change of a file leaves right: everybody else's request, the one
\* whose walk it disturbed included.
LEMMA FileChanges ==
  ASSUME LibraryInv, NEW p \in Procs, NEW path \in Paths,
         NEW content \in Documents \union {Absent, Torn}, NEW mine \in Work,
         NEW removed \in BOOLEAN, content = Absent => removed,
         disk' = [disk EXCEPT ![path] = content], Others(p, path, mine, removed),
         UNCHANGED <<cases, broken, revs>>, Fits(disk', cases, FALSE, mine)
  PROVE  LibraryInv'
<1>1. disk' \in Files /\ fresh' = FALSE
  BY DEF Files, LibraryInv, LibraryTypes, Others
<1>2. ASSUME NEW q \in Procs
      PROVE  /\ job'[q] \in Work \union {Idle}
             /\ Fits(disk', cases, FALSE, job'[q])
  <2>1. CASE q = p
    BY <2>1 DEF Others
  <2>2. CASE q # p /\ ~ Busy(q)
    <3>1. job'[q] = job[q] /\ job[q] = Idle
      BY <2>2, BusyAreAtWork DEF Others
    <3> QED
      BY <3>1 DEF Fits
  <2>3. CASE q # p /\ Busy(q)
    <3> DEFINE j == job[q]
               new == j.at \in {"walk", "fill"} /\ (removed \/ ~ Exists(path))
               c == j.clean /\ j.at # "walk"
               g == IF new THEN j.changed \union {path} ELSE j.changed
               d == j.disturbed \/ j.path = path \/ removed \/ j.kind = "import"
               j2 == [j EXCEPT !.clean = c, !.changed = g, !.disturbed = d]
    <3>1. job'[q] = j2
      BY <2>3 DEF Others
    <3>2. j \in Work /\ Fits(disk, cases, fresh, j)
      BY <2>3, BusyAreAtWork DEF Busy
    <3> HIDE DEF j
    <3>12. /\ c \in BOOLEAN /\ g \in SUBSET Paths /\ d \in BOOLEAN
           /\ g = j.changed \/ g = j.changed \union {path}
           /\ j.at \notin {"walk", "fill"} => g = j.changed
           /\ c => j.clean /\ j.at # "walk"
           /\ j.at # "walk" => c = j.clean
           /\ ~ d => ~ j.disturbed /\ j.path # path /\ ~ removed /\ j.kind # "import"
      BY <3>2 DEF Work
    <3> HIDE DEF c, g, d
    <3>3. /\ j2.at = j.at /\ j2.kind = j.kind /\ j2.path = j.path /\ j2.doc = j.doc
          /\ j2.todo = j.todo /\ j2.found = j.found /\ j2.keeps = j.keeps /\ j2.id = j.id
          /\ j2.free = j.free /\ j2.clean = c /\ j2.changed = g /\ j2.disturbed = d
      BY <3>2 DEF Work
    <3>4. j2 \in Work
      <4> HIDE DEF j2
      <4>1. j2 = [j EXCEPT !.clean = c, !.changed = g, !.disturbed = d]
        BY DEF j2
      <4> QED
        BY <3>2, <3>12, <4>1 DEF Work
    <3> HIDE DEF j2
    <3>5. InPlace(j) /\ WalksRight(disk, j) /\ WriteStands(disk, j) /\ WriteKnown(cases, j)
      BY <3>2, DocumentsHaveIds DEF Fits
    <3>6. InPlace(j2)
      <4>1. j.at \in {"write", "fill", "remove"} => Unstarted(j2)
        BY <3>3, <3>5, <3>12 DEF InPlace, Unstarted
      <4> QED
        BY <4>1, <3>3, <3>5, <3>12 DEF InPlace
    <3>7. WalksRight(disk', j2)
      <4>1. Seen(j2) = Seen(j)
        BY <3>3 DEF Seen
      <4> QED
        BY <4>1, <3>3, <3>5, <3>12 DEF WalksRight
    <3>8. Writes(j2) => Writes(j) /\ j.path # path /\ ~ removed
      BY <3>3, <3>12 DEF Writes
    <3>9. WriteStands(disk', j2)
      <4>1. SUFFICES ASSUME Writes(j2), j2.at = "walk"
                     PROVE  /\ disk'[j.path] = j.doc /\ j.path \notin g
                            /\ \A x \in g : disk'[x] # Absent
                            /\ \A k \in 1..Seen(j) : Walk[k] = j.path =>
                                 \/ j.path \in j.found.broken
                                 \/ j.found.cases[IdIn(j.path, j.doc)]
                                      = [path |-> j.path, doc |-> j.doc]
        BY <3>3 DEF WriteStands, Seen
      <4>2. /\ disk[j.path] = j.doc /\ j.path \notin j.changed
            /\ \A x \in j.changed : disk[x] # Absent
            /\ \A k \in 1..Seen(j) : Walk[k] = j.path =>
                 \/ j.path \in j.found.broken
                 \/ j.found.cases[IdIn(j.path, j.doc)] = [path |-> j.path, doc |-> j.doc]
        BY <4>1, <3>3, <3>5, <3>8 DEF WriteStands
      <4>3. disk'[j.path] = disk[j.path]
        BY <4>1, <3>2, <3>8 DEF Files, LibraryInv, LibraryTypes, Work
      <4>4. \A x \in Paths : disk'[x] = IF x = path THEN content ELSE disk[x]
        BY DEF Files, LibraryInv, LibraryTypes
      <4>5. content # Absent /\ g \subseteq Paths
        BY <4>1, <3>8, <3>12
      <4>6. j.path \notin g /\ \A x \in g : disk'[x] # Absent
        BY <4>1, <4>2, <4>4, <4>5, <3>8, <3>12
      <4> QED
        BY <4>2, <4>3, <4>6
    <3>10. WriteKnown(cases, j2)
      BY <3>3, <3>5, <3>8 DEF WriteKnown
    <3>11. ImportsAlone(disk', FALSE, j2)
      BY <3>3, <3>12 DEF ImportsAlone
    <3> QED
      BY <3>1, <3>4, <3>6, <3>7, <3>9, <3>10, <3>11 DEF Fits
  <2> QED
    BY <2>1, <2>2, <2>3
<1>3. job' \in [Procs -> Work \union {Idle}]
  <2>1. job' = [q \in Procs |-> job'[q]]
    BY DEF Others
  <2> QED
    BY <1>2, <2>1
<1>4. /\ OncePerPath(cases') /\ cases' \in Cases /\ broken' \in SUBSET Paths
      /\ revs' \in [CaseIds -> Seq(Documents)] /\ \A i \in CaseIds : NoneRepeated(revs'[i])
  BY DEF LibraryInv, LibraryTypes
<1>5. \A q \in Procs : Fits(disk', cases', fresh', job'[q])
  BY <1>1, <1>2
<1> QED
  BY <1>1, <1>3, <1>4, <1>5 DEF LibraryInv, LibraryTypes

\* An import stays alone while only its own file changes.
LEMMA StaysAlone ==
  ASSUME NEW files \in Files, NEW fr, NEW j \in Work, ImportsAlone(files, fr, j),
         NEW content, NEW j2 \in Work, NEW fr2,
         j2.kind = j.kind, j2.path = j.path, j2.keeps = j.keeps, j2.free = j.free,
         (j2.kind = "import" /\ ~ j2.disturbed) => ~ j.disturbed,
         j2.clean, j2.at \notin {"lookup", "record"}
  PROVE  ImportsAlone([files EXCEPT ![j.path] = content], fr2, j2)
<1> DEFINE files2 == [files EXCEPT ![j.path] = content]
<1>1. SUFFICES ASSUME j.kind = "import", ~ j.disturbed, j.free
               PROVE  /\ \A k \in 1..Len(Walk) :
                           (Walk[k] # j.path /\ IsDoc(files2[Walk[k]])) =>
                             Id(files2, k) # IdOf[j.path]
                      /\ \A i \in CaseIds : j2.keeps[i] # None =>
                           i # IdOf[j.path] /\ \E k \in 1..Len(Walk) : KeptAt(files2, j2, i, k)
  BY DEF ImportsAlone
<1>2. \A k \in 1..Len(Walk) : Walk[k] # j.path => files2[Walk[k]] = files[Walk[k]]
  BY PathsHavePlaces DEF Files
<1> HIDE DEF files2
<1>3. \A k \in 1..Len(Walk) : Walk[k] # j.path =>
        Id(files2, k) = Id(files, k) /\ CaseAt(files2, k) = CaseAt(files, k)
  BY <1>2 DEF Id, CaseAt
<1>4. \A k \in 1..Len(Walk) :
        (Walk[k] # j.path /\ IsDoc(files2[Walk[k]])) => Id(files2, k) # IdOf[j.path]
  BY <1>1, <1>2, <1>3 DEF ImportsAlone
<1>5. ASSUME NEW i \in CaseIds, j2.keeps[i] # None
      PROVE  i # IdOf[j.path] /\ \E k \in 1..Len(Walk) : KeptAt(files2, j2, i, k)
  <2>1. i # IdOf[j.path] /\ \E k \in 1..Len(Walk) : KeptAt(files, j, i, k)
    BY <1>1, <1>5 DEF ImportsAlone
  <2>2. PICK k \in 1..Len(Walk) : KeptAt(files, j, i, k)
    BY <2>1
  <2>3. \A m \in 1..(k - 1) : m \in 1..Len(Walk)
    BY PathsHavePlaces
  <2>4. KeptAt(files2, j2, i, k)
    BY <1>2, <1>3, <2>2, <2>3 DEF KeptAt
  <2> QED
    BY <2>1, <2>4
<1> QED
  BY <1>4, <1>5

\* A file is truncated by a writer that has not walked.
LEMMA TruncateKeeps ==
  ASSUME LibraryInv, NEW p \in Procs, Truncate(p)
  PROVE  LibraryInv'
<1> DEFINE j == job[p]
           j2 == [j EXCEPT !.at = "fill"]
<1>1. j \in Work /\ j.at = "write" /\ Fits(disk, cases, fresh, j) /\ disk \in Files
  BY BusyAreAtWork DEF Truncate, LibraryInv, LibraryTypes
<1>2. /\ disk' = [disk EXCEPT ![j.path] = Torn]
      /\ Others(p, j.path, j2, FALSE) /\ UNCHANGED <<cases, broken, revs>>
  BY DEF Truncate
<1> HIDE DEF j
<1>3. /\ j2 \in Work /\ j2.at = "fill" /\ j2.kind = j.kind /\ j2.path = j.path /\ j2.keeps = j.keeps
      /\ j2.todo = j.todo /\ j2.found = j.found /\ j2.clean = j.clean
      /\ j2.disturbed = j.disturbed /\ j2.free = j.free
  BY <1>1 DEF Work
<1> HIDE DEF j2
<1>4. InPlace(j) /\ ImportsAlone(disk, fresh, j)
  BY <1>1, DocumentsHaveIds DEF Fits
<1>5. Unstarted(j2) /\ j2.kind \in {"save", "import", "seed"} /\ j2.clean
  BY <1>1, <1>3, <1>4 DEF InPlace, Unstarted
<1>6. ImportsAlone(disk', FALSE, j2)
  BY <1>1, <1>2, <1>3, <1>4, <1>5, StaysAlone
<1>7. Fits(disk', cases, FALSE, j2)
  BY <1>3, <1>5, <1>6 DEF Fits, InPlace, WalksRight, WriteStands, WriteKnown
<1>8. j.path \in Paths /\ Torn # Absent
  BY <1>1, DocumentsHaveIds DEF Work
<1> QED
  BY <1>2, <1>3, <1>7, <1>8, FileChanges

\* The document is written, and the writer's walk begins.
LEMMA FillKeeps ==
  ASSUME LibraryInv, NEW p \in Procs, Fill(p)
  PROVE  LibraryInv'
<1> DEFINE j == job[p]
           met == disk[j.path] # Torn
           d == met \/ (j.disturbed /\ j.kind = "import")
           j2 == [j EXCEPT !.at = "walk", !.disturbed = d, !.changed = {}]
<1>1. j \in Work /\ j.at = "fill" /\ Fits(disk, cases, fresh, j) /\ disk \in Files
  BY BusyAreAtWork DEF Fill, LibraryInv, LibraryTypes
<1>2. PICK content \in {j.doc} \union (IF met THEN {Torn} ELSE {}) :
        /\ disk' = [disk EXCEPT ![j.path] = content]
        /\ Others(p, j.path, j2, FALSE) /\ UNCHANGED <<cases, broken, revs>>
  BY DEF Fill
<1> HIDE DEF j
<1>13. /\ d \in BOOLEAN /\ (~ d => ~ met)
       /\ (~ d /\ j.kind = "import") => ~ j.disturbed
  BY <1>1 DEF Work
<1> HIDE DEF d
<1>3. /\ j2 \in Work /\ j2.at = "walk" /\ j2.kind = j.kind /\ j2.path = j.path /\ j2.keeps = j.keeps
      /\ j2.doc = j.doc /\ j2.todo = j.todo /\ j2.found = j.found /\ j2.clean = j.clean
      /\ j2.changed = {} /\ j2.free = j.free /\ j2.disturbed = d
  BY <1>1, <1>13 DEF Work
<1> HIDE DEF j2
<1>4. InPlace(j) /\ ImportsAlone(disk, fresh, j)
  BY <1>1, DocumentsHaveIds DEF Fits
<1>5. Unstarted(j2) /\ j2.clean
  BY <1>1, <1>3, <1>4 DEF InPlace, Unstarted
<1>6. (j2.kind = "import" /\ ~ j2.disturbed) => ~ j.disturbed
  BY <1>3, <1>13
<1>7. ImportsAlone(disk', FALSE, j2)
  BY <1>1, <1>2, <1>3, <1>4, <1>5, <1>6, StaysAlone
<1>8. /\ j.path \in Paths /\ content \in Documents \union {Absent, Torn} /\ content # Absent
      /\ ~ d => content = j.doc
  BY <1>1, <1>2, <1>13, DocumentsHaveIds DEF Work, IsDoc
<1>9. ~ d => disk'[j.path] = j.doc
  BY <1>1, <1>2, <1>8 DEF Files
<1>10. WalksRight(disk', j2) /\ (\A k \in 1..Seen(j2) : FALSE)
  BY <1>3, <1>5, UnstartedIsRight
<1>11. WriteStands(disk', j2)
  BY <1>3, <1>5, <1>9, <1>10 DEF WriteStands, Writes
<1>12. Fits(disk', cases, FALSE, j2)
  BY <1>3, <1>7, <1>10, <1>11 DEF Fits, InPlace, WriteKnown
<1> QED
  BY <1>2, <1>3, <1>8, <1>12, FileChanges

\* The file was removed: nothing is written, and the writer, disturbed, walks.
LEMMA FillRemovedKeeps ==
  ASSUME LibraryInv, NEW p \in Procs, FillRemoved(p)
  PROVE  LibraryInv'
<1> DEFINE j == job[p]
           j2 == [j EXCEPT !.at = "walk", !.disturbed = TRUE, !.changed = {}]
<1>1. j \in Work /\ j.at = "fill" /\ Fits(disk, cases, fresh, j)
  BY BusyAreAtWork DEF FillRemoved
<1>2. job' = [job EXCEPT ![p] = j2] /\ UNCHANGED <<disk, cases, broken, revs, fresh>>
  BY DEF FillRemoved, LibraryInv, LibraryTypes
<1> HIDE DEF j
<1>3. /\ j2 \in Work /\ j2.at = "walk" /\ j2.kind = j.kind
      /\ j2.todo = j.todo /\ j2.found = j.found /\ j2.clean = j.clean
      /\ j2.changed = {} /\ j2.disturbed = TRUE
  BY <1>1 DEF Work
<1> HIDE DEF j2
<1>4. InPlace(j)
  BY <1>1, DocumentsHaveIds DEF Fits
<1>5. Unstarted(j2)
  BY <1>1, <1>3, <1>4 DEF InPlace, Unstarted
<1>6. WalksRight(disk, j2)
  BY <1>3, <1>5, UnstartedIsRight
<1>7. Fits(disk, cases, fresh, j2)
  BY <1>3, <1>6 DEF Fits, InPlace, WriteStands, WriteKnown, ImportsAlone, Writes
<1> QED
  BY <1>2, <1>3, <1>7, OneMovesOn

\* A file is removed; whoever walks may be cut short.
LEMMA RemoveFileKeeps ==
  ASSUME LibraryInv, NEW p \in Procs, RemoveFile(p)
  PROVE  LibraryInv'
<1> DEFINE j == job[p]
           j2 == [j EXCEPT !.at = "walk"]
<1>1. j \in Work /\ j.at = "remove" /\ Fits(disk, cases, fresh, j)
  BY BusyAreAtWork DEF RemoveFile
<1>2. /\ disk' = [disk EXCEPT ![BuiltIn] = Absent]
      /\ Others(p, BuiltIn, j2, TRUE) /\ UNCHANGED <<cases, broken, revs>>
  BY DEF RemoveFile
<1> HIDE DEF j
<1>3. /\ j2 \in Work /\ j2.at = "walk" /\ j2.kind = j.kind
      /\ j2.todo = j.todo /\ j2.found = j.found /\ j2.clean = j.clean
      /\ j2.changed = j.changed
  BY <1>1 DEF Work
<1> HIDE DEF j2
<1>4. InPlace(j)
  BY <1>1, DocumentsHaveIds DEF Fits
<1>5. Unstarted(j2) /\ j2.changed = {} /\ j2.kind = "remove"
  BY <1>1, <1>3, <1>4 DEF InPlace, Unstarted
<1>6. Fits(disk', cases, FALSE, j2)
  BY <1>3, <1>5, WalksFit
<1>7. BuiltIn \in Paths
  BY LibraryAssumption
<1> QED
  BY <1>2, <1>3, <1>6, <1>7, FileChanges

\* The file is gone already, and the request ends.
LEMMA RemoveFailsKeeps ==
  ASSUME LibraryInv, NEW p \in Procs, RemoveFails(p)
  PROVE  LibraryInv'
<1>1. job' = [job EXCEPT ![p] = Idle] /\ UNCHANGED <<disk, cases, broken, revs, fresh>>
  BY DEF RemoveFails
<1>2. Fits(disk, cases, fresh, Idle)
  BY DEF Fits
<1> QED
  BY <1>1, <1>2, OneMovesOn

-----------------------------------------------------------------------------
\* What is installed is what the walk has found; everybody else is disturbed.
LEMMA InstallKeeps ==
  ASSUME LibraryInv, NEW p \in Procs, Install(p)
  PROVE  LibraryInv'
<1> DEFINE j == job[p]
           j2 == [j EXCEPT !.at = "lookup", !.found.cases = NoCases, !.clean = TRUE, !.changed = {}]
<1>1. j \in Work /\ j.at = "walk" /\ j.todo = <<>> /\ Fits(disk, cases, fresh, j)
  BY BusyAreAtWork DEF Install
<1>2. /\ cases' = j.found.cases /\ broken' = j.found.broken /\ fresh' = j.clean
      /\ UNCHANGED <<disk, revs>>
      /\ job' = [q \in Procs |->
           CASE q = p /\ j.kind \in {"list", "seed", "remove"} -> Idle
             [] q = p /\ j.kind \in {"save", "import"} -> j2
             [] q # p /\ Busy(q) -> [job[q] EXCEPT !.disturbed = TRUE]
             [] OTHER -> job[q]]
  BY DEF Install
<1> HIDE DEF j
<1>3. /\ j.found \in Found /\ j.clean \in BOOLEAN /\ j.found.cases \in Cases
      /\ j.found.broken \in SUBSET Paths
      /\ j.found = [cases |-> j.found.cases, broken |-> j.found.broken]
  BY <1>1 DEF Work, Found
<1>4. Seen(j) = Len(Walk)
  BY <1>1, WalkIsAt
<1>5. InPlace(j) /\ WalksRight(disk, j) /\ WriteStands(disk, j) /\ ImportsAlone(disk, fresh, j)
  BY <1>1, DocumentsHaveIds DEF Fits
<1>6. /\ OncePerPath(cases')
      /\ (fresh' => Loaded(disk', [cases |-> cases', broken |-> broken'], Len(Walk)))
  BY <1>1, <1>2, <1>3, <1>4, <1>5 DEF WalksRight
<1>7. /\ j2 \in Work /\ j2.at = "lookup" /\ j2.kind = j.kind /\ j2.path = j.path
      /\ j2.doc = j.doc /\ j2.found.broken = j.found.broken /\ j2.keeps = j.keeps
      /\ j2.disturbed = j.disturbed /\ j2.free = j.free
  BY <1>1, <1>3, NothingFound DEF Work, Found
<1> HIDE DEF j2
<1>8. ASSUME j.kind \in {"save", "import"} PROVE Fits(disk', cases', fresh', j2)
  <2>1. Writes(j2) => Writes(j)
    BY <1>7 DEF Writes
  <2>2. WriteKnown(cases', j2)
    <3>1. SUFFICES ASSUME Writes(j), j.path \notin j.found.broken
                   PROVE  cases'[IdIn(j.path, j.doc)] = [path |-> j.path, doc |-> j.doc]
      BY <1>7, <2>1 DEF WriteKnown
    <3>2. PICK k \in 1..Len(Walk) : Walk[k] = j.path
      BY <1>1, PathsHavePlaces DEF Work
    <3> QED
      BY <1>1, <1>2, <1>4, <1>5, <3>1, <3>2 DEF WriteStands
  <2>3. ImportsAlone(disk', fresh', j2)
    <3>1. SUFFICES ASSUME j.kind = "import", ~ j.disturbed, j.free
                   PROVE  /\ fresh' /\ disk'[j.path] = j.doc
                          /\ \A k \in 1..Len(Walk) :
                               (Walk[k] # j.path /\ IsDoc(disk[Walk[k]])) =>
                                 Id(disk, k) # IdOf[j.path]
                          /\ \A i \in CaseIds : j.keeps[i] # None =>
                               i # IdOf[j.path] /\ \E k \in 1..Len(Walk) : KeptAt(disk, j, i, k)
      BY <1>2, <1>7 DEF ImportsAlone, KeptAt
    <3>2. j.clean /\ fresh'
      BY <1>1, <1>2, <1>5, <3>1 DEF ImportsAlone
    <3>3. disk'[j.path] = j.doc
      BY <1>1, <1>2, <1>5, <3>1 DEF WriteStands, Writes
    <3> QED
      BY <1>5, <3>1, <3>2, <3>3 DEF ImportsAlone
  <2> QED
    BY <1>7, <1>8, <2>2, <2>3 DEF Fits, InPlace, WalksRight, WriteStands
<1>9. ASSUME NEW q \in Procs
      PROVE  job'[q] \in Work \union {Idle} /\ Fits(disk', cases', fresh', job'[q])
  <2>1. CASE q = p /\ j.kind \in {"list", "seed", "remove"}
    <3>1. job'[q] = Idle
      BY <1>2, <2>1
    <3> QED
      BY <3>1 DEF Fits
  <2>2. CASE q = p /\ j.kind \in {"save", "import"}
    <3>1. job'[q] = j2
      BY <1>2, <2>2
    <3> QED
      BY <1>7, <1>8, <2>2, <3>1
  <2>3. CASE q # p /\ ~ Busy(q)
    <3>1. job'[q] = job[q] /\ job[q] = Idle
      BY <1>2, <2>3, BusyAreAtWork
    <3> QED
      BY <3>1 DEF Fits
  <2>4. CASE q # p /\ Busy(q)
    <3> DEFINE k == job[q]
               k2 == [k EXCEPT !.disturbed = TRUE]
    <3>1. job'[q] = k2
      BY <1>2, <2>4
    <3>2. k \in Work /\ Fits(disk, cases, fresh, k)
      BY <2>4, BusyAreAtWork DEF Busy
    <3> HIDE DEF k
    <3>3. /\ k2 \in Work /\ k2.at = k.at /\ k2.kind = k.kind /\ k2.todo = k.todo
          /\ k2.found = k.found /\ k2.clean = k.clean /\ k2.changed = k.changed
          /\ k2.disturbed = TRUE
      BY <3>2 DEF Work
    <3> HIDE DEF k2
    <3>4. InPlace(k) /\ WalksRight(disk, k)
      BY <3>2, DocumentsHaveIds DEF Fits
    <3>5. InPlace(k2)
      BY <3>3, <3>4 DEF InPlace, Unstarted
    <3>6. WalksRight(disk', k2)
      <4>1. Seen(k2) = Seen(k)
        BY <3>3 DEF Seen
      <4> QED
        BY <4>1, <1>2, <3>3, <3>4 DEF WalksRight
    <3>7. WriteStands(disk', k2) /\ WriteKnown(cases', k2) /\ ImportsAlone(disk', fresh', k2)
      BY <3>3 DEF WriteStands, WriteKnown, ImportsAlone, Writes
    <3> QED
      BY <3>1, <3>3, <3>5, <3>6, <3>7 DEF Fits
  <2>5. j.kind \in {"list", "seed", "remove", "save", "import"}
    BY <1>1 DEF Work
  <2> QED
    BY <2>1, <2>2, <2>3, <2>4, <2>5
<1>10. job' \in [Procs -> Work \union {Idle}]
  <2>1. job' = [q \in Procs |-> job'[q]]
    BY <1>2
  <2> QED
    BY <1>9, <2>1
<1>11. /\ disk' \in Files /\ revs' \in [CaseIds -> Seq(Documents)]
       /\ \A i \in CaseIds : NoneRepeated(revs'[i])
  BY <1>2 DEF LibraryInv, LibraryTypes
<1> QED
  BY <1>2, <1>3, <1>6, <1>9, <1>10, <1>11 DEF LibraryInv, LibraryTypes

-----------------------------------------------------------------------------
\* The id looked up for an undisturbed write is its own.
LEMMA LookUpKeeps ==
  ASSUME LibraryInv, NEW p \in Procs, LookUp(p)
  PROVE  LibraryInv'
<1> DEFINE j == job[p]
           there == {i \in CaseIds : cases[i] # None /\ cases[i].path = j.path}
           chosen == IF there = {} THEN {j.doc.id} ELSE there
<1>1. j \in Work /\ j.at = "lookup" /\ Fits(disk, cases, fresh, j)
  BY BusyAreAtWork DEF LookUp
<1>2. UNCHANGED <<disk, cases, broken, revs, fresh>>
  BY DEF LookUp
<1>3. PICK i \in chosen : job' = [job EXCEPT ![p].at = "record", ![p].id = i]
  BY DEF LookUp
<1> DEFINE j2 == [j EXCEPT !.at = "record", !.id = i]
<1>4. job' = [job EXCEPT ![p] = j2]
  BY <1>3 DEF LibraryInv, LibraryTypes
<1>5. i \in CaseIds \union {NoId}
  <2>1. j.doc \in Documents
    BY <1>1 DEF Work
  <2>2. j.doc.id \in CaseIds \union {NoId}
    BY <2>1 DEF CaseIds
  <2> QED
    BY <2>2
<1> HIDE DEF j
<1>6. /\ j2 \in Work /\ j2.at = "record" /\ j2.id = i /\ j2.kind = j.kind /\ j2.path = j.path
      /\ j2.doc = j.doc /\ j2.found = j.found /\ j2.keeps = j.keeps
      /\ j2.disturbed = j.disturbed /\ j2.free = j.free
  BY <1>1, <1>5 DEF Work
<1> HIDE DEF j2
<1>7. InPlace(j) /\ WriteKnown(cases, j) /\ ImportsAlone(disk, fresh, j)
  BY <1>1, DocumentsHaveIds DEF Fits
<1>8. WriteKnown(cases, j2)
  <2>1. SUFFICES ASSUME Writes(j), j.path \notin j.found.broken
                 PROVE  i = IdIn(j.path, j.doc)
    BY <1>6 DEF WriteKnown, Writes
  <2>2. IdIn(j.path, j.doc) \in CaseIds /\ [path |-> j.path, doc |-> j.doc] # None
    BY <1>1, DocumentsHaveIds DEF Work, Case
  <2>3. cases[IdIn(j.path, j.doc)] = [path |-> j.path, doc |-> j.doc]
    BY <1>1, <1>7, <2>1 DEF WriteKnown
  <2>4. IdIn(j.path, j.doc) \in there
    BY <2>2, <2>3
  <2>5. i \in CaseIds /\ cases[i] # None /\ cases[i].path = j.path
    BY <1>3, <2>4
  <2> QED
    BY <2>2, <2>3, <2>5 DEF LibraryInv, OncePerPath
<1>9. ImportsAlone(disk, fresh, j2)
  BY <1>1, <1>6, <1>7 DEF ImportsAlone, KeptAt
<1>10. Fits(disk, cases, fresh, j2)
  BY <1>1, <1>6, <1>7, <1>8, <1>9 DEF Fits, InPlace, WalksRight, WriteStands
<1> QED
  BY <1>2, <1>4, <1>6, <1>10, OneMovesOn

\* A revision is put at the end, and is not the one before it.
LEMMA RecordingGrows ==
  ASSUME LibraryInv, NEW i \in CaseIds \union {NoId}, NEW d \in Documents,
         NEW r, r = RecordScenario(i, d)
  PROVE  /\ r \in [CaseIds -> Seq(Documents)]
         /\ \A k \in CaseIds : NoneRepeated(r[k]) /\ IsPrefix(revs[k], r[k])
         /\ i # NoId => Contains(r[i], d)
<1>1. revs \in [CaseIds -> Seq(Documents)] /\ \A k \in CaseIds : NoneRepeated(revs[k])
  BY DEF LibraryInv, LibraryTypes
<1>2. \A k \in CaseIds : IsPrefix(revs[k], revs[k])
  BY <1>1 DEF IsPrefix
<1>3. CASE i = NoId
  BY <1>1, <1>2, <1>3 DEF RecordScenario
<1>4. CASE i # NoId /\ revs[i] # <<>> /\ Last(revs[i]) = d
  <2>1. r = revs /\ revs[i] \in Seq(Documents)
    BY <1>1, <1>4 DEF RecordScenario
  <2>2. Len(revs[i]) \in 1..Len(revs[i]) /\ revs[i][Len(revs[i])] = d
    BY <2>1, <1>4 DEF Last
  <2> QED
    BY <1>1, <1>2, <2>1, <2>2 DEF Contains
<1>5. CASE i # NoId /\ ~ (revs[i] # <<>> /\ Last(revs[i]) = d)
  <2> DEFINE s == revs[i]
             t == Append(s, d)
  <2>1. r = [revs EXCEPT ![i] = t] /\ s \in Seq(Documents) /\ NoneRepeated(s) /\ i \in CaseIds
    BY <1>1, <1>5 DEF RecordScenario
  <2>2. s # <<>> => s[Len(s)] # d
    BY <1>5 DEF Last
  <2> HIDE DEF s
  <2>3. /\ t \in Seq(Documents) /\ Len(t) = Len(s) + 1 /\ t[Len(s) + 1] = d
        /\ \A n \in 1..Len(s) : t[n] = s[n]
    BY <2>1
  <2> HIDE DEF t
  <2>4. ASSUME NEW n \in 2..Len(t) PROVE t[n] # t[n - 1]
    <3>1. CASE n \in 2..Len(s)
      <4>1. n \in 1..Len(s) /\ n - 1 \in 1..Len(s)
        BY <2>1, <3>1
      <4> QED
        BY <2>1, <2>3, <3>1, <4>1 DEF NoneRepeated
    <3>2. CASE n = Len(s) + 1
      <4>1. s # <<>> /\ n - 1 = Len(s) /\ Len(s) \in 1..Len(s)
        BY <2>1, <2>4, <3>2
      <4> QED
        BY <2>2, <2>3, <3>2, <4>1
    <3> QED
      BY <2>1, <2>3, <3>1, <3>2
  <2>5. IsPrefix(s, t)
    <3>1. SubSeq(s, 1, Len(s)) = s
      BY <2>1
    <3>2. SubSeq(t, 1, Len(s)) = s
      <4>1. SubSeq(t, 1, Len(s)) \in Seq(Documents) /\ Len(SubSeq(t, 1, Len(s))) = Len(s)
        BY <2>1, <2>3
      <4>2. \A n \in 1..Len(s) : SubSeq(t, 1, Len(s))[n] = s[n]
        BY <2>1, <2>3
      <4> QED
        BY <2>1, <4>1, <4>2, SeqEqual
    <3>3. Len(s) <= Len(t)
      BY <2>1, <2>3
    <3> QED
      BY <3>1, <3>2, <3>3 DEF IsPrefix
  <2>6. Contains(t, d)
    <3>1. Len(s) + 1 \in 1..Len(t)
      BY <2>1, <2>3
    <3> QED
      BY <2>3, <3>1 DEF Contains
  <2>7. r[i] = t /\ \A k \in CaseIds : k # i => r[k] = revs[k]
    BY <1>1, <2>1
  <2>8. r \in [CaseIds -> Seq(Documents)]
    BY <1>1, <2>1, <2>3
  <2>9. NoneRepeated(t)
    BY <2>4 DEF NoneRepeated
  <2> QED
    BY <1>1, <1>2, <2>5, <2>6, <2>7, <2>8, <2>9 DEF s
<1> QED
  BY <1>3, <1>4, <1>5

\* The revision is recorded and the request ends.
LEMMA RecordKeeps ==
  ASSUME LibraryInv, NEW p \in Procs, Record(p)
  PROVE  /\ LibraryInv'
         /\ revs' = RecordScenario(job[p].id, job[p].doc)
         /\ job[p].id \in CaseIds \union {NoId} /\ job[p].doc \in Documents
<1>1. job[p] \in Work
  BY BusyAreAtWork DEF Record
<1>2. job[p].id \in CaseIds \union {NoId} /\ job[p].doc \in Documents
  BY <1>1 DEF Work
<1>3. revs' = RecordScenario(job[p].id, job[p].doc)
  BY DEF Record
<1>4. revs' \in [CaseIds -> Seq(Documents)] /\ \A i \in CaseIds : NoneRepeated(revs'[i])
  BY <1>2, <1>3, RecordingGrows
<1>5. job' = [job EXCEPT ![p] = Idle] /\ UNCHANGED <<disk, cases, broken, fresh>>
  BY DEF Record
<1>6. Fits(disk, cases, fresh, Idle)
  BY DEF Fits
<1>7. LibraryInv'
  BY <1>4, <1>5, <1>6, OneMoves
<1> QED
  BY <1>2, <1>3, <1>7

-----------------------------------------------------------------------------
\* Every step keeps the invariant.
LEMMA LibraryKeeps == LibraryInv /\ [LibraryNext]_libraryVars => LibraryInv'
<1>1. ASSUME LibraryInv, UNCHANGED libraryVars PROVE LibraryInv'
  BY <1>1 DEF libraryVars, LibraryInv, LibraryTypes
<1>2. ASSUME LibraryInv, NEW p \in Procs,
             \/ List(p) \/ SaveScenario(p) \/ Update(p) \/ RestoreRevision(p) \/ Import(p)
             \/ Seed(p) \/ RemoveBuiltIns(p)
      PROVE  LibraryInv'
  BY <1>2, BeginsList, BeginsSave, BeginsUpdate, BeginsRestore, BeginsImport, BeginsSeed,
     BeginsRemove
<1>3. ASSUME LibraryInv, NEW p \in Procs,
             \/ Truncate(p) \/ Fill(p) \/ FillRemoved(p) \/ RemoveFile(p) \/ RemoveFails(p)
             \/ WalkFile(p) \/ WalkStops(p) \/ Install(p) \/ LookUp(p) \/ Record(p)
      PROVE  LibraryInv'
  BY <1>3, TruncateKeeps, FillKeeps, FillRemovedKeeps, RemoveFileKeeps, RemoveFailsKeeps, WalkFileKeeps, WalkStopsKeeps,
     InstallKeeps, LookUpKeeps, RecordKeeps
<1> QED
  BY <1>1, <1>2, <1>3 DEF LibraryNext, Rest

(***************************************************************************)
(* What the files, the library installed, its revisions and the requests   *)
(* under way have to do with each other.                                   *)
(***************************************************************************)
THEOREM LibraryInvariant == LibrarySpec => []LibraryInv
BY LibraryStarts, LibraryKeeps, PTL DEF LibrarySpec

\* A walk during which, and since which, no file changed has loaded every file
\* (Library.Load), whatever was written, removed or walked beside it before.
THEOREM FreshLoadIsRight == LibrarySpec => []LoadedRight
<1>1. LibraryInv => LoadedRight
  <2> SUFFICES ASSUME LibraryInv, fresh
               PROVE  cases = Catalogue(disk) /\ broken = Unloadable(disk)
    BY DEF LoadedRight
  <2> DEFINE found == [cases |-> cases, broken |-> broken]
  <2>1. found \in Found /\ disk \in Files /\ Loaded(disk, found, Len(Walk))
    BY DEF LibraryInv, LibraryTypes, Found
  <2>2. found.cases = cases /\ found.broken = broken
    OBVIOUS
  <2> HIDE DEF found
  <2> QED
    BY <2>1, <2>2, LoadedIsTheCatalogue
<1> QED
  BY <1>1, LibraryInvariant, PTL

-----------------------------------------------------------------------------
\* Whoever ends as a writer ends by recording.
LEMMA WritersEndByRecording ==
  ASSUME LibraryInv, [LibraryNext]_libraryVars, NEW p \in Procs, Ends(p),
         job[p].kind \in {"save", "import"}
  PROVE  Record(p) /\ job[p] \in Work /\ Fits(disk, cases, fresh, job[p])
<1>1. job[p] \in Work /\ Fits(disk, cases, fresh, job[p]) /\ job'[p] = Idle
  BY BusyAreAtWork DEF Ends, LibraryInv
<1>2. job'[p] # job[p] /\ job'[p].at = "idle" /\ job[p].at # "idle"
  BY <1>1, DocumentsHaveIds DEF Idle, Work
<1>3. job \in [Procs -> Work \union {Idle}]
  BY DEF LibraryInv, LibraryTypes
<1>4. PICK q \in Procs :
        \/ List(q) \/ SaveScenario(q) \/ Update(q) \/ RestoreRevision(q) \/ Import(q)
        \/ Seed(q) \/ RemoveBuiltIns(q)
        \/ Truncate(q) \/ Fill(q) \/ FillRemoved(q) \/ RemoveFile(q) \/ RemoveFails(q)
        \/ WalkFile(q) \/ WalkStops(q) \/ Install(q) \/ LookUp(q) \/ Record(q)
  BY <1>2 DEF LibraryNext, Rest, libraryVars
<1>5. CASE Truncate(q) \/ Fill(q) \/ RemoveFile(q)
  <2>1. q # p => job'[p].at = job[p].at
    <3>1. SUFFICES ASSUME q # p PROVE job'[p].at = job[p].at
      OBVIOUS
    <3>2. \E path, mine, removed : Others(q, path, mine, removed)
      BY <1>5 DEF Truncate, Fill, RemoveFile
    <3>3. PICK path, mine, removed : Others(q, path, mine, removed)
      BY <3>2
    <3>4. job'[p] = IF ~ Busy(p) THEN job[p]
                    ELSE [job[p] EXCEPT !.clean = @ /\ job[p].at # "walk",
                                        !.changed = IF job[p].at \in {"walk", "fill"}
                                                         /\ (removed \/ ~ Exists(path))
                                                    THEN @ \union {path} ELSE @,
                                        !.disturbed = @ \/ job[p].path = path \/ removed
                                                           \/ job[p].kind = "import"]
      BY <3>1, <3>3 DEF Others
    <3> QED
      BY <1>1, <3>4 DEF Work
  <2>2. q = p => job'[p].at \in {"fill", "walk"}
    <3>1. CASE q = p /\ Truncate(q)
      <4>1. job'[p] = [job[p] EXCEPT !.at = "fill"]
        BY <3>1 DEF Truncate, Others
      <4> QED
        BY <1>1, <4>1 DEF Work
    <3>2. CASE q = p /\ Fill(q)
      <4>1. \E d : job'[p] = [job[p] EXCEPT !.at = "walk", !.disturbed = d, !.changed = {}]
        BY <3>2 DEF Fill, Others
      <4> QED
        BY <1>1, <4>1 DEF Work
    <3>3. CASE q = p /\ RemoveFile(q)
      <4>1. job'[p] = [job[p] EXCEPT !.at = "walk"]
        BY <3>3 DEF RemoveFile, Others
      <4> QED
        BY <1>1, <4>1 DEF Work
    <3> QED
      BY <1>5, <3>1, <3>2, <3>3
  <2> QED
    BY <2>1, <2>2, <1>2
<1>6. CASE Install(q)
  <2>1. q # p => job'[p].at = job[p].at
    BY <1>1, <1>6 DEF Install, Work, Busy
  <2>2. q = p => job'[p].at = "lookup"
    <3>1. SUFFICES ASSUME q = p PROVE job'[p].at = "lookup"
      OBVIOUS
    <3>2. job'[p] = [job[p] EXCEPT !.at = "lookup", !.found.cases = NoCases,
                                   !.clean = TRUE, !.changed = {}]
      BY <1>6, <3>1 DEF Install
    <3> QED
      BY <1>1, <3>2 DEF Work
  <2> QED
    BY <2>1, <2>2, <1>2
<1>7. CASE WalkFile(q) \/ WalkStops(q)
  <2>1. job'[p].at = job[p].at
    BY <1>1, <1>3, <1>7 DEF WalkFile, WalkStops, Work
  <2> QED
    BY <2>1, <1>2
<1>8. CASE LookUp(q)
  <2>1. job'[p].at \in {job[p].at, "record"}
    BY <1>1, <1>3, <1>8 DEF LookUp, Work
  <2> QED
    BY <2>1, <1>2
<1>9. CASE Record(q)
  <2>1. q = p
    BY <1>2, <1>3, <1>9 DEF Record
  <2> QED
    BY <2>1, <1>1, <1>9
<1>10. CASE \/ List(q) \/ SaveScenario(q) \/ Update(q) \/ RestoreRevision(q) \/ Import(q)
            \/ Seed(q) \/ RemoveBuiltIns(q)
  <2>1. ~ Busy(q)
    BY <1>10 DEF List, SaveScenario, Update, RestoreRevision, Import, Seed, RemoveBuiltIns, Begins
  <2>2. q # p
    BY <2>1, <1>2 DEF Busy
  <2>3. job'[p] = job[p]
    BY <1>3, <1>10, <2>2
       DEF List, SaveScenario, Update, RestoreRevision, Import, Seed, RemoveBuiltIns
  <2> QED
    BY <2>3, <1>2
<1>11. CASE FillRemoved(q)
  <2>1. job'[p].at \in {job[p].at, "walk"}
    BY <1>1, <1>3, <1>11 DEF FillRemoved, Work
  <2> QED
    BY <2>1, <1>2
<1>12. CASE RemoveFails(q)
  <2>1. job[q].at = "remove" /\ job[q] \in Work /\ Fits(disk, cases, fresh, job[q])
    BY <1>12, BusyAreAtWork DEF RemoveFails
  <2>2. job[q].kind = "remove"
    BY <2>1, DocumentsHaveIds DEF Fits, InPlace
  <2>3. job'[p] = job[p]
    BY <1>3, <1>12, <2>2 DEF RemoveFails
  <2> QED
    BY <2>3, <1>2
<1> QED
  BY <1>4, <1>5, <1>6, <1>7, <1>8, <1>9, <1>10, <1>11, <1>12

\* An undisturbed write is kept under its file's id (SaveNote, RecordScenario).
LEMMA WritesAreRecorded ==
  ASSUME LibraryInv, [LibraryNext]_libraryVars, NEW p \in Procs, Ends(p),
         job[p].kind \in {"save", "import"}, ~ job[p].disturbed,
         job[p].path \notin job[p].found.broken,
         IdIn(job[p].path, job[p].doc) # NoId
  PROVE  Contains(revs'[IdIn(job[p].path, job[p].doc)], job[p].doc)
<1> DEFINE j == job[p]
<1>1. Record(p) /\ j \in Work /\ Fits(disk, cases, fresh, j)
  BY WritersEndByRecording
<1>2. j.at = "record"
  BY <1>1 DEF Record
<1>3. WriteKnown(cases, j)
  BY <1>1, DocumentsHaveIds DEF Fits
<1>4. j.id = IdIn(j.path, j.doc)
  BY <1>2, <1>3 DEF WriteKnown, Writes
<1>5. j.path \in Paths /\ j.doc \in Documents /\ j.id \in CaseIds
  BY <1>1, <1>4, DocumentsHaveIds DEF Work
<1>6. revs' = RecordScenario(j.id, j.doc)
  BY <1>1, RecordKeeps
<1>7. j.id # NoId
  BY <1>4
<1> HIDE DEF j
<1>8. Contains(revs'[j.id], j.doc)
  BY <1>5, <1>6, <1>7, RecordingGrows
<1> QED
  BY <1>4, <1>8 DEF j

\* Revisions are only ever added.
LEMMA RevisionsAreAdded ==
  ASSUME LibraryInv, [LibraryNext]_libraryVars, NEW i \in CaseIds
  PROVE  IsPrefix(revs[i], revs'[i])
<1>1. CASE revs' = revs
  BY <1>1 DEF IsPrefix
<1>2. CASE \E p \in Procs : Record(p)
  <2>1. PICK p \in Procs : Record(p)
    BY <1>2
  <2> QED
    BY <2>1, RecordKeeps, RecordingGrows
<1>3. revs' = revs \/ \E p \in Procs : Record(p)
  BY DEF LibraryNext, Rest, libraryVars, List, SaveScenario, Update, RestoreRevision, Import,
         Seed, RemoveBuiltIns, Begins, Truncate, Fill, FillRemoved, RemoveFile, RemoveFails,
         WalkFile, WalkStops, Install, LookUp
<1> QED
  BY <1>1, <1>2, <1>3

\* What a write leaves among the revisions is there and stays there: recorded
\* under its file's id when that is not empty and nobody disturbed it, and never
\* taken away, replaced or repeated (SaveNote, API.UseVersions, RecordScenario).
THEOREM RevisionsAreKept == LibrarySpec => RevisionsKept
<1>1. ASSUME LibraryInv, LibraryInv', [LibraryNext]_libraryVars
      PROVE  \A p \in Procs :
               (Ends(p) /\ job[p].kind \in {"save", "import"} /\ ~ job[p].disturbed
                  /\ job[p].path \notin job[p].found.broken
                  /\ IdIn(job[p].path, job[p].doc) # NoId) =>
                 Contains(revs'[IdIn(job[p].path, job[p].doc)], job[p].doc)
  BY <1>1, WritesAreRecorded
<1>2. ASSUME LibraryInv, LibraryInv', [LibraryNext]_libraryVars
      PROVE  \A i \in CaseIds :
               /\ IsPrefix(revs[i], revs'[i])
               /\ \A n \in 2..Len(revs'[i]) : revs'[i][n] # revs'[i][n - 1]
  <2>1. \A i \in CaseIds : NoneRepeated(revs'[i])
    BY <1>2 DEF LibraryInv, LibraryTypes
  <2> QED
    BY <1>2, <2>1, RevisionsAreAdded DEF NoneRepeated
<1>3. LibrarySpec => WriteRecorded
  BY <1>1, LibraryInvariant, PTL DEF LibrarySpec, WriteRecorded
<1>4. LibrarySpec => HistoryGrows
  BY <1>2, LibraryInvariant, PTL DEF LibrarySpec, HistoryGrows
<1> QED
  BY <1>3, <1>4 DEF RevisionsKept

-----------------------------------------------------------------------------
\* An import that was alone finds its document loaded under the id of its path,
\* and everything that was there before in its place.
LEMMA AloneAddsOne ==
  ASSUME LibraryInv, [LibraryNext]_libraryVars, NEW p \in Procs, Ends(p),
         job[p].kind = "import", ~ job[p].disturbed, job[p].free, job[p].doc.id = NoId
  PROVE  /\ cases[IdOf[job[p].path]] = [path |-> job[p].path, doc |-> job[p].doc]
         /\ \A i \in CaseIds : job[p].keeps[i] # None => cases[i] = job[p].keeps[i]
<1> DEFINE j == job[p]
           id == IdOf[j.path]
<1>1. Record(p) /\ j \in Work /\ Fits(disk, cases, fresh, j)
  BY WritersEndByRecording
<1>2. j.at = "record"
  BY <1>1 DEF Record
<1>3. ImportsAlone(disk, fresh, j)
  BY <1>1, DocumentsHaveIds DEF Fits
<1>4. j.kind = "import" /\ ~ j.disturbed /\ j.free /\ j.doc.id = NoId
  OBVIOUS
<1>5. disk \in Files
  BY DEF LibraryInv, LibraryTypes
<1> HIDE DEF j
<1>6. /\ fresh /\ disk[j.path] = j.doc
      /\ \A k \in 1..Len(Walk) :
           (Walk[k] # j.path /\ IsDoc(disk[Walk[k]])) => Id(disk, k) # id
      /\ \A i \in CaseIds : j.keeps[i] # None =>
           i # id /\ \E k \in 1..Len(Walk) : KeptAt(disk, j, i, k)
  BY <1>2, <1>3, <1>4 DEF ImportsAlone
<1>7. cases = Catalogue(disk)
  <2> DEFINE found == [cases |-> cases, broken |-> broken]
  <2>1. found \in Found /\ Loaded(disk, found, Len(Walk)) /\ found.cases = cases
    BY <1>6 DEF LibraryInv, LibraryTypes, Found
  <2> HIDE DEF found
  <2> QED
    BY <1>5, <2>1, LoadedIsTheCatalogue
<1>8. j.path \in Paths /\ j.doc \in Documents /\ IsDoc(j.doc)
  BY <1>1, DocumentsHaveIds DEF Work
<1>9. PICK n \in 1..Len(Walk) : Walk[n] = j.path
  BY <1>8, PathsHavePlaces
<1>10. Id(disk, n) = id /\ CaseAt(disk, n) = [path |-> j.path, doc |-> j.doc]
  BY <1>4, <1>6, <1>9 DEF Id, IdIn, CaseAt
<1>11. \A k \in 1..(n - 1) : k \in 1..Len(Walk) /\ Walk[k] # j.path
  BY <1>9, PathsHavePlaces
<1>12. Loadable(disk, Walk[n])
  BY <1>6, <1>8, <1>9, <1>10, <1>11, FirstAt DEF Loadable
<1>13. cases[id] = [path |-> j.path, doc |-> j.doc]
  BY <1>5, <1>7, <1>10, <1>12, CatalogueEntries
<1>14. ASSUME NEW i \in CaseIds, j.keeps[i] # None PROVE cases[i] = j.keeps[i]
  <2>1. i # id
    BY <1>6, <1>14
  <2>2. PICK k \in 1..Len(Walk) : KeptAt(disk, j, i, k)
    BY <1>6, <1>14
  <2>3. /\ j.keeps[i] = CaseAt(disk, k) /\ IsDoc(disk[Walk[k]]) /\ i = Id(disk, k)
        /\ \A m \in 1..(k - 1) :
             (Walk[m] # j.path /\ IsDoc(disk[Walk[m]])) => Id(disk, m) # i
    BY <2>2 DEF KeptAt
  <2>4. \A m \in 1..(k - 1) : m \in 1..Len(Walk)
    BY PathsHavePlaces
  <2>5. \A m \in 1..(k - 1) : Walk[m] = j.path => Id(disk, m) = id
    BY <1>9, <1>10, <2>4, PathsHavePlaces
  <2>6. First(disk, Walk[k])
    BY <2>1, <2>3, <2>5, FirstAt
  <2>7. Loadable(disk, Walk[k])
    BY <2>3, <2>6 DEF Loadable
  <2> QED
    BY <1>5, <1>7, <2>3, <2>7, CatalogueEntries
<1> QED
  BY <1>13, <1>14 DEF j

\* Importing a document that states no id, alone and to a path that freePath found
\* free, adds it to the library and takes nothing away (handleImportScenario,
\* freePath, Library.SaveNote).  When the suggested path and all its copies are
\* taken, freePath gives the suggested path, and this says nothing.
THEOREM ImportsAreAdded == LibrarySpec => ImportAddsOne
<1>1. ASSUME LibraryInv, [LibraryNext]_libraryVars
      PROVE  \A p \in Procs :
               (Ends(p) /\ job[p].kind = "import" /\ ~ job[p].disturbed
                  /\ job[p].free /\ job[p].doc.id = NoId) =>
                 /\ cases[IdOf[job[p].path]] = [path |-> job[p].path, doc |-> job[p].doc]
                 /\ \A i \in CaseIds : job[p].keeps[i] # None => cases[i] = job[p].keeps[i]
  BY <1>1, AloneAddsOne
<1> QED
  BY <1>1, LibraryInvariant, PTL DEF LibrarySpec, ImportAddsOne
=============================================================================
