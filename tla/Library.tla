------------------------------ MODULE Library ------------------------------
(***************************************************************************)
(* The scenario library (internal/casedef), its revision history           *)
(* (internal/store/scenarios.go) and the operations that write to them:    *)
(* saving from the editor, updating and restoring through agentapi,        *)
(* importing, and seeding and removing the scenarios that ship with the    *)
(* program.                                                                *)
(*                                                                         *)
(* The files are the truth.  Load walks them without a lock and installs   *)
(* what it found under one, and every page calls it; nothing keeps two     *)
(* writers, or a writer and a walk, apart.  A transaction of the store is  *)
(* one step: the database file is locked for as long as it lasts.          *)
(*                                                                         *)
(* A document is its text and the id it may state for itself.  All the     *)
(* documents offered here parse: one that does not is refused before       *)
(* anything changes.                                                       *)
(***************************************************************************)
EXTENDS Naturals, FiniteSets, Sequences, SequencesExt

CONSTANTS
  Procs,      \* requests under way at a time
  Walk,       \* the files' paths, in the order WalkDir visits them
  IdOf,       \* IdOf[path]: the id derived from a file's base name
  Suggested,  \* the path suggestPath gives the documents
  Copies,     \* the same with a number behind it, in the order they are tried
  Docs,       \* the documents: records of a text and an id
  NoId,       \* the empty id: of a document that states none, and of a path
              \* without a letter or a digit in its base name
  BuiltIn,    \* the path of a scenario that ships with the program
  Shipped,    \* and its document
  Begun,      \* the files there may be when the program starts
  MaxOps      \* bound: operations

\* What stands for no file, for one truncated and not written yet, and for no
\* case under an id.
Absent == [text |-> "noFile", id |-> NoId]
Torn == [text |-> "torn", id |-> NoId]
None == [path |-> "noPath", doc |-> Absent]
IsDoc(c) == c \notin {Absent, Torn}

Paths == Range(Walk)
Documents == (Docs \union UNION {Range(files) : files \in Begun}) \ {Absent}
CaseIds == Range(IdOf) \union ({d.id : d \in Documents} \ {NoId})

ASSUME LibraryAssumption ==
  /\ Walk \in Seq(Paths) /\ IsInjective(Walk)
  /\ DOMAIN IdOf = Paths /\ Copies \in Seq(Paths)
  /\ {Suggested, BuiltIn} \subseteq Paths /\ Shipped \in Docs
  /\ \A d \in Docs : IsDoc(d)
  /\ \A files \in Begun : files \in [Paths -> Range(files)] /\ Torn \notin Range(files)
  /\ MaxOps \in Nat

VARIABLES
  disk,           \* disk[path]: the file's content
  cases, broken,  \* what was installed last
  revs,           \* revs[id]: the revisions kept, oldest first
  job,            \* job[p]: what p is doing
  ops,            \* operations begun
  fresh           \* no file has changed since the walk installed last began

libraryVars == <<disk, cases, broken, revs, job, ops, fresh>>

Idle == [at |-> "idle"]
Busy(p) == job[p].at # "idle"

NoCases == [i \in CaseIds |-> None]

\* The id of a file: the one its document states, or the one of its name.
IdIn(path, doc) == IF doc.id = NoId THEN IdOf[path] ELSE doc.id

-----------------------------------------------------------------------------
(***************************************************************************)
(* Loading.                                                                *)
(***************************************************************************)

\* A fault to seed: of two files with one id, the later wins.
ReadFileLater(found, path, content) ==
  CASE content = Absent -> found
    [] content = Torn -> [found EXCEPT !.broken = @ \union {path}]
    [] OTHER -> [found EXCEPT !.cases[IdIn(path, content)] = [path |-> path, doc |-> content]]

\* What Load makes of one file.  The first file with an id has it, a later one
\* is broken, and so is one that does not parse.
ReadFile(found, path, content) ==
  CASE content = Absent -> found
    [] content = Torn -> [found EXCEPT !.broken = @ \union {path}]
    [] IsDoc(content) /\ found.cases[IdIn(path, content)] # None ->
         [found EXCEPT !.broken = @ \union {path}]
    [] OTHER -> [found EXCEPT !.cases[IdIn(path, content)] = [path |-> path, doc |-> content]]

\* A walk about to begin, for the sake of `kind'.
Walking(kind, path, doc) ==
  [at |-> "walk", kind |-> kind, path |-> path, doc |-> doc, todo |-> Walk,
   found |-> [cases |-> NoCases, broken |-> {}], clean |-> TRUE, changed |-> {},
   disturbed |-> FALSE, free |-> FALSE, keeps |-> NoCases, id |-> NoId]

Writing(kind, path, doc, keeps) ==
  [Walking(kind, path, doc) EXCEPT !.at = "write", !.keeps = keeps]

Exists(path) == disk[path] # Absent

\* What a change of a file does to the others' walks and to what was loaded.  A
\* walk, and whoever has the file open, keeps what was removed or is new.
Others(p, path, mine, removed) ==
  /\ fresh' = FALSE
  /\ job' = [q \in Procs |->
       IF q = p THEN mine
       ELSE IF ~ Busy(q) THEN job[q]
       ELSE [job[q] EXCEPT !.clean = @ /\ job[q].at # "walk",
                           !.changed = IF job[q].at \in {"walk", "fill"}
                                            /\ (removed \/ ~ Exists(path))
                                       THEN @ \union {path} ELSE @,
                           !.disturbed = @ \/ job[q].path = path \/ removed
                                              \/ job[q].kind = "import"]]

\* What a walk meets at a path.  A directory is listed before its files are read:
\* one that is new is passed over when the list is older, and one that is gone is
\* an error like that of a file that does not parse when the list still has it.
Meets(p, path) ==
  {disk[path]} \union (IF path \notin job[p].changed THEN {}
                       ELSE IF Exists(path) THEN {Absent} ELSE {Torn})

WalkFile(p) ==
  /\ job[p].at = "walk" /\ job[p].todo # <<>>
  /\ LET path == Head(job[p].todo)
     IN \E content \in Meets(p, path) :
          job' = [job EXCEPT ![p].todo = Tail(@),
                             ![p].found = ReadFile(@, path, content)]
  /\ UNCHANGED <<disk, cases, broken, revs, ops, fresh>>

\* A directory that was removed meanwhile ends the walk, and what was found until
\* then is installed: not-exist errors are let through for the sake of a root
\* that is not there.
WalkStops(p) ==
  /\ job[p].at = "walk" /\ job[p].todo # <<>>
  /\ \E path \in job[p].changed : ~ Exists(path)
  /\ job' = [job EXCEPT ![p].todo = <<>>, ![p].clean = FALSE]
  /\ UNCHANGED <<disk, cases, broken, revs, ops, fresh>>

Install(p) ==
  /\ job[p].at = "walk" /\ job[p].todo = <<>>
  /\ cases' = job[p].found.cases /\ broken' = job[p].found.broken
  /\ fresh' = job[p].clean
  /\ job' = [q \in Procs |->
       CASE q = p /\ job[p].kind \in {"list", "seed", "remove"} -> Idle
         [] q = p /\ job[p].kind \in {"save", "import"} ->
              [job[p] EXCEPT !.at = "lookup", !.found.cases = NoCases,
                             !.clean = TRUE, !.changed = {}]
         [] q # p /\ Busy(q) -> [job[q] EXCEPT !.disturbed = TRUE]
         [] OTHER -> job[q]]
  /\ UNCHANGED <<disk, revs, ops>>

-----------------------------------------------------------------------------
(***************************************************************************)
(* Operations.                                                             *)
(***************************************************************************)

Begins(p) ==
  /\ ~ Busy(p) /\ ops < MaxOps
  /\ ops' = ops + 1
  /\ UNCHANGED <<disk, cases, broken, revs, fresh>>

\* Any page, and list_scenarios.
List(p) ==
  /\ Begins(p)
  /\ job' = [job EXCEPT ![p] = Walking("list", Suggested, Shipped)]

\* The editor saves to a path; create_scenario writes over what is there too.
SaveScenario(p) ==
  /\ Begins(p)
  /\ \E path \in Paths, d \in Docs :
       job' = [job EXCEPT ![p] = Writing("save", path, d, NoCases)]

\* update_scenario goes by the id, to the path that was loaded for it.
Update(p) ==
  /\ Begins(p)
  /\ \E i \in CaseIds, d \in Docs :
       /\ cases[i] # None
       /\ job' = [job EXCEPT ![p] = Writing("save", cases[i].path, d, NoCases)]

\* restore_scenario_version writes a revision that is not what was loaded.
RestoreRevision(p) ==
  /\ Begins(p)
  /\ \E i \in CaseIds :
       /\ cases[i] # None
       /\ \E d \in Range(revs[i]) \ {cases[i].doc} :
            job' = [job EXCEPT ![p] = Writing("save", cases[i].path, d, NoCases)]

\* A fault to seed: only the file is looked for.
FreeFile(path) == ~ Exists(path)

\* A path that is not taken, nor its id by another file.
Free(path) == ~ Exists(path) /\ cases[IdOf[path]] = None

\* freePath: the suggested path; when it is taken the first copy that is free;
\* and when all of them are taken the suggested path after all.  An empty id is
\* not looked up.
FreePath ==
  IF Free(Suggested) \/ (~ Exists(Suggested) /\ IdOf[Suggested] = NoId) THEN {Suggested}
  ELSE LET free == {k \in DOMAIN Copies : Free(Copies[k])}
       IN IF free = {} THEN {Suggested}
          ELSE {Copies[k] : k \in {n \in free : \A m \in free : n <= m}}

Import(p) ==
  /\ Begins(p)
  /\ \E d \in Docs, path \in FreePath :
       LET alone == fresh /\ \A q \in Procs : ~ Busy(q)
       IN job' = [job EXCEPT ![p] =
                    [Writing("import", path, d, IF alone THEN cases ELSE NoCases)
                       EXCEPT !.disturbed = ~ alone, !.free = Free(path)]]

\* Seeding skips the files that are there.
Seed(p) ==
  /\ Begins(p)
  /\ job' = [job EXCEPT ![p] =
               IF Exists(BuiltIn) THEN Walking("seed", BuiltIn, Shipped)
               ELSE Writing("seed", BuiltIn, Shipped, NoCases)]

\* Removing compares the file with what ships first.
RemoveBuiltIns(p) ==
  /\ Begins(p)
  /\ job' = [job EXCEPT ![p] =
               [Walking("remove", BuiltIn, Shipped) EXCEPT
                  !.at = IF disk[BuiltIn] = Shipped THEN "remove" ELSE "walk"]]

RemoveFile(p) ==
  /\ job[p].at = "remove" /\ Exists(BuiltIn)
  /\ disk' = [disk EXCEPT ![BuiltIn] = Absent]
  /\ Others(p, BuiltIn, [job[p] EXCEPT !.at = "walk"], TRUE)
  /\ UNCHANGED <<cases, broken, revs, ops>>

\* It is gone already: the error is reported and nothing is loaded.
RemoveFails(p) ==
  /\ job[p].at = "remove" /\ ~ Exists(BuiltIn)
  /\ job' = [job EXCEPT ![p] = Idle]
  /\ UNCHANGED <<disk, cases, broken, revs, ops, fresh>>

\* os.WriteFile truncates the file, then writes it.
Truncate(p) ==
  /\ job[p].at = "write"
  /\ disk' = [disk EXCEPT ![job[p].path] = Torn]
  /\ Others(p, job[p].path, [job[p] EXCEPT !.at = "fill"], FALSE)
  /\ UNCHANGED <<cases, broken, revs, ops>>

\* When somebody else wrote it in between, the two may be mixed, and the file
\* does not parse.
Fill(p) ==
  /\ job[p].at = "fill" /\ job[p].path \notin job[p].changed
  /\ LET path == job[p].path
         met == disk[path] # Torn
     IN /\ \E content \in {job[p].doc} \union (IF met THEN {Torn} ELSE {}) :
             disk' = [disk EXCEPT ![path] = content]
        /\ Others(p, path,
                  [job[p] EXCEPT !.at = "walk",
                                 !.disturbed = met \/ (@ /\ job[p].kind = "import"),
                                 !.changed = {}],
                  FALSE)
  /\ UNCHANGED <<cases, broken, revs, ops>>

\* When it was removed in between, what is written goes with the removed file.
FillRemoved(p) ==
  /\ job[p].at = "fill" /\ job[p].path \in job[p].changed
  /\ job' = [job EXCEPT ![p].at = "walk", ![p].disturbed = TRUE, ![p].changed = {}]
  /\ UNCHANGED <<disk, cases, broken, revs, ops, fresh>>

\* SaveNote reads back the case that was loaded for the path; when there is
\* none, the document that was parsed stands in, with the id it states.
LookUp(p) ==
  /\ job[p].at = "lookup"
  /\ LET there == {i \in CaseIds : cases[i] # None /\ cases[i].path = job[p].path}
     IN \E i \in IF there = {} THEN {job[p].doc.id} ELSE there :
          job' = [job EXCEPT ![p].at = "record", ![p].id = i]
  /\ UNCHANGED <<disk, cases, broken, revs, ops, fresh>>

\* A fault to seed: the newest revision is replaced.
RecordScenarioOver(i, d) ==
  IF i = NoId THEN revs
  ELSE IF revs[i] # <<>> THEN [revs EXCEPT ![i] = Append(Front(@), d)]
  ELSE [revs EXCEPT ![i] = <<d>>]

\* RecordScenario: a source that is the newest revision already is not kept again.
RecordScenario(i, d) ==
  IF i = NoId THEN revs
  ELSE IF revs[i] # <<>> /\ Last(revs[i]) = d THEN revs
  ELSE [revs EXCEPT ![i] = Append(@, d)]

\* A fault to seed: the recorder is given the document that was parsed, which
\* has no derived id.
RecordParsed(p) ==
  /\ job[p].at = "record"
  /\ revs' = RecordScenario(job[p].doc.id, job[p].doc)
  /\ job' = [job EXCEPT ![p] = Idle]
  /\ UNCHANGED <<disk, cases, broken, ops, fresh>>

Record(p) ==
  /\ job[p].at = "record"
  /\ revs' = RecordScenario(job[p].id, job[p].doc)
  /\ job' = [job EXCEPT ![p] = Idle]
  /\ UNCHANGED <<disk, cases, broken, ops, fresh>>

-----------------------------------------------------------------------------
\* What is to be loaded from the files, said of all of them at once: the first
\* file in the walk with an id has it, and every other file is broken.
First(files, path) ==
  \A k, n \in DOMAIN Walk :
    (Walk[n] = path /\ k < n /\ IsDoc(files[Walk[k]])) =>
      IdIn(Walk[k], files[Walk[k]]) # IdIn(path, files[path])

Loadable(files, path) == IsDoc(files[path]) /\ First(files, path)

Catalogue(files) ==
  [i \in CaseIds |->
    LET held == {path \in Paths : Loadable(files, path) /\ IdIn(path, files[path]) = i}
    IN IF held = {} THEN None
       ELSE LET path == CHOOSE x \in held : TRUE IN [path |-> path, doc |-> files[path]]]

Unloadable(files) == {path \in Paths : files[path] # Absent /\ ~ Loadable(files, path)}

\* The program starts: the library is loaded, and SeedVersions records a first
\* revision of everything in it.
LibraryInit ==
  /\ disk \in Begun
  /\ cases = Catalogue(disk) /\ broken = Unloadable(disk)
  /\ revs = [i \in CaseIds |->
               IF i = NoId \/ cases[i] = None THEN <<>> ELSE <<cases[i].doc>>]
  /\ job = [p \in Procs |-> Idle]
  /\ ops = 0
  /\ fresh = TRUE

Rest == ops = MaxOps /\ (\A p \in Procs : ~ Busy(p)) /\ UNCHANGED libraryVars

LibraryNext ==
  \/ \E p \in Procs :
       \/ List(p) \/ SaveScenario(p) \/ Update(p) \/ RestoreRevision(p) \/ Import(p)
       \/ Seed(p) \/ RemoveBuiltIns(p)
       \/ Truncate(p) \/ Fill(p) \/ FillRemoved(p) \/ RemoveFile(p) \/ RemoveFails(p)
       \/ WalkFile(p) \/ WalkStops(p) \/ Install(p) \/ LookUp(p) \/ Record(p)
  \/ Rest

LibrarySpec == LibraryInit /\ [][LibraryNext]_libraryVars

-----------------------------------------------------------------------------
(***************************************************************************)
(* Properties.                                                             *)
(***************************************************************************)

Ends(p) == Busy(p) /\ job'[p] = Idle

\* A write is kept as a revision under its file's id, whoever made it -- as long
\* as it has an id that is not empty, which the store refuses, the file did not
\* clash with another, and no other request changed it, or installed a walk of
\* its own, between the write and the look-up.
WriteRecorded ==
  [][\A p \in Procs :
       (Ends(p) /\ job[p].kind \in {"save", "import"} /\ ~ job[p].disturbed
          /\ job[p].path \notin job[p].found.broken
          /\ IdIn(job[p].path, job[p].doc) # NoId) =>
         Contains(revs'[IdIn(job[p].path, job[p].doc)], job[p].doc)]_libraryVars

\* Revisions are only ever added, whatever is saved, restored, imported or
\* removed, and no revision repeats the one before it.
HistoryGrows ==
  [][\A i \in CaseIds :
       /\ IsPrefix(revs[i], revs'[i])
       /\ \A n \in 2..Len(revs'[i]) : revs'[i][n] # revs'[i][n - 1]]_libraryVars

\* What a write leaves among the revisions is there and stays there.
RevisionsKept == WriteRecorded /\ HistoryGrows

\* A walk during which, and since which, no file changed has loaded every file:
\* under its id, or as broken when another comes first.
LoadedRight ==
  fresh => cases = Catalogue(disk) /\ broken = Unloadable(disk)

\* Importing a document that states no id, alone and at a path that was free,
\* adds it to the library: it is there under an id of its own, and whatever was
\* there before is there still.
ImportAddsOne ==
  [][\A p \in Procs :
       (Ends(p) /\ job[p].kind = "import" /\ ~ job[p].disturbed
          /\ job[p].free /\ job[p].doc.id = NoId) =>
         /\ cases[IdOf[job[p].path]] = [path |-> job[p].path, doc |-> job[p].doc]
         /\ \A i \in CaseIds : job[p].keeps[i] # None => cases[i] = job[p].keeps[i]]_libraryVars

\* "Importing never overwrites": what an import truncates is a file that was not
\* there.
ImportNeverOverwrites ==
  [][\A p \in Procs :
       (job[p].at = "write" /\ job'[p].at = "fill" /\ job[p].kind = "import") =>
         ~ Exists(job[p].path)]_libraryVars

\* "Every write is now kept as a version, so the previous content is one click
\* away": what a save overwrites in a file that is loaded is among the revisions.
PreviousContentKept ==
  [][\A p \in Procs :
       (job[p].at = "write" /\ job'[p].at = "fill" /\ IsDoc(disk[job[p].path])
          /\ job[p].path \notin broken) =>
         Contains(revs[IdIn(job[p].path, disk[job[p].path])], disk[job[p].path])]_libraryVars
=============================================================================
