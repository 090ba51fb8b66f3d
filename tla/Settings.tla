------------------------------ MODULE Settings ------------------------------
(***************************************************************************)
(* The versions of the configuration (internal/store/store.go) and the     *)
(* settings page's handlers (internal/web/api.go).                         *)
(*                                                                         *)
(* A transaction of the database is one step, whichever process makes it.  *)
(* Saving the form takes two: the handler reads the configuration, lays    *)
(* the form over it and saves the result; another save or a restore can    *)
(* come in between.  A configuration is its API key and the rest of the    *)
(* form.                                                                   *)
(***************************************************************************)
EXTENDS Naturals, Sequences, SequencesExt

CONSTANTS
  Requesters,   \* the settings pages
  Keys, NoKey,  \* the API keys there are, and none
  Forms,        \* what the rest of the form may say
  MaxVersions   \* bound: versions

ASSUME SettingsAssumption == NoKey \notin Keys /\ Forms # {} /\ MaxVersions \in Nat \ {0}

VARIABLES
  versions,   \* the versions kept; the position is the number
  current,    \* keyCurrent: the number of the version in force
  request     \* request[p]: the save under way

settingsVars == <<versions, current, request>>

NoRequest == [at |-> "none"]

\* Open seeds the first version with the defaults.
SettingsInit ==
  /\ \E form \in Forms : versions = <<[key |-> NoKey, form |-> form]>>
  /\ current = 1
  /\ request = [p \in Requesters |-> NoRequest]

\* writeVersion: the version is put under its number, over one that is there,
\* and is the current one.
WriteVersion(n, config) ==
  /\ n <= MaxVersions
  /\ versions' = IF n <= Len(versions) THEN [versions EXCEPT ![n] = config]
                 ELSE Append(versions, config)
  /\ current' = n

\* What the form makes of the configuration: an empty key field leaves the key.
Overlay(config, key, clear, form) ==
  [key |-> IF clear THEN NoKey ELSE IF key # NoKey THEN key ELSE config.key,
   form |-> form]

\* handleSettingsSave, as far as reading the configuration in force.
BeginSave(p) ==
  /\ request[p].at = "none"
  /\ \E key \in Keys \union {NoKey}, clear \in BOOLEAN, form \in Forms :
       request' = [request EXCEPT ![p] =
         [at |-> "save", key |-> key, clear |-> clear,
          config |-> Overlay(versions[current], key, clear, form)]]
  /\ UNCHANGED <<versions, current>>

\* Save appends a version.
Save(p) ==
  /\ request[p].at = "save"
  /\ WriteVersion(current + 1, request[p].config)
  /\ request' = [request EXCEPT ![p] = NoRequest]

\* Extra parameters that do not parse, or a database busy for too long.
RefuseSave(p) ==
  /\ request[p].at = "save"
  /\ request' = [request EXCEPT ![p] = NoRequest]
  /\ UNCHANGED <<versions, current>>

\* A fault to seed: restoring goes back to the old version.
RestoreBack(p) ==
  /\ request[p].at = "none"
  /\ current' \in 1..Len(versions)
  /\ UNCHANGED <<versions, request>>

\* Restore copies an old version forward.
Restore(p) ==
  /\ request[p].at = "none"
  /\ \E old \in 1..Len(versions) : WriteVersion(current + 1, versions[old])
  /\ UNCHANGED request

SettingsStep(p) == BeginSave(p) \/ Save(p) \/ RefuseSave(p) \/ Restore(p)

-----------------------------------------------------------------------------
(***************************************************************************)
(* No version is ever changed or lost, whatever is saved and restored in   *)
(* whichever order (store.go:343 "History is append-only"), and the one in *)
(* force is the newest: a save's number is the current one plus one, which *)
(* would overwrite a version if the current one ever were an older one.    *)
(***************************************************************************)
SettingsKept ==
  [][IsPrefix(versions, versions') /\ current' = Len(versions')]_settingsVars
=============================================================================
