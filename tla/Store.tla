-------------------------------- MODULE Store -------------------------------
(***************************************************************************)
(* The database of drafts and configuration versions, and the pages that   *)
(* write to it.  A browser tab shows one page: an editor or the settings.  *)
(***************************************************************************)
EXTENDS Drafts, Settings

ASSUME StoreAssumption == Requesters = Tabs

VARIABLE page   \* page[t]: the page the tab shows

storeVars == <<draftVars, settingsVars, page>>

Init ==
  /\ DraftsInit /\ SettingsInit
  /\ page \in [Tabs -> {"editor", "settings"}]

Edit ==
  /\ \/ \E t \in Tabs : page[t] = "editor" /\ Page(t)
     \/ Traffic
     \/ \E id \in Ids : DiscardFromList(id)
  /\ UNCHANGED <<settingsVars, page>>

Configure ==
  /\ \E t \in Tabs : page[t] = "settings" /\ SettingsStep(t)
  /\ UNCHANGED <<draftVars, page>>

Next == Edit \/ Configure

Spec == Init /\ [][Next]_storeVars
=============================================================================
