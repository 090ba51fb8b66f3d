SPECIFICATION Spec
CONSTANTS
  Tabs = {t1, t2}
  Requesters = {t1, t2}
  MaxTexts = 2
  MaxIds = 2
  MaxDrafts = 1
  MaxFaults = 1
  MaxWire = 2
  Keys = {k1}
  NoKey = NoKey
  Forms = {f1}
  MaxVersions = 3
SYMMETRY Alike
INVARIANTS DraftKnown
PROPERTIES NeverOlder SettingsKept
CHECK_DEADLOCK FALSE
