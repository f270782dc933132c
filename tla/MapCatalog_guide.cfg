\* The dashboard, the importer and the editor, with two maps.
SPECIFICATION Spec
CONSTANTS
  MaxMaps = 2
  MaxRounds = 2
  MaxFeatures = 4
  Limits <- SmallLimits
INVARIANTS
  TypeOK
  NothingUntracked
  ListShown
  StoredOnce
  DashboardShows
  ImportWhole
  SavingIsImporting
  SavingIsUnderWay
PROPERTIES
  SavedIsStored
CHECK_DEADLOCK FALSE
