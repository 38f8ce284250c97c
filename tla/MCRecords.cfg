SPECIFICATION RecordsSpec
CONSTANTS
  Aliases <- MCAliases
  Fold <- MCFold
  Upstreams <- MCUpstreams
  Defaults <- MCDefaults
  Imports <- MCImports
  Environment <- MCEnvironment
  Patches <- MCPatches
  Csvs <- MCCsvs
  Rows <- MCRows
  OldRows <- MCOldRows
  RecentImports = 2
  Calls = 3
  Requests = 2
  Restarts = 1
CHECK_DEADLOCK FALSE
INVARIANTS
  AliasesUnique
  ResolvedAsListed
  SettingsPersisted
  PagesAgree
PROPERTIES
  DisabledStays
  AffinityStable
