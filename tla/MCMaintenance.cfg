SPECIFICATION FairMaintenanceSpec
CHECK_DEADLOCK FALSE
CONSTANTS
  None = None
  n1 = n1
  n2 = n2
  s1 = s1
  s2 = s2
  s3 = s3
  a1 = a1
  c1 = c1
  k1 = k1
  k2 = k2
  Names = {n1, n2}
  Secrets = {s1, s2, s3}
  Accounts = {a1}
  Responses = {}
  RouteKeys = {}
  BucketRank <- MCRank
  KeyRank <- MCRank
  InitialDatabases <- MCDatabases
  EnvKeys <- NoEnv
  SyncEnv = FALSE
  MaxAttempts = 2
  TickSizes = {60}
  MaxNow = 0
  MaxAdminOps = 1
  MaxAdding = 1
  MaxRestarts = 1
  Cleaners = {c1}
  Malformed = {s3}
  Calls = {k1, k2}
  Concurrency = {1, 2}
  AutoDisable = {TRUE, FALSE}
  Refusals <- MCRefusals
  RaisedTexts <- MCRaised
  Owners <- MCOwners
  Loads <- MCLoads
INVARIANTS
  MaintenanceTypeOK
PROPERTIES
  RefreshContained
  OutageOpensOnlyUnknown
  CleanupNeverReopens
  RefreshEnds
