SPECIFICATION PoolSpec
CHECK_DEADLOCK FALSE
CONSTANTS
  None = None
  n1 = n1
  n2 = n2
  n3 = n3
  s1 = s1
  s2 = s2
  s3 = s3
  a1 = a1
  a2 = a2
  p1 = p1
  r1 = r1
  r2 = r2
  Names = {n1, n2, n3}
  Secrets = {s1, s2, s3}
  Accounts = {a1, a2}
  Responses = {p1}
  RouteKeys = {r1, r2}
  BucketRank <- MCBucketRank
  KeyRank <- MCKeyRank
  InitialDatabases <- RoomyDatabases
  EnvKeys <- CleanEnv
  SyncEnv = TRUE
  MaxAttempts = 2
  TickSizes = {60}
  MaxNow = 0
  MaxAdminOps = 3
  MaxAdding = 2
  MaxRestarts = 1
INVARIANTS
  PoolTypeOK
  FingerprintsUnique
  SnapshotsOwned
  RoutesOwned
PROPERTIES
  BootSyncs
