SPECIFICATION PoolSpec
CHECK_DEADLOCK FALSE
CONSTANTS
  None = None
  n1 = n1
  n2 = n2
  n3 = n3
  s1 = s1
  s2 = s2
  s3 = s3
  a1 = a1
  a2 = a2
  p1 = p1
  r1 = r1
  r2 = r2
  Names = {n1, n2, n3}
  Secrets = {s1, s2, s3}
  Accounts = {a1, a2}
  Responses = {p1}
  RouteKeys = {r1, r2}
  BucketRank <- MCBucketRank
  KeyRank <- MCKeyRank
  InitialDatabases <- AllDatabases
  EnvKeys <- NoEnv
  SyncEnv = FALSE
  MaxAttempts = 2
  TickSizes = {60}
  MaxNow = 120
  MaxAdminOps = 2
  MaxAdding = 0
  MaxRestarts = 0
INVARIANTS
  ExhaustedAccountIdle
  FailoverSpreads
PROPERTIES
  StickyPrimary
