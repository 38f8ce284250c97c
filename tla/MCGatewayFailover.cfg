SPECIFICATION FairGatewaySpec
CHECK_DEADLOCK FALSE
CONSTANTS
  None = None
  n1 = n1
  n2 = n2
  n3 = n3
  s1 = s1
  s2 = s2
  s3 = s3
  a1 = a1
  a2 = a2
  p0 = p0
  p1 = p1
  p2 = p2
  r1 = r1
  q1 = q1
  q2 = q2
  Names = {n1, n2, n3}
  Secrets = {s1, s2, s3}
  Accounts = {a1, a2}
  Responses = {p0, p1, p2}
  RouteKeys = {r1}
  BucketRank <- MCBucketRank
  KeyRank <- MCKeyRank
  InitialDatabases <- MCDatabases
  EnvKeys <- NoEnv
  SyncEnv = FALSE
  MaxAttempts = 3
  TickSizes = {60}
  MaxNow = 0
  MaxAdminOps = 1
  MaxAdding = 0
  MaxRestarts = 1
  Requests = {q1}
  Jobs <- MixedJobs
  FailedAnswers <- AllFailures
  ResponseOf <- MCResponseOf
INVARIANTS
  GatewayTypeOK
  ExhaustsCandidates
PROPERTIES
  KeepsContract
  EventuallyAnswered
