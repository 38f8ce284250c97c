SPECIFICATION Spec
CHECK_DEADLOCK FALSE
CONSTANTS
  \* Every status the code names, and a neighbour of each range.
  Statuses = {302, 400, 401, 402, 403, 404, 408, 412, 422, 429, 499, 500, 503, 599}
  c1 = c1
  c2 = c2
  NoId = NoId
  MaxItems = 4
  MaxEvents = 2
  Payloads <- MCPayloads
  Headers <- MCHeaders
  Contents <- MCContents
  MaxIterations = 2
  MaxOutputs = 2
INVARIANTS
  FailureLeavesMark
  ThrottlingNeverDisables
  NoResponseFailsOver
  CallsStayPaired
  SearchesPaired
  ReportedCountsStand
