SPECIFICATION StreamSpec
CONSTANTS
  Routes = {"native"}
  Plans <- MCPlans
  ToolDeltas <- MCToolDeltas
  Interleaved = FALSE
CHECK_DEADLOCK FALSE
INVARIANTS
  CallsCounted
