SPECIFICATION StreamSpec
CONSTANTS
  Routes = {"fallback", "native", "bridge"}
  Plans <- MCPlans
  ToolDeltas <- MCToolDeltas
  Interleaved = FALSE
CHECK_DEADLOCK FALSE
INVARIANTS
  StreamTypeOK
  FinishedCallsArrive
  FinalListsItems
  AnnouncedFirst
  WholeCalls
PROPERTIES
  FallbackKeepsContract
  BridgeKeepsContract
  StreamsEnd
