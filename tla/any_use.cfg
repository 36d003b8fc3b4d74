SPECIFICATION RSpec
CONSTANTS
  c1 = c1
  c2 = c2
  q1 = q1
  q2 = q2
  NoCtx = NoCtx
  Nobody = Nobody
  Ctxs <- TwoContexts
  Queries <- TwoQueries
  Timeout <- AtOnce
  Horizon = 0
  MaxClock = 0
  OverlappingContexts = TRUE
  CloseDuringLookup = TRUE
  Calls <- Everything
  CloseUnderCallers = TRUE
SYMMETRY QuerySymmetry
INVARIANTS
  StandstillNeedsWaitingCallback
  UnderWayGoesOn
  OneConfigLoadAtATime
  TableHoldsLiveQueries
  AnsweredIsInTable
  OneTableWriter
PROPERTIES
  UsesTableAsSpecified
CHECK_DEADLOCK FALSE
