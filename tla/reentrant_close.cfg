SPECIFICATION RSpec
CONSTANTS
  c1 = c1
  c2 = c2
  q1 = q1
  q2 = q2
  NoCtx = NoCtx
  Nobody = Nobody
  Ctxs <- OneContext
  Queries <- TwoQueries
  Timeout <- OneSecond
  Horizon = 0
  MaxClock = 1
  OverlappingContexts = FALSE
  CloseDuringLookup = TRUE
  Calls <- Closes
  CloseUnderCallers = FALSE
INVARIANTS
  JoinedBeforeFreed
