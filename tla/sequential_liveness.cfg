SPECIFICATION CFairSpec
CONSTANTS
  c1 = c1
  q1 = q1
  q2 = q2
  NoCtx = NoCtx
  Nobody = Nobody
  Ctxs <- OneContext
  Queries <- TwoQueries
  Timeout <- OneSecond
  Horizon = 1
  MaxClock = 2
  OverlappingContexts = FALSE
  CloseDuringLookup = FALSE
  MaxBack = 2
INVARIANTS
  LateByTheSetBack
PROPERTIES
  AcceptedIsCalledBack
  CloseReturns
  DestroyReturns
  LookupReturns
