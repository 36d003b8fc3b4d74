SPECIFICATION Spec
CONSTANTS
  c1 = c1
  c2 = c2
  q1 = q1
  q2 = q2
  q3 = q3
  NoCtx = NoCtx
  Nobody = Nobody
  Ctxs <- TwoContexts
  Queries <- TwoQueries
  Timeout <- ShortTimeouts
  Horizon = 0
  MaxClock = 1
  OverlappingContexts = FALSE
  CloseDuringLookup = FALSE
PROPERTIES
  NoCallbackOnceClosed
