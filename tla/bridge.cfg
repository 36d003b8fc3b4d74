SPECIFICATION FairSpec
CONSTANTS
  c1 = c1
  c2 = c2
  q1 = q1
  q2 = q2
  NoCtx = NoCtx
  Nobody = Nobody
  Ctxs <- TwoContexts
  Queries <- TwoQueries
  Timeout <- ShortTimeouts
  Horizon = 1
  MaxClock = 2
  JvmFails <- OneFails
INVARIANTS
  CallbackContextLife
  CompletionFindsPending
  FutureTellsOutcome
  DetachedBetweenCallbacks
  StringsReleased
PROPERTIES
  FutureCompletes
