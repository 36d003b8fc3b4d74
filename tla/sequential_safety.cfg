SPECIFICATION Spec
CONSTANTS
  c1 = c1
  c2 = c2
  q1 = q1
  q2 = q2
  q3 = q3
  NoCtx = NoCtx
  Nobody = Nobody
  Ctxs <- TwoContexts
  Queries <- ThreeQueries
  Timeout <- ShortTimeouts
  Horizon = 1
  MaxClock = 2
  OverlappingContexts = FALSE
  CloseDuringLookup = FALSE
SYMMETRY QuerySymmetry
INVARIANTS
  TypeOK
  CalledBackOnce
  NoUseAfterFree
  HeadExpiresFirst
  CancelSilencesLibunbound
  CloseKillsOutstanding
  ThreadsAndTableHaveContexts
PROPERTIES
  ImplementsService
