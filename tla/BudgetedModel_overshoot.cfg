SPECIFICATION FairSpec
CONSTANTS
  c1 = c1 c2 = c2 c3 = c3
  Calls = {c1, c2}
  MaxTokens <- TwoEach
  MaxTotal = 3
  MaxRequests = 2
  MaxConcurrency = 1
  MaxClaims <- OneSnapshotRead
  Enforced = TRUE
  Estimates = {1}
  Asks = {1}
  Overshoot = 1
INVARIANTS OvershootIsNoticed
PROPERTIES EveryCallSettles
