CONSTANTS
  c1 = c1 c2 = c2 c3 = c3
  Calls = {c1, c2, c3}
  MaxTokens <- ThreeEach
  MaxTotal = 5
  MaxRequests = 3
  MaxConcurrency = 2
  MaxClaims <- OneToolCall
  Enforced = TRUE
  Estimates = {1, 2}
  Asks = {2}
  Overshoot = 0
SPECIFICATION Spec
SYMMETRY Alike
INVARIANTS LedgerBalances SpendingWithinBudget CompleteUsageIsReal
PROPERTIES ExhaustionIsFinal
