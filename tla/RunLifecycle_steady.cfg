CONSTANTS
  Runs = {r1}
  Keys = {k1}
  NoKey = NoKey
  Callers = {c1, c2, c3}
  LegacyRuns = {}
  MaxCrashes = 0
  MaxFaults = 0
  MaxLog = 5
  MaxCancels = 3
SPECIFICATION FairSpec
INVARIANTS StoreAgreesWithStream
PROPERTIES KeepsContract EveryRunEnds CancelReturns
