CONSTANTS
  Runs = {r1}
  Keys = {k1}
  NoKey = NoKey
  Callers = {c1}
  LegacyRuns = {}
  MaxCrashes = 1
  MaxFaults = 0
  MaxLog = 5
  MaxCancels = 2
SPECIFICATION Spec
INVARIANT InterruptedRunsAreFailed
