CONSTANTS
  Runs = {r1, r2}
  Keys = {k1}
  NoKey = NoKey
  Callers = {c1, c2}
  LegacyRuns = {r2}
  MaxCrashes = 1
  MaxFaults = 2
  MaxLog = 6
  MaxCancels = 2
SPECIFICATION Spec
SYMMETRY Symmetry
INVARIANT FoundRunningIsFailed
INVARIANT StoredSuccessHasResult
INVARIANT VisibleCompletionIsStored
INVARIANT OneTerminalEvent
CHECK_DEADLOCK FALSE
