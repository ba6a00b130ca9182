CONSTANTS
  Runs = {r1, r2}
  Keys = {k1}
  NoKey = NoKey
  Callers = {c1}
  LegacyRuns = {}
  MaxCrashes = 1
  MaxFaults = 0
  MaxLog = 5
  MaxCancels = 2
SPECIFICATION Spec
SYMMETRY Symmetry
INVARIANT OneRunPerKey
PROPERTY OutcomeIsFinal
