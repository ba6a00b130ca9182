\* One run's inside: the three layers of its spending, its steps, its report, its files.
SPECIFICATION Spec
CONSTANTS
  Sections = {"profile", "plan"}
  Plan = "plan"
  Known = {"e1", "e2"}
  NumbersOf <- MCNumbersOf
  Risks <- MCRisks
  Checks = {"c1", "c2"}
  Policies <- MCPolicies
  MaxRequests = 3
  MaxTokens = 4
  MaxReserve = 2
  MaxSchemaRetries = 1
  Drafts <- MCDrafts
  Facts <- MCFacts
  Members <- MCMembers
  TeamEvents <- MCTeamEvents
  Results <- MCResults
  MaxExecutors = 1
  MaxTags = 2
  MaxFacts = 2
  Rules <- MCRules
  PassBelow = 20
  RejectFrom = 40
  Occurs <- MCOccurs
  FieldsOf <- MCFieldsOf
  Verifying <- MCVerifying
  Subject = "acme"
  Cases <- MCCases
  Wishes <- MCWishes
  PolicyRuns = {"r1", "r2"}
  FeedbackKeys = {"k1", "k2"}
  TargetSets = {{"s1"}, {"s2"}}
  Disclosing <- MCDisclosing
  SuiteImproves <- MCSuiteImproves
  MaxPolicies = 3
  MaxUpgrades = 2
  Users = {"ann", "ben"}
  GatewayRuns = {"r1", "r2"}
  Pending = {1, 2, 3}
  MaxSessions = 2
  MaxBound = 1
  MaxConnections = 2
  ConnectionsPerUser = 2
  MaxLogins = 2
INVARIANTS RunWithinBudget SuccessIsWhole SnapshotsAreTrue ReadableResultIsWhole PoliciesAreEarned CapacityIsKept OnlyFiguresRefuse NoRiskIsHidden CompleteIsAnswered
\* A run ends.
CHECK_DEADLOCK FALSE
