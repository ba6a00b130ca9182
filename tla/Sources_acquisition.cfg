SPECIFICATION Spec
CONSTANTS
  Submodules <- MCSubmodules
  Capabilities = {"c1", "c2"}
  CapabilityOf <- MCCapabilityOf
  Financial = {"c2"}
  Sources <- MCSources1
  Unpaged = {"c2"}
  Searches <- MCSearches
  AsOf = 2025
  MaxCalls = 4
  MaxSlots = 1
  MaxPages = 2
  MaxAttempts = 2
  MaxCollections = 1
  PlanOrder <- MCPlanOrder
  AnnualReports = "annual_reports"
  AllowedGaps = {"annual_reports", "holders", "ships"}
  Queries = {"name", "code"}
  SearchResults = 2
  Fetches = 2
  Lookback = 2
  ReportYear = 2025
  Acquired <- MCAcquired
  Settings <- MCSettings
  Webs <- MCWebs
  AnnualPages <- MCAnnualPages
  CallerInputs = {{1}}
  LowConfidence = {3}
  Grants <- MCGrants
  MaxToolCalls = 3
  MaxReads = 2
  MaxRefusals = 1
  Routes <- MCRoutes
  NoTool = NoTool
  TopK = 2
  Worlds <- MCWorlds
  MaxTools = 8
  MaxParallel = 2
  MaxRepairs = 2
INVARIANTS AcceptedIsSupported ContextIsTrue FrozenIsFaithful ReadsAreTraced
PROPERTIES EveryQueryEnds
CHECK_DEADLOCK FALSE
