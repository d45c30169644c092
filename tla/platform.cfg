SPECIFICATION PlatformSpec
CONSTANTS
  Nil = Nil
  Files <- MCFiles
  Short = 1
  Long = 2
  MaxPerValue = 1
  MaxAlerts = 4
  MaxRuns = 3
  GovDirs <- MCGovDirs
  Covers <- MCCovers
  Properties <- MCProperties
  MaxLoads = 2
  Objects <- MCObjects
  Links <- MCLinks
  Recipes <- MCRecipes
  ContextCases <- MCCases
  ActionFiles <- MCActionFiles
  MaxBuilds = 1
  SchemaFiles <- MCSchemaFiles
  Contents <- MCContents
  Arrivals <- MCArrivals
  Searches <- MCSearches
  Gets <- MCGets
  Offers <- MCOffers
  RegistryFile <- MCRegistryFile
  McpRole = "agent_readonly"
  MaxCalls = 3
  Syncs = {"c1", "c2"}
  TableIds <- MCTableIds
  CsvFiles <- MCCsvFiles
  Remotes <- MCRemotes
  FeishuRequests <- MCRequests
  Configured = TRUE
  ChatConfigured = FALSE
  RecordsPerPage = 1
  Chunk = 2
  Attempts = 2
  MaxFaults = 2
  Callers = {"r1", "r2"}
  Inputs <- MCInputs
  StartRows <- MCStartRows
  LiveExecution = TRUE
  AllowLive = TRUE
  Stocks <- MCStocks
  Leftovers = {"proposed", "approved", "rejected", "failed"}
  Recommended = {0, 1}
  MaxUserSteps = 2
  Cases = {1}
  Proposals = {1}
  CaseOf <- MCCaseOf
  Deciders = {}
  Reviewers = {"r1"}
  Appliers = {"x1", "x2"}
  Equipped = {"x1", "x2"}
  Whitelisted = {1}
  MaxProposalFaults = 1
  NoOne = NoOne
  NoCase = NoCase
  Events = {1, 2}
  Workers = {"w1"}
  DryRunWorkers = {}
  Requests = {}
  Routable = {1, 2}
  Decodable = {1, 2}
  PreviewFails = {}
  BatchSize = 1
  MaxRetries = 2
  AttemptBound = 3
  MaxEventFaults = 1
  Wirings <- MCWirings
INVARIANTS
  AlertsRestOnOrders
  EventsFollowAlerts
  AccessFollowsLoads
  HiddenStaysHidden
  PagingIsExact
  AnswersAreOpen
  AdviceIsKept
  DuplicatesAreExplained
  AnswersFollowEffects
  LifecycleReportIsTrue
  ApprovalBoundsActs
PROPERTIES
  RerunsAgree
CHECK_DEADLOCK FALSE
