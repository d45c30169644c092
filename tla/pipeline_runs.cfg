SPECIFICATION Spec
CONSTANTS
  Processes = {p1, p2}
  Days = {1, 2}
  Files <- MCFiles
  Plans <- MCPlans
  MinSeries = 1
  MaxDimAlerts = 1
  MaxRuns = 2
  MaxFaults = 1
INVARIANTS
  TypeOK
  StepRecordsAreTrue
  RunningIsExplained
  CompletedRunDelivers
  MetricsKeepOrders
PROPERTIES
  EveryRunReturns
CHECK_DEADLOCK FALSE
