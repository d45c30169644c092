SPECIFICATION FairOutboxSpec
CONSTANTS
  Events = {1, 2, 3}
  Workers = {w1}
  DryRunWorkers = {}
  Requests = {}
  Routable = {2, 3}
  Decodable = {1, 2, 3}
  PreviewFails = {}
  BatchSize = 3
  MaxRetries = 2
  AttemptBound = 4
  MaxEventFaults = 2
INVARIANTS
  RedeliveryNeedsLoss
PROPERTIES
  DispatchedIsFinal
  BackoffIsRespected
  EventuallySettled
CHECK_DEADLOCK FALSE
