SPECIFICATION FairOutboxSpec
CONSTANTS
  Events = {1, 2}
  Workers = {w1}
  DryRunWorkers = {}
  Requests = {}
  Routable = {2}
  Decodable = {1, 2}
  PreviewFails = {}
  BatchSize = 1
  MaxRetries = 2
  AttemptBound = 4
  MaxEventFaults = 0
PROPERTY PendingIsPolled
CHECK_DEADLOCK FALSE
