SPECIFICATION OutboxSpec
CONSTANTS
  Events = {1}
  Workers = {w1}
  DryRunWorkers = {}
  Requests = {r1}
  Routable = {1}
  Decodable = {1}
  PreviewFails = {}
  BatchSize = 1
  MaxRetries = 2
  AttemptBound = 4
  MaxEventFaults = 0
INVARIANT DispatchedWasDelivered
CHECK_DEADLOCK FALSE
