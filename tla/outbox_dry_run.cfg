SPECIFICATION OutboxSpec
CONSTANTS
  Events = {1, 2}
  Workers = {w1, w3}
  DryRunWorkers = {w3}
  Requests = {r1}
  Routable = {1, 2}
  Decodable = {1}
  PreviewFails = {2}
  BatchSize = 1
  MaxRetries = 2
  AttemptBound = 4
  MaxEventFaults = 1
INVARIANTS
  WorkerDispatchedWasDelivered
CHECK_DEADLOCK FALSE
