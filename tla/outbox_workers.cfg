SPECIFICATION OutboxSpec
CONSTANTS
  Events = {1, 2}
  Workers = {w1, w2}
  DryRunWorkers = {}
  Requests = {r1}
  Routable = {1, 2}
  Decodable = {1, 2}
  PreviewFails = {}
  BatchSize = 1
  MaxRetries = 2
  AttemptBound = 4
  MaxEventFaults = 1
SYMMETRY Symmetry
INVARIANTS
  OutboxTypeOK
  DeliveriesAreCounted
  RetryLimitHolds
  PendingIsUnrecorded
CHECK_DEADLOCK FALSE
