CONSTANTS
  Jobs = {j1, j2}
  Apps = {a1}
  AppOf <- OneDossier
  Dispatchers = {d1}
  BatchSize = 10
  MaxPublishRetries = 2
  Workers = {w1, w2}
  MaxDeliveryAttempts = 2
  MaxRestarts = 0
  Faults = {"pipeline"}
  NoJob = NoJob
SPECIFICATION FairSpec
PROPERTIES QueuedMovesOn DeliverySettles
CHECK_DEADLOCK FALSE
