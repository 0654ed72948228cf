CONSTANTS
  Jobs = {j1}
  Apps = {a1}
  AppOf <- OneDossier
  Dispatchers = {d1}
  BatchSize = 10
  MaxPublishRetries = 3
  Workers = {w1, w2}
  MaxDeliveryAttempts = 3
  MaxRestarts = 0
  Faults = {"crash"}
  NoJob = NoJob
SPECIFICATION FairSpec
PROPERTIES ClaimedIsSettled
CHECK_DEADLOCK FALSE
