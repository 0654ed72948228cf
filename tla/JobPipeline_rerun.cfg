CONSTANTS
  Jobs = {j1, j2}
  Apps = {a1}
  AppOf <- OneDossier
  Dispatchers = {d1}
  BatchSize = 10
  MaxPublishRetries = 1
  Workers = {w1, w2}
  MaxDeliveryAttempts = 2
  MaxRestarts = 0
  Faults = {"crash", "pipeline", "queue"}
  NoJob = NoJob
SPECIFICATION Spec
SYMMETRY Symmetry
INVARIANTS OneWorkerPerJob SettledIsRecorded QueuedHasActiveJob QueuedIsOnItsWay
PROPERTIES ImplementsDelivery SettledForGood
CHECK_DEADLOCK FALSE
