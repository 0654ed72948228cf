CONSTANTS
  Jobs = {j1}
  Apps = {a1}
  AppOf <- OneDossier
  Dispatchers = {d1}
  BatchSize = 10
  MaxPublishRetries = 2
  Workers = {w1, w2}
  MaxDeliveryAttempts = 2
  MaxRestarts = 1
  Faults = {"crash", "pipeline", "writeback", "record", "publish", "queue", "lost_reply"}
  NoJob = NoJob
SPECIFICATION Spec
SYMMETRY Symmetry
INVARIANTS TypeOK AckAfterCommit AttemptCeiling PublishedIsEnqueued
CHECK_DEADLOCK FALSE
