SPECIFICATION Spec
CONSTANTS
  Requests = {r1, r2, r3, r4}
  Limit = 2
  Window = 2
  Slack = 1
  MaxRetries = 2
  RedisFails = TRUE
  MaxTime = 5
SYMMETRY Alike
INVARIANTS WindowBound RetryAfterHelps
CHECK_DEADLOCK FALSE
