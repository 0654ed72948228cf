CONSTANTS
  Jobs = {j1, j2, j3}
  MaxActive = 2
  MaxRetries = 2
  GuardFaults = {"redis", "resolver", "commit", "crash", "ttl"}
SPECIFICATION Spec
SYMMETRY Symmetry
INVARIANTS GuardTypeOK LimitUntilEviction RefusedForTheLiving NothingLeftBehind
CHECK_DEADLOCK FALSE
