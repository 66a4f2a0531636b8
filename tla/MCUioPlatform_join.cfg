\* Init and cleanup called again, with no system call failing.
CONSTANTS
  MaxInits = 3
  Failures = {}
SPECIFICATION Spec
INVARIANTS JoinsItsThread
CHECK_DEADLOCK FALSE
