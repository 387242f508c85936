\* The default configuration.
SPECIFICATION Spec
CONSTANTS
  MaxAttempts = 10
  BaseDelay = 1
  MaxDelay = 60
  DuplicateWindow = 120
CHECK_DEADLOCK FALSE
INVARIANT RetryLandsInWindow
