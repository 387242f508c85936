\* One publisher; the broker refuses a message and takes the next.
SPECIFICATION Spec
CONSTANTS
  p1 = p1  p2 = p2
  Publishers <- OnePublisher
  LastEvent = 2
  Corrupt = {}
  BatchSize = 2
  MaxAttempts = 2
  Faults = {"refused"}
  MaxMishaps = 0
CHECK_DEADLOCK FALSE
INVARIANT FirstCopiesInOrder
