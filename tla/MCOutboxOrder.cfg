\* Two publishers, every fault that leaves each publish to the broker at once.
SPECIFICATION FairSpec
CONSTANTS
  p1 = p1  p2 = p2
  Publishers <- TwoPublishers
  LastEvent = 2
  Corrupt = {}
  BatchSize = 2
  MaxAttempts = 2
  Faults = {"ackLost", "db", "crash", "stop"}
  MaxMishaps = 3
CHECK_DEADLOCK FALSE
INVARIANTS FirstCopiesInOrder StoredOnce
PROPERTY EveryRowResolved
