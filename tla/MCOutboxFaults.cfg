\* Two publishers, every fault, a row that does not parse.
SPECIFICATION Spec
SYMMETRY PublisherSymmetry
CONSTANTS
  p1 = p1  p2 = p2
  Publishers <- TwoPublishers
  LastEvent = 2
  Corrupt = {1}
  BatchSize = 2
  MaxAttempts = 3
  Faults = {"refused", "ackLost", "late", "forgets", "db", "stamps", "crash", "stop"}
  MaxMishaps = 2
CHECK_DEADLOCK FALSE
INVARIANTS TypeOK PublishedMeansStored GivenUpAfterBudget
