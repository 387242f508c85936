\* One publisher and one consumer, joined by the stream.
SPECIFICATION FairPipelineSpec
CONSTANTS
  p1 = p1  w1 = w1  m1 = m1  m2 = m2
  Publishers <- OnePublisher
  LastEvent = 1
  Events = {1}
  Corrupt = {}
  BatchSize = 2
  MaxAttempts = 2
  OutboxFaults = {"refused", "ackLost", "late", "forgets", "db", "stamps", "crash", "stop"}
  MaxMishaps = 1
  Workers <- OneReplica
  MaxDeliver = 3
  BrokerMaxDeliver = 3
  FetchBatch = 2
  MaxAckPending = 2
  Faults = {"lost", "expiry", "dlq", "transient", "permanent"}
  MaxDowns = 0
  Messages <- TwoMessages
  EventOf <- EventOfTwo
  CopyNumber <- CopyOfTwo
  Malformed = {}
CHECK_DEADLOCK FALSE
INVARIANTS NothingDroppedSilently MailedAtMostOnce
PROPERTIES KeepsPromise EveryEventEnds EverythingSettles RowsMoveForward
