\* Two replicas, one event and a message that does not parse, every fault.
SPECIFICATION Spec
SYMMETRY ReplicaSymmetry
CONSTANTS
  w1 = w1  w2 = w2  m1 = m1  m2 = m2  e1 = e1  e2 = e2
  Workers <- TwoReplicas
  Messages <- TwoMessages
  Events <- TwoEvents
  EventOf <- Distinct
  Malformed <- SecondMalformed
  MaxDeliver = 2
  BrokerMaxDeliver = 2
  FetchBatch = 2
  MaxAckPending = 2
  Faults = {"crash", "stop", "db", "sink", "dlq", "lost", "expiry", "ambiguous", "transient", "permanent"}
  MaxDowns = 2
CHECK_DEADLOCK FALSE
INVARIANTS TypeOK AckedMeansEmailed TermedMeansRecorded CopyMeansRecorded
PROPERTY DeliveredForGood
