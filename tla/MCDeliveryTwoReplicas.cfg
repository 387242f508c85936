\* Two replicas, one message, a handler slower than ack_wait.
SPECIFICATION Spec
CONSTANTS
  w1 = w1  w2 = w2  m1 = m1  m2 = m2  e1 = e1  e2 = e2
  Workers <- TwoReplicas
  Messages <- OneMessage
  Events <- OneEvent
  EventOf <- Single
  Malformed <- NoneMalformed
  MaxDeliver = 2
  BrokerMaxDeliver = 2
  FetchBatch = 1
  MaxAckPending = 2
  Faults = {"expiry"}
  MaxDowns = 0
CHECK_DEADLOCK FALSE
INVARIANT MailedAtMostOnce
