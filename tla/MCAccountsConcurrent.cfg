\* Two accounts, two requests in flight.
SPECIFICATION Spec
SYMMETRY RequestSymmetry
CONSTANTS
  u1 = u1  u2 = u2  r1 = r1  r2 = r2  a = a  b = b  x = x  y = y
  Users <- TwoUsers
  Emails <- TwoEmails
  Names <- TwoNames
  Requests <- TwoRequests
  MaxTokens = 3
  MaxBegun = 5
CHECK_DEADLOCK FALSE
INVARIANTS TypeOK UniqueEmails LedgerMirrorsUsers ConsumedIsRevoked NoOrphanSessions
