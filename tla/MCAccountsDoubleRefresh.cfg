\* Two requests refresh the same token at the same time.
SPECIFICATION Spec
CONSTANTS
  u1 = u1  u2 = u2  r1 = r1  r2 = r2  a = a  b = b  x = x  y = y
  Users <- OneUser
  Emails <- OneEmail
  Names <- OneName
  Requests <- TwoRequests
  MaxTokens = 3
  MaxBegun = 3
CHECK_DEADLOCK FALSE
INVARIANT OneLivePerFamily
