\* One request at a time, which may abort anywhere.
SPECIFICATION Spec
CONSTANTS
  u1 = u1  u2 = u2  r1 = r1  r2 = r2  a = a  b = b  x = x  y = y
  Users <- TwoUsers
  Emails <- TwoEmails
  Names <- OneName
  Requests <- OneRequest
  MaxTokens = 4
  MaxBegun = 6
CHECK_DEADLOCK FALSE
INVARIANTS OneLivePerFamily EndedStaysEnded SessionsMatchPassword
PROPERTIES UpdatesChange PasswordEventsChange
