\* One account at the beginning, two calls; the second may repeat the first.
SPECIFICATION GatewaySpec
CONSTANTS
  u1 = u1  u2 = u2  a = a  b = b  x = x
  Users <- TwoUsers
  Emails <- TwoEmails
  Names <- OneName
  Requests <- TwoCalls
  Passwords <- TwoPasswords
  Owner = u1
  MaxTokens = 3
  MaxBegun = 3
  LastCall = 2
CHECK_DEADLOCK FALSE
INVARIANTS GatewayTypeOK TruthfulAnswers RepeatsChangeNothing OutlivedTokensChangeNothing CatalogueIsEnforced
