SPECIFICATION Spec
CONSTANTS
  p1 = p1
  p2 = p2
  p3 = p3
  s1 = s1
  s2 = s2
  None = None
  Weak = Weak
  Torn = Torn
  Removed = Removed
  Passwords <- MCPasswords
  Secrets <- MCSecrets
  CanFail = TRUE
  MaxCrashes = 3
INVARIANTS OneAdmin PasswordIsAdmins TokensStayValid LoginsStayValid
PROPERTIES FailsForAReason ComesUp
