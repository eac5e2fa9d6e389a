CONSTANTS
  r1 = r1
  r2 = r2
  b1 = b1
  t1 = t1
  t2 = t2
  t3 = t3
  t4 = t4
  None = None
  Requests <- Two
  Browsers = {b1}
  BrowserOf <- TwoOfOne
  Tokens <- Pairs
  Kinds = {"login", "logout", "logoutAll", "reset"}
SYMMETRY Alike
SPECIFICATION Spec
INVARIANTS RevokedSessionsEnd HoldsUsableToken
CHECK_DEADLOCK FALSE
