CONSTANTS
  a1 = a1  a2 = a2  a3 = a3  b1 = b1  x1 = x1  o1 = o1  o2 = o2
  A = A  B = B
  Bearers = {a1, b1}
  Principals = {A, B}
  Requests = {r1}
  Entries = {e1, e2, e3}
  Sids = {s1}
  NoBearer = NoBearer  NoEntry = NoEntry  NoSid = NoSid  Nobody = Nobody
  PrincipalOf <- MCPrincipalOf
  Shape <- MCShape
  Revocable = {a1, b1}
  Flaky = FALSE
  Closable = FALSE
  PublicModes = {TRUE}
SPECIFICATION NodeSpec
SYMMETRY Symmetry
INVARIANTS AlwaysAsSelf
