CONSTANTS
  a1 = a1  a2 = a2  a3 = a3  b1 = b1  x1 = x1  o1 = o1  o2 = o2
  A = A  B = B
  Bearers = {a1, b1}
  Principals = {A, B}
  Requests = {r1, r2}
  Entries = {e1, e2}
  Sids = {s1}
  NoBearer = NoBearer  NoEntry = NoEntry  NoSid = NoSid  Nobody = Nobody
  PrincipalOf <- MCPrincipalOf
  Shape <- MCShape
  Revocable = {a1}
  Flaky = FALSE
  Closable = TRUE
  PublicModes = {TRUE, FALSE}
SPECIFICATION NodeSpec
SYMMETRY Symmetry
INVARIANTS NodeTypeOK SessionIsolation LookupsAgree FreshSessionsAreOwn PublicRunsAreAdmitted
\* With two entries a bounded instance may run out of identities and stop, and
\* a closed pool is at rest.
CHECK_DEADLOCK FALSE
