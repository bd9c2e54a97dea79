CONSTANTS
  a1 = a1  a2 = a2  a3 = a3  b1 = b1  x1 = x1  o1 = o1  o2 = o2
  A = A  B = B
  Bearers = {a1, x1}
  Principals = {A}
  Requests = {r1, r2}
  Entries = {e1, e2, e3, e4}
  Sids = {}
  NoBearer = NoBearer  NoEntry = NoEntry  NoSid = NoSid  Nobody = Nobody
  PrincipalOf <- MCPrincipalOf
  Shape <- MCShape
  Revocable = {a1, x1}
  Flaky = TRUE
  Closable = FALSE
SPECIFICATION FairSpec
PROPERTIES EveryRequestAnswered ImplementsFairDoor RevocationLands HintsOnlyRoute
